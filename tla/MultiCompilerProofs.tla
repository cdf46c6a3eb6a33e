-------------------------- MODULE MultiCompilerProofs --------------------------
(***************************************************************************)
(* Proofs about MultiCompiler, for any acyclic graph of compilers and any  *)
(* parallelism: slots are counted exactly, nothing that may start is       *)
(* forgotten, and what is done has seen the last builds of its ancestors.  *)
(***************************************************************************)
EXTENDS MultiCompiler, TLAPS, FiniteSetTheorems, SequenceTheorems

(***************************************************************************)
(* Facts about the graph and the queue.                                    *)
(***************************************************************************)

\* Below[n] holds the children of n and of its members, and nothing that is
\* not a child of one of these.
LEMMA BelowFacts ==
  ASSUME NEW n \in Node
  PROVE  /\ Below[n] \subseteq Node
         /\ Children(n) \subseteq Below[n]
         /\ \A k \in Below[n] : Children(k) \subseteq Below[n]
         /\ \A S \in SUBSET Node :
               Children(n) \subseteq S /\ (\A k \in S : Children(k) \subseteq S) => Below[n] \subseteq S
         /\ n \notin Below[n]
         /\ \A p \in Parents[n] : p \in Node /\ p \notin Below[n] /\ n \in Children(p)
<1>1. Below[n] = {m \in Node : \A S \in SUBSET Node :
            (Children(n) \subseteq S /\ \A k \in S : Children(k) \subseteq S) => m \in S}
  BY DEF Below
<1>2. \A k \in Node : Children(k) \subseteq Node
  BY DEF Children
<1>3. Below[n] \subseteq Node
  BY <1>1
<1>4. \A S \in SUBSET Node :
         Children(n) \subseteq S /\ (\A k \in S : Children(k) \subseteq S) => Below[n] \subseteq S
  BY <1>1
<1>5. Children(n) \subseteq Below[n]
  BY <1>1, <1>2
<1>6. ASSUME NEW k \in Below[n] PROVE Children(k) \subseteq Below[n]
  BY <1>1, <1>2
<1>7. n \notin Below[n]
  BY MultiAssumption DEF GraphAssumption
<1>8. ASSUME NEW p \in Parents[n] PROVE p \in Node /\ p \notin Below[n] /\ n \in Children(p)
  <2>1. p \in Node /\ n \in Children(p)
    BY MultiAssumption DEF GraphAssumption, Children
  <2> QED
    BY <1>6, <1>7, <2>1
<1> QED
  BY <1>3, <1>4, <1>5, <1>6, <1>7, <1>8

\* Every compiler below n has a parent that is n or below n.
LEMMA BelowHasParent ==
  ASSUME NEW n \in Node, NEW m \in Below[n]
  PROVE  \E p \in Parents[m] : p = n \/ p \in Below[n]
<1> DEFINE S == {k \in Below[n] : \E p \in Parents[k] : p = n \/ p \in Below[n]}
<1>1. S \subseteq Node /\ S \subseteq Below[n]
  BY BelowFacts
<1>2. Children(n) \subseteq S
  BY BelowFacts DEF Children
<1>3. \A k \in S : Children(k) \subseteq S
  <2> SUFFICES ASSUME NEW k \in S, NEW c \in Children(k) PROVE c \in S
    OBVIOUS
  <2>1. k \in Below[n] /\ k \in Node
    BY <1>1
  <2>2. c \in Below[n] /\ k \in Parents[c]
    BY <2>1, BelowFacts DEF Children
  <2> QED
    BY <2>1, <2>2
<1> HIDE DEF S
<1>4. Below[n] \subseteq S
  BY <1>1, <1>2, <1>3, BelowFacts
<1> QED
  BY <1>4 DEF S

\* Sets of compilers are finite.
LEMMA NodesFinite ==
  /\ IsFiniteSet(Node)
  /\ \A S \in SUBSET Node : IsFiniteSet(S) /\ Cardinality(S) \in Nat
<1>1. IsFiniteSet(Node)
  BY MultiAssumption, FS_Interval DEF GraphAssumption, Node
<1> QED
  BY <1>1, FS_Subset, FS_CardinalityType

\* The rank of a member, by counting: every rank is taken once.
LEMMA InOrderFacts ==
  ASSUME NEW S \in SUBSET Node
  PROVE  /\ InOrder(S) \in Seq(Node)
         /\ \A n \in S : \E i \in 1 .. Len(InOrder(S)) : InOrder(S)[i] = n
<1> DEFINE Before(n) == {m \in S : m < n}
           rank == [n \in S |-> Cardinality(Before(n)) + 1]
           size == Cardinality(S)
<1>1. IsFiniteSet(S) /\ size \in Nat /\ S \subseteq Nat
  BY NodesFinite DEF Node
<1>2. \A n \in S : IsFiniteSet(Before(n)) /\ Cardinality(Before(n)) \in Nat
  BY <1>1, FS_Subset, FS_CardinalityType
<1>3. \A n \in S : Cardinality(Before(n)) + 1 \in 1 .. size
  <2> SUFFICES ASSUME NEW n \in S PROVE Cardinality(Before(n)) + 1 \in 1 .. size
    OBVIOUS
  <2>1. Before(n) \in SUBSET (S \ {n})
    BY <1>1
  <2>2. IsFiniteSet(S \ {n}) /\ Cardinality(S \ {n}) = size - 1
    BY <1>1, FS_RemoveElement
  <2>3. Cardinality(Before(n)) <= size - 1
    BY <2>1, <2>2, FS_Subset
  <2> QED
    BY <1>1, <1>2, <2>3
<1>4. ASSUME NEW m \in S, NEW n \in S, m < n
      PROVE  Cardinality(Before(m)) < Cardinality(Before(n))
  <2>1. Before(m) \in SUBSET (Before(n) \ {m}) /\ m \in Before(n)
    <3>1. m \in Nat /\ n \in Nat /\ \A k \in S : k \in Nat
      BY <1>1
    <3>2. \A k \in S : k < m => k < n /\ k # m
      BY <1>4, <3>1
    <3> QED
      BY <1>4, <3>2
  <2>2. /\ IsFiniteSet(Before(n) \ {m})
        /\ Cardinality(Before(n) \ {m}) = Cardinality(Before(n)) - 1
    BY <1>2, <2>1, FS_RemoveElement
  <2>3. Cardinality(Before(m)) <= Cardinality(Before(n)) - 1
    BY <2>1, <2>2, FS_Subset
  <2>4. Cardinality(Before(m)) \in Nat /\ Cardinality(Before(n)) \in Nat
    BY <1>2
  <2> HIDE DEF Before
  <2> QED
    BY <2>3, <2>4
<1>5. rank \in [S -> 1 .. size]
  BY <1>3
<1>6. ASSUME NEW m \in S, NEW n \in S, rank[m] = rank[n]
      PROVE  m = n
  <2>1. Cardinality(Before(m)) = Cardinality(Before(n))
    BY <1>2, <1>6
  <2>2. ~(m < n) /\ ~(n < m)
    BY <1>2, <1>4, <2>1
  <2> QED
    BY <1>1, <2>2
<1>7. rank \in Surjection(S, 1 .. size)
  <2> HIDE DEF rank
  <2>1. rank \in Injection(S, 1 .. size)
    BY <1>5, <1>6 DEF Injection, IsInjective
  <2>2. IsFiniteSet(1 .. size) /\ Cardinality(1 .. size) = size
    BY <1>1, FS_Interval
  <2> QED
    BY <2>1, <2>2, FS_Injection
<1>8. \A i \in 1 .. size : \E n \in S : rank[n] = i
  BY <1>7 DEF Surjection
<1>9. ASSUME NEW i \in 1 .. size
      PROVE  InOrder(S)[i] \in S /\ rank[InOrder(S)[i]] = i
  <2>1. PICK n \in S : Cardinality(Before(n)) = i - 1
    <3>1. PICK n \in S : rank[n] = i
      BY <1>8
    <3> QED
      BY <1>2, <3>1
  <2>2. InOrder(S)[i] = CHOOSE k \in S : Cardinality(Before(k)) = i - 1
    BY DEF InOrder
  <2>3. InOrder(S)[i] \in S /\ Cardinality(Before(InOrder(S)[i])) = i - 1
    BY <2>1, <2>2
  <2> QED
    BY <2>3
<1>10. InOrder(S) \in [1 .. size -> Node]
  BY <1>9 DEF InOrder
<1>11. InOrder(S) \in Seq(Node) /\ Len(InOrder(S)) = size
  BY <1>1, <1>10
<1>12. ASSUME NEW n \in S PROVE \E i \in 1 .. size : InOrder(S)[i] = n
  <2>1. rank[n] \in 1 .. size
    BY <1>5
  <2>2. InOrder(S)[rank[n]] \in S /\ rank[InOrder(S)[rank[n]]] = rank[n]
    BY <1>9, <2>1
  <2> QED
    BY <1>6, <2>1, <2>2
<1> QED
  BY <1>11, <1>12

(***************************************************************************)
(* Types, by the groups of `vars`.                                         *)
(***************************************************************************)

GraphTypes ==
    /\ state \in [Node -> NodeState] /\ queue \in Seq(Node) /\ running \in Int
    /\ worker \in {"off", "scheduled", "looping"} /\ errored \in BOOLEAN
    /\ results \subseteq Node

FlagTypes ==
    /\ suspended \in [Node -> BOOLEAN]
    /\ closed \in [Node -> {"open", "closing", "closed"}]

BuildTypes ==
    /\ phase \in [Node -> {"none", "begin", "compile", "emit"}]
    /\ invalid \in [Node -> BOOLEAN] /\ blocked \in [Node -> BOOLEAN]
    /\ initial \in [Node -> BOOLEAN]
    /\ dirty \subseteq Node /\ stale \subseteq Node /\ emitted \subseteq Node

WatcherTypes == watcher \in [Node -> {"off", "live", "reported"}]

RestTypes ==
    /\ finishing \in [Node -> Nat] /\ toWatch \subseteq Node
    /\ watchMode \in BOOLEAN /\ tick \in BOOLEAN /\ told \in BOOLEAN

BudgetTypes ==
    budget \in [changes : 0 .. MaxChanges, events : 0 .. MaxEvents, seen : SUBSET EventKind]

Types == GraphTypes /\ FlagTypes /\ BuildTypes /\ WatcherTypes /\ RestTypes /\ BudgetTypes

Slots == {"starting", "running", "running-outdated"}

\* nodeInvalid and nodeChange keep slots as they are, leave nobody done or
\* running below n, and touch nothing else.
LEMMA OutdatingFacts ==
  ASSUME NEW st \in [Node -> NodeState], NEW n \in Node,
         NEW new, new = NodeInvalid(st, n) \/ new = NodeChangeState(st, n)
  PROVE  /\ new \in [Node -> NodeState]
         /\ \A m \in Node : (new[m] \in Slots <=> st[m] \in Slots) /\ (new[m] = "starting" <=> st[m] = "starting")
         /\ \A m \in Node : new[m] \in {"running", "done", "queued"} => new[m] = st[m]
         /\ \A m \in Below[n] \cup {n} : new[m] \notin {"running", "done"}
         /\ \A m \in Node : m # n /\ m \notin Below[n] => new[m] = st[m]
         /\ new[n] = "blocked" => st[n] = "blocked" \/ new = NodeChangeState(st, n)
         /\ \A m \in Below[n] : new[m] = "blocked" => st[m] \in {"blocked", "done"}
<1> DEFINE mid == NodeInvalid(st, n)
<1>1. Below[n] \subseteq Node /\ n \notin Below[n]
  BY BelowFacts
<1>2. \A m \in Node :
         mid[m] = IF m = n
                  THEN (CASE st[m] = "done" -> "pending"
                          [] st[m] = "running" -> "running-outdated"
                          [] OTHER -> st[m])
                  ELSE IF m \in Below[n]
                  THEN (CASE st[m] = "done" -> "blocked"
                          [] st[m] = "running" -> "running-outdated"
                          [] OTHER -> st[m])
                  ELSE st[m]
  BY DEF NodeInvalid, OutdatedBy
<1>3. mid \in [Node -> NodeState]
  <2>1. \A m \in Node : mid[m] \in NodeState
    BY <1>2 DEF NodeState
  <2>2. mid = [m \in Node |-> mid[m]]
    BY DEF NodeInvalid
  <2> HIDE DEF mid
  <2> QED
    BY <2>1, <2>2
<1> HIDE DEF mid
<1>4. \/ new = mid
      \/ mid[n] = "pending" /\ new = [mid EXCEPT ![n] = "blocked"] /\ new = NodeChangeState(st, n)
  BY DEF mid, NodeChangeState, Unpend
<1>5. CASE new = mid
  BY <1>1, <1>2, <1>3, <1>5 DEF Slots
<1>6. CASE mid[n] = "pending" /\ new = [mid EXCEPT ![n] = "blocked"] /\ new = NodeChangeState(st, n)
  <2>1. new \in [Node -> NodeState]
    BY <1>3, <1>6 DEF NodeState
  <2>2. \A m \in Node : new[m] = IF m = n THEN "blocked" ELSE mid[m]
    BY <1>3, <1>6
  <2> QED
    BY <1>1, <1>2, <1>6, <2>1, <2>2 DEF Slots
<1> QED
  BY <1>4, <1>5, <1>6

\* _go, _invalidate and their like.
BuildUnchanged == UNCHANGED <<phase, invalid, blocked, initial, dirty, stale, emitted>>

LEMMA BuildStepTypes ==
  ASSUME BuildTypes, NEW n \in Node, NEW st, Stay \/ Go(n) \/ InvalidateNow(n, st) \/ Invalidate(n, st)
  PROVE  BuildTypes'
<1>1. ASSUME BuildUnchanged PROVE BuildTypes'
  BY <1>1 DEF BuildTypes, BuildUnchanged
<1>2. ASSUME Go(n) PROVE BuildTypes'
  <2>1. Below[n] \subseteq Node
    BY BelowFacts
  <2> QED
    BY <1>2, <2>1 DEF Go, BuildTypes
<1>3. ASSUME InvalidateNow(n, st) PROVE BuildTypes'
  <2>1. CASE IsBlocked(st, n)
    BY <1>3, <2>1 DEF InvalidateNow, BuildTypes
  <2>2. CASE ~IsBlocked(st, n) /\ phase[n] # "none"
    BY <1>3, <2>2 DEF InvalidateNow, BuildTypes
  <2>3. CASE ~IsBlocked(st, n) /\ ~(phase[n] # "none")
    BY <1>2, <1>3, <2>3 DEF InvalidateNow
  <2> QED
    BY <2>1, <2>2, <2>3
<1> QED
  BY <1>1, <1>2, <1>3 DEF Stay, BuildUnchanged, Invalidate

LEMMA PauseTypes ==
  ASSUME WatcherTypes, NEW n \in Node, PauseIfBegun(n)
  PROVE  WatcherTypes'
BY DEF WatcherTypes, PauseIfBegun

LEMMA NodeChangeTypes ==
  ASSUME GraphTypes, NEW n \in Node, NodeChange(n), UNCHANGED <<running, errored, results>>
  PROVE  GraphTypes'
<1>1. state' \in [Node -> NodeState]
  BY OutdatingFacts DEF NodeChange, GraphTypes
<1>2. queue' \in Seq(Node) /\ worker' \in {"off", "scheduled", "looping"}
  BY DEF NodeChange, GraphTypes, Wake
<1> QED
  BY <1>1, <1>2 DEF GraphTypes

LEMMA NodeDoneTypes ==
  ASSUME GraphTypes, NEW n \in Node, NodeDone(n)
  PROVE  GraphTypes'
<1>1. CASE errored
  BY <1>1 DEF NodeDone, graph, GraphTypes
<1>2. CASE ~errored
  <2>1. Ready(n) \in SUBSET Node
    BY DEF Ready, Children
  <2>2. InOrder(Ready(n)) \in Seq(Node)
    BY <2>1, InOrderFacts
  <2>3. state' \in [Node -> NodeState] /\ queue' \in Seq(Node)
    <3>1. CASE state[n] = "running"
      <4>1. /\ state' = [state EXCEPT ![n] = "done"]
            /\ queue' = queue \o InOrder(Ready(n))
        BY <1>2, <3>1 DEF NodeDone
      <4>2. state' \in [Node -> NodeState]
        BY <4>1 DEF GraphTypes, NodeState
      <4>3. queue' \in Seq(Node)
        BY <2>2, <4>1, ConcatProperties DEF GraphTypes
      <4> QED
        BY <4>2, <4>3
    <3>2. CASE state[n] = "running-outdated"
      BY <1>2, <3>2, AppendProperties DEF NodeDone, GraphTypes, NodeState
    <3>3. CASE state[n] \notin {"running", "running-outdated"}
      BY <1>2, <3>3 DEF NodeDone, GraphTypes
    <3> QED
      BY <3>1, <3>2, <3>3
  <2>4. running' \in Int /\ worker' \in {"off", "scheduled", "looping"} /\ results' \subseteq Node
    BY <1>2 DEF NodeDone, GraphTypes, Wake, Release
  <2> QED
    BY <1>2, <2>3, <2>4 DEF NodeDone, GraphTypes
<1> QED
  BY <1>1, <1>2 DEF GraphTypes

\* close() of all watchings, and an error.
LEMMA CloseAllTypes ==
  ASSUME FlagTypes, BuildTypes, WatcherTypes, NEW ph \in [Node -> {"none", "begin", "compile", "emit"}],
         CloseAll(ph), suspended' = suspended, phase' \in [Node -> {"none", "begin", "compile", "emit"}],
         blocked' \in [Node -> BOOLEAN], UNCHANGED <<initial, dirty, stale, emitted>>
  PROVE  FlagTypes' /\ BuildTypes' /\ WatcherTypes'
<1>1. FlagTypes'
  BY DEF FlagTypes, CloseAll
<1>2. BuildTypes'
  BY DEF BuildTypes, CloseAll
<1>3. WatcherTypes'
  BY DEF WatcherTypes, CloseAll
<1> QED
  BY <1>1, <1>2, <1>3

LEMMA NodeFailsTypes ==
  ASSUME Types, NEW ph \in [Node -> {"none", "begin", "compile", "emit"}],
         NodeFails(ph), suspended' = suspended, phase' \in [Node -> {"none", "begin", "compile", "emit"}],
         blocked' \in [Node -> BOOLEAN], UNCHANGED <<initial, dirty, stale, emitted>>
  PROVE  /\ FlagTypes' /\ BuildTypes' /\ WatcherTypes'
         /\ told' \in BOOLEAN /\ errored' \in BOOLEAN
<1>1. CASE UNCHANGED <<closed, invalid, watcher>>
  <2>1. FlagTypes'
    BY <1>1 DEF Types, FlagTypes
  <2>2. BuildTypes'
    BY <1>1 DEF Types, BuildTypes
  <2>3. WatcherTypes'
    BY <1>1 DEF Types, WatcherTypes
  <2>4. told' \in BOOLEAN /\ errored' \in BOOLEAN
    BY DEF NodeFails, Types, RestTypes, GraphTypes, AllClosed
  <2> QED
    BY <2>1, <2>2, <2>3, <2>4
<1>2. CASE CloseAll(ph)
  <2>1. FlagTypes' /\ BuildTypes' /\ WatcherTypes'
    BY <1>2, CloseAllTypes DEF Types
  <2>2. told' \in BOOLEAN /\ errored' \in BOOLEAN
    BY DEF NodeFails, Types, RestTypes, GraphTypes, AllClosed
  <2> QED
    BY <2>1, <2>2
<1> QED
  BY <1>1, <1>2 DEF NodeFails, Types, RestTypes, GraphTypes

LEMMA EventTypes ==
  ASSUME BudgetTypes, NEW kind \in EventKind, Happens(kind)
  PROVE  BudgetTypes'
<1>1. budget.events - 1 \in 0 .. MaxEvents /\ budget.seen \cup {kind} \in SUBSET EventKind
  BY MultiAssumption DEF BudgetTypes, Happens
<1>2. budget' = [budget EXCEPT !.events = budget.events - 1, !.seen = budget.seen \cup {kind}]
  BY DEF Happens
<1> QED
  BY <1>1, <1>2 DEF BudgetTypes

LEMMA InitTypes == Init => Types
<1> SUFFICES ASSUME Init PROVE Types
  OBVIOUS
<1>1. GraphTypes
  <2>1. state \in [Node -> NodeState]
    BY DEF Init, NodeState
  <2>2. queue \in Seq(Node)
    BY InOrderFacts DEF Init, Roots
  <2>3. running \in Int /\ worker = "looping" /\ errored = FALSE /\ results = {}
    BY DEF Init
  <2> QED
    BY <2>1, <2>2, <2>3 DEF GraphTypes
<1>2. FlagTypes
  BY DEF Init, FlagTypes
<1>3. BuildTypes
  BY DEF Init, BuildTypes
<1>4. WatcherTypes
  BY DEF Init, WatcherTypes
<1>5. RestTypes
  BY DEF Init, RestTypes
<1>6. BudgetTypes
  BY MultiAssumption DEF Init, BudgetTypes
<1> QED
  BY <1>1, <1>2, <1>3, <1>4, <1>5, <1>6 DEF Types

\* Every step keeps the types.
LEMMA TypesStep ==
  ASSUME Types, [Next]_vars
  PROVE  Types'
<1> USE DEF Types
<1>a. /\ UNCHANGED graph => GraphTypes'
      /\ UNCHANGED flags => FlagTypes'
      /\ UNCHANGED <<phase, invalid, blocked, initial, dirty, stale, emitted>> => BuildTypes'
      /\ UNCHANGED watcher => WatcherTypes'
      /\ UNCHANGED <<finishing, toWatch, watchMode, tick, told>> => RestTypes'
      /\ UNCHANGED budget => BudgetTypes'
  <2>1. UNCHANGED graph => GraphTypes'
    BY DEF GraphTypes, graph
  <2>2. UNCHANGED flags => FlagTypes'
    BY DEF FlagTypes, flags
  <2>3. UNCHANGED <<phase, invalid, blocked, initial, dirty, stale, emitted>> => BuildTypes'
    BY DEF BuildTypes
  <2>4. UNCHANGED watcher => WatcherTypes'
    BY DEF WatcherTypes
  <2>5. UNCHANGED <<finishing, toWatch, watchMode, tick, told>> => RestTypes'
    BY DEF RestTypes
  <2>6. UNCHANGED budget => BudgetTypes'
    BY DEF BudgetTypes
  <2> QED
    BY <2>1, <2>2, <2>3, <2>4, <2>5, <2>6
<1>b. UNCHANGED watching => BuildTypes' /\ WatcherTypes'
  BY <1>a DEF watching
<1>1. CASE StartNode
  <2> DEFINE n == Head(queue)
             starting == [state EXCEPT ![n] = "starting"]
  <2>1. n \in Node /\ Tail(queue) \in Seq(Node)
    BY <1>1, HeadTailProperties DEF StartNode, WorkerGoesOn, GraphTypes
  <2>2. starting \in [Node -> NodeState]
    BY <2>1 DEF GraphTypes, NodeState
  <2>3. state' \in [Node -> NodeState] /\ BuildTypes'
    <3>1. CASE watchMode
      <4>1. RunWatching(n, starting)
        BY <1>1, <3>1 DEF StartNode
      <4> HIDE DEF n, starting
      <4>2. NodeChangeState(starting, n) \in [Node -> NodeState]
        BY <2>1, <2>2, OutdatingFacts
      <4>3. state' \in [Node -> NodeState]
        BY <2>1, <2>2, <4>1, <4>2 DEF RunWatching, NodeState
      <4>4. BuildTypes'
        BY <2>1, <4>1, BuildStepTypes DEF RunWatching
      <4> QED
        BY <4>3, <4>4
    <3>2. CASE ~watchMode
      <4>1. state' = [starting EXCEPT ![n] = "running"] /\ Go(n)
        BY <1>1, <3>2 DEF StartNode
      <4> HIDE DEF n, starting
      <4>2. state' \in [Node -> NodeState]
        BY <2>1, <2>2, <4>1 DEF NodeState
      <4> QED
        BY <2>1, <4>1, <4>2, BuildStepTypes
    <3> QED
      BY <3>1, <3>2
  <2>4. WatcherTypes'
    BY <1>1, <2>1, PauseTypes DEF StartNode
  <2>5. GraphTypes'
    BY <1>1, <2>1, <2>3 DEF StartNode, GraphTypes
  <2> QED
    BY <1>1, <1>a, <2>3, <2>4, <2>5 DEF StartNode
<1>2. CASE DropNode
  <2>1. Tail(queue) \in Seq(Node)
    BY <1>2, HeadTailProperties DEF DropNode, WorkerGoesOn, GraphTypes
  <2>2. GraphTypes'
    BY <1>2, <2>1 DEF DropNode, GraphTypes
  <2> QED
    BY <1>2, <1>a, <1>b, <2>2 DEF DropNode
<1>3. CASE EndLoop
  <2>1. GraphTypes'
    BY <1>3 DEF EndLoop, GraphTypes
  <2> QED
    BY <1>3, <1>a, <1>b, <2>1 DEF EndLoop
<1>4. CASE Work
  <2>1. GraphTypes'
    BY <1>4 DEF Work, GraphTypes
  <2> QED
    BY <1>4, <1>a, <1>b, <2>1 DEF Work
<1>5. CASE FirstTick
  <2>1. BuildTypes'
    BY <1>5 DEF FirstTick, BuildTypes, IsBlocked
  <2>2. RestTypes'
    BY <1>5 DEF FirstTick, RestTypes
  <2> QED
    BY <1>5, <1>a, <2>1, <2>2 DEF FirstTick
<1>6. ASSUME NEW n \in Node, Begin(n) PROVE Types'
  <2>1. BuildTypes'
    BY <1>6 DEF Begin, BuildTypes
  <2> QED
    BY <1>6, <1>a, <2>1 DEF Begin
<1>7. ASSUME NEW n \in Node, Emit(n) PROVE Types'
  <2>1. BuildTypes'
    BY <1>7 DEF Emit, BuildTypes
  <2> QED
    BY <1>7, <1>a, <2>1 DEF Emit
<1>8. ASSUME NEW n \in Node, DoneClosed(n), BudgetTypes' PROVE Types'
  <2>1. BuildTypes'
    BY <1>8 DEF DoneClosed, BuildTypes
  <2>2. FlagTypes'
    BY <1>8 DEF DoneClosed, FlagTypes
  <2>3. RestTypes'
    BY <1>8 DEF DoneClosed, RestTypes, GraphTypes, AllClosed, graph
  <2> QED
    BY <1>8, <1>a, <2>1, <2>2, <2>3 DEF DoneClosed
<1>9. ASSUME NEW n \in Node, DoneAgain(n), BudgetTypes' PROVE Types'
  <2>1. BuildTypes' /\ WatcherTypes'
    BY <1>9, BuildStepTypes, PauseTypes DEF DoneAgain
  <2> QED
    BY <1>9, <1>a, <2>1 DEF DoneAgain
<1>10. ASSUME NEW n \in Node, DoneOk(n), BudgetTypes' PROVE Types'
  <2>1. BuildTypes'
    <3>1. Below[n] \subseteq Node
      BY BelowFacts
    <3>2. blocked' \in [Node -> BOOLEAN]
      BY <1>10 DEF DoneOk, BlockedByDone, BuildTypes, RestTypes, FlagTypes
    <3> QED
      BY <1>10, <3>1, <3>2 DEF DoneOk, BuildTypes
  <2>2. RestTypes'
    BY <1>10 DEF DoneOk, RestTypes
  <2> QED
    BY <1>10, <1>a, <2>1, <2>2 DEF DoneOk
<1>11. ASSUME NEW n \in Node, DoneFailed(n), BudgetTypes' PROVE Types'
  <2>1. phase' \in [Node -> {"none", "begin", "compile", "emit"}]
    BY <1>11 DEF DoneFailed, BuildTypes
  <2>2. blocked' \in [Node -> BOOLEAN]
    BY <1>11 DEF DoneFailed, BlockedByDone, BuildTypes, RestTypes, FlagTypes
  <2>3. /\ FlagTypes' /\ BuildTypes' /\ WatcherTypes'
        /\ told' \in BOOLEAN /\ errored' \in BOOLEAN
    <3>1. NodeFails(phase')
      BY <1>11 DEF DoneFailed
    <3>2. \A ph \in [Node -> {"none", "begin", "compile", "emit"}] : NodeFails(ph)
            => FlagTypes' /\ BuildTypes' /\ WatcherTypes' /\ told' \in BOOLEAN /\ errored' \in BOOLEAN
      BY <1>11, <2>1, <2>2, NodeFailsTypes DEF DoneFailed
    <3> QED
      BY <2>1, <3>1, <3>2
  <2>4. GraphTypes' /\ RestTypes'
    BY <1>11, <2>3 DEF DoneFailed, GraphTypes, RestTypes
  <2> QED
    BY <1>11, <2>3, <2>4
<1>12. ASSUME NEW n \in Node, DoneHook(n) PROVE Types'
  <2>1. GraphTypes'
    BY <1>12, NodeDoneTypes DEF DoneHook
  <2>2. RestTypes'
    BY <1>12 DEF DoneHook, RestTypes
  <2> QED
    BY <1>12, <1>a, <1>b, <2>1, <2>2 DEF DoneHook
<1>13. ASSUME NEW n \in Node, DoneHookFails(n) PROVE Types'
  <2>1. phase \in [Node -> {"none", "begin", "compile", "emit"}] /\ blocked \in [Node -> BOOLEAN]
    BY DEF BuildTypes
  <2>2. /\ FlagTypes' /\ BuildTypes' /\ WatcherTypes'
        /\ told' \in BOOLEAN /\ errored' \in BOOLEAN
    BY <1>13, <2>1, NodeFailsTypes DEF DoneHookFails
  <2>3. GraphTypes' /\ RestTypes'
    BY <1>13, <2>2 DEF DoneHookFails, GraphTypes, RestTypes
  <2>4. BudgetTypes'
    BY <1>13, EventTypes DEF DoneHookFails, EventKind
  <2> QED
    BY <2>2, <2>3, <2>4
<1>14. ASSUME NEW n \in Node, WatchTick(n) PROVE Types'
  <2>1. RestTypes'
    BY <1>14 DEF WatchTick, RestTypes
  <2>2. WatcherTypes'
    BY <1>14 DEF WatchTick, WatcherTypes
  <2> QED
    BY <1>14, <1>a, <2>1, <2>2 DEF WatchTick
<1>15. ASSUME NEW n \in Node, FileChange(n) PROVE Types'
  <2>1. BuildTypes'
    BY <1>15 DEF FileChange, BuildTypes
  <2>2. BudgetTypes'
    BY <1>15, MultiAssumption DEF FileChange, BudgetTypes
  <2> QED
    BY <1>15, <1>a, <2>1, <2>2 DEF FileChange
<1>16. ASSUME NEW n \in Node, Undelayed(n) PROVE Types'
  <2>1. state' \in [Node -> NodeState]
    BY <1>16, OutdatingFacts DEF Undelayed, GraphTypes
  <2>2. GraphTypes'
    BY <1>16, <2>1 DEF Undelayed, GraphTypes
  <2>3. WatcherTypes'
    BY <1>16 DEF Undelayed, WatcherTypes
  <2> QED
    BY <1>16, <1>a, <2>2, <2>3 DEF Undelayed
<1>17. ASSUME NEW n \in Node, Aggregated(n) PROVE Types'
  <2>1. GraphTypes'
    BY <1>17, NodeChangeTypes DEF Aggregated, OnChange
  <2>2. BuildTypes'
    BY <1>17, BuildStepTypes DEF Aggregated
  <2>3. WatcherTypes'
    BY <1>17 DEF Aggregated, WatcherTypes
  <2>4. BudgetTypes'
    BY <1>17, <1>a, EventTypes DEF Aggregated, EventKind
  <2> QED
    BY <1>17, <1>a, <2>1, <2>2, <2>3, <2>4 DEF Aggregated
<1>18. ASSUME NEW n \in Node, ClientInvalidate(n) PROVE Types'
  <2>1. GraphTypes'
    BY <1>18, NodeChangeTypes DEF ClientInvalidate
  <2>2. BuildTypes'
    BY <1>18, BuildStepTypes DEF ClientInvalidate
  <2>3. WatcherTypes'
    BY <1>18, PauseTypes DEF ClientInvalidate
  <2>4. BudgetTypes'
    BY <1>18, EventTypes DEF ClientInvalidate, EventKind
  <2> QED
    BY <1>18, <1>a, <2>1, <2>2, <2>3, <2>4 DEF ClientInvalidate
<1>19. ASSUME NEW n \in Node, Suspend(n) PROVE Types'
  <2>1. FlagTypes'
    BY <1>19 DEF Suspend, FlagTypes
  <2>2. BudgetTypes'
    BY <1>19, EventTypes DEF Suspend, EventKind
  <2> QED
    BY <1>19, <1>a, <1>b, <2>1, <2>2 DEF Suspend
<1>20. ASSUME NEW n \in Node, Resume(n) PROVE Types'
  <2>1. FlagTypes'
    BY <1>20 DEF Resume, FlagTypes
  <2>2. BuildTypes'
    BY <1>20, BuildStepTypes DEF Resume
  <2>3. WatcherTypes'
    BY <1>20, PauseTypes DEF Resume
  <2> QED
    BY <1>20, <1>a, <2>1, <2>2, <2>3 DEF Resume
<1>21. CASE Close
  <2>1. FlagTypes' /\ BuildTypes' /\ WatcherTypes'
    BY <1>21, CloseAllTypes DEF Close, BuildTypes
  <2>2. BudgetTypes'
    BY <1>21, EventTypes DEF Close, EventKind
  <2> QED
    BY <1>21, <1>a, <2>1, <2>2 DEF Close
<1>22. CASE UNCHANGED vars
  BY <1>22, <1>a, <1>b DEF vars
<1>23. ASSUME NEW n \in Node, Done(n) PROVE Types'
  BY <1>23, <1>a, <1>8, <1>9, <1>10 DEF Done
<1>24. ASSUME NEW n \in Node, Fail(n) PROVE Types'
  BY <1>24, <1>8, <1>9, <1>11, EventTypes DEF Fail, EventKind
<1> QED
  BY <1>1, <1>2, <1>3, <1>4, <1>5, <1>6, <1>7, <1>12, <1>13, <1>14, <1>15, <1>16, <1>17, <1>18,
     <1>19, <1>20, <1>21, <1>22, <1>23, <1>24
     DEF Next, System, Environment


(***************************************************************************)
(* Nothing is forgotten.                                                   *)
(***************************************************************************)

Holds(q, n) == \E i \in DOMAIN q : q[i] = n

Startable(st, n) ==
    st[n] = "queued" \/ (st[n] = "blocked" /\ \A p \in Parents[n] : st[p] = "done")

\* What is in the queue stays there, but for its head.
LEMMA QueueFacts ==
  ASSUME NEW q \in Seq(Node)
  PROVE  /\ \A n \in Node : /\ Holds(Append(q, n), n)
                            /\ \A m \in Node : Holds(q, m) => Holds(Append(q, n), m)
         /\ \A r \in Seq(Node), m \in Node : Holds(q, m) \/ Holds(r, m) => Holds(q \o r, m)
         /\ q # <<>> => \A m \in Node : Holds(q, m) /\ m # Head(q) => Holds(Tail(q), m)
<1>1. ASSUME NEW n \in Node
      PROVE  /\ Holds(Append(q, n), n)
             /\ \A m \in Node : Holds(q, m) => Holds(Append(q, n), m)
  BY AppendProperties, LenProperties DEF Holds
<1>2. ASSUME NEW r \in Seq(Node), NEW m \in Node, Holds(q, m) \/ Holds(r, m)
      PROVE  Holds(q \o r, m)
  <2>0. /\ q \o r \in Seq(Node) /\ Len(q) \in Nat /\ Len(r) \in Nat
        /\ DOMAIN q = 1 .. Len(q) /\ DOMAIN r = 1 .. Len(r)
        /\ DOMAIN (q \o r) = 1 .. (Len(q) + Len(r))
        /\ \A i \in 1 .. Len(q) + Len(r) : (q \o r)[i] = IF i <= Len(q) THEN q[i] ELSE r[i - Len(q)]
    BY ConcatProperties, LenProperties
  <2>1. CASE Holds(q, m)
    <3>1. PICK i \in 1 .. Len(q) : q[i] = m
      BY <2>0, <2>1 DEF Holds
    <3>2. i \in 1 .. (Len(q) + Len(r)) /\ (q \o r)[i] = m
      BY <2>0, <3>1
    <3> QED
      BY <2>0, <3>2 DEF Holds
  <2>2. CASE Holds(r, m)
    <3>1. PICK i \in 1 .. Len(r) : r[i] = m
      BY <2>0, <2>2 DEF Holds
    <3>2. i + Len(q) \in 1 .. (Len(q) + Len(r)) /\ (q \o r)[i + Len(q)] = m
      BY <2>0, <3>1
    <3> QED
      BY <2>0, <3>2 DEF Holds
  <2> QED
    BY <1>2, <2>1, <2>2
<1>3. ASSUME q # <<>>, NEW m \in Node, Holds(q, m), m # Head(q)
      PROVE  Holds(Tail(q), m)
  <2>1. PICK i \in 1 .. Len(q) : q[i] = m
    BY <1>3, LenProperties DEF Holds
  <2>2. /\ Tail(q) \in Seq(Node) /\ Len(Tail(q)) = Len(q) - 1 /\ Len(q) \in Nat
        /\ \A j \in 1 .. Len(Tail(q)) : Tail(q)[j] = q[j + 1]
        /\ DOMAIN Tail(q) = 1 .. Len(Tail(q))
    BY <1>3, HeadTailProperties, LenProperties
  <2>3. i # 1
    BY <1>3, <2>1
  <2>4. i - 1 \in 1 .. Len(Tail(q)) /\ Tail(q)[i - 1] = m
    BY <2>1, <2>2, <2>3
  <2> QED
    BY <2>2, <2>4 DEF Holds
<1> QED
  BY <1>1, <1>2, <1>3

\* An invalidation lets nothing start that could not start before, but for the
\* node that nodeChange puts into the queue.
LEMMA OutdatingStarts ==
  ASSUME NEW st \in [Node -> NodeState], NEW n \in Node,
         NEW new, new = NodeInvalid(st, n) \/ new = NodeChangeState(st, n),
         NEW m \in Node, Startable(new, m)
  PROVE  Startable(st, m) \/ (m = n /\ new[n] = "blocked" /\ new = NodeChangeState(st, n))
<1>1. /\ \A k \in Node : new[k] \in {"running", "done", "queued"} => new[k] = st[k]
      /\ \A k \in Below[n] \cup {n} : new[k] \notin {"running", "done"}
      /\ \A k \in Node : k # n /\ k \notin Below[n] => new[k] = st[k]
      /\ new[n] = "blocked" => st[n] = "blocked" \/ new = NodeChangeState(st, n)
  BY OutdatingFacts
<1>2. \A p \in Parents[m] : p \in Node
  BY BelowFacts
<1>3. CASE new[m] = "queued"
  BY <1>1, <1>3 DEF Startable
<1>4. CASE new[m] = "blocked" /\ \A p \in Parents[m] : new[p] = "done"
  <2>1. m \notin Below[n]
    BY <1>1, <1>4, BelowHasParent
  <2>2. \A p \in Parents[m] : st[p] = "done"
    BY <1>1, <1>2, <1>4
  <2> QED
    BY <1>1, <1>4, <2>1, <2>2 DEF Startable
<1> QED
  BY <1>3, <1>4 DEF Startable

LEMMA ForgottenMeans ==
  NothingForgotten <=>
     (~errored => /\ \A n \in Node : Startable(state, n) => Holds(queue, n)
                  /\ queue # <<>> /\ HasSlot => worker # "off")
BY DEF NothingForgotten, Startable, Holds, MayStart

LEMMA ForgottenMeansNext ==
  NothingForgotten' <=>
     (~errored' => /\ \A n \in Node : Startable(state', n) => Holds(queue', n)
                   /\ queue' # <<>> /\ HasSlot' => worker' # "off")
BY DEF NothingForgotten, Startable, Holds, MayStart

\* nodeChange, when the node may be blocked afterwards.
LEMMA NodeChangeForgets ==
  ASSUME GraphTypes, NothingForgotten, NEW n \in Node, NodeChange(n), UNCHANGED <<running, errored>>
  PROVE  NothingForgotten'
<1> SUFFICES ASSUME ~errored PROVE NothingForgotten'
  BY ForgottenMeansNext
<1>1. state \in [Node -> NodeState] /\ queue \in Seq(Node)
  BY DEF GraphTypes
<1>2. /\ \A m \in Node : Startable(state, m) => Holds(queue, m)
      /\ queue # <<>> /\ HasSlot => worker # "off"
  BY ForgottenMeans
<1>3. \A m \in Node : Startable(state', m) => Startable(state, m) \/ (m = n /\ state'[n] = "blocked")
  BY <1>1, OutdatingStarts DEF NodeChange
<1>4. CASE state'[n] = "blocked"
  <2>1. queue' = Append(queue, n) /\ worker' # "off"
    BY <1>4 DEF NodeChange, Wake
  <2>2. \A m \in Node : Startable(state', m) => Holds(queue', m)
    BY <1>1, <1>2, <1>3, <2>1, QueueFacts
  <2> QED
    BY <2>1, <2>2, ForgottenMeansNext
<1>5. CASE state'[n] # "blocked"
  <2>1. queue' = queue /\ worker' = worker
    BY <1>5 DEF NodeChange
  <2>2. \A m \in Node : Startable(state', m) => Holds(queue', m)
    BY <1>2, <1>3, <1>5, <2>1
  <2> QED
    BY <1>2, <2>1, <2>2, ForgottenMeansNext DEF HasSlot
<1> QED
  BY <1>4, <1>5

\* nodeDone puts into the queue what has become startable, and wakes the worker.
LEMMA NodeDoneForgets ==
  ASSUME GraphTypes, NothingForgotten, NEW n \in Node, NodeDone(n)
  PROVE  NothingForgotten'
<1>1. state \in [Node -> NodeState] /\ queue \in Seq(Node)
  BY DEF GraphTypes
<1>2. CASE errored
  BY <1>2, ForgottenMeansNext DEF NodeDone, graph
<1>3. CASE ~errored
  <2>1. \A m \in Node : Startable(state, m) => Holds(queue, m)
    BY <1>3, ForgottenMeans
  <2>2. errored' = errored /\ worker' # "off"
    BY <1>3 DEF NodeDone, Wake
  <2>3. \A m \in Node : Startable(state', m) => Holds(queue', m)
    <3>1. CASE state[n] = "running"
      <4>1. state' = [state EXCEPT ![n] = "done"] /\ queue' = queue \o InOrder(Ready(n))
        BY <1>3, <3>1 DEF NodeDone
      <4>2. Ready(n) \in SUBSET Node
        BY DEF Ready, Children
      <4>3. \A m \in Node : Startable(state', m) => Startable(state, m) \/ m \in Ready(n)
        BY <1>1, <4>1, BelowFacts DEF Startable, Ready, Children
      <4>4. \A m \in Ready(n) : Holds(InOrder(Ready(n)), m)
        BY <4>2, InOrderFacts, LenProperties DEF Holds
      <4>5. InOrder(Ready(n)) \in Seq(Node)
        BY <4>2, InOrderFacts
      <4> QED
        BY <1>1, <2>1, <4>1, <4>3, <4>4, <4>5, QueueFacts
    <3>2. CASE state[n] = "running-outdated"
      <4>1. state' = [state EXCEPT ![n] = "blocked"] /\ queue' = Append(queue, n)
        BY <1>3, <3>2 DEF NodeDone
      <4>2. \A m \in Node : Startable(state', m) => Startable(state, m) \/ m = n
        BY <1>1, <4>1, BelowFacts DEF Startable
      <4> QED
        BY <1>1, <2>1, <4>1, <4>2, QueueFacts
    <3>3. CASE state[n] \notin {"running", "running-outdated"}
      <4>1. state' = state /\ queue' = queue
        BY <1>3, <3>3 DEF NodeDone
      <4> QED
        BY <2>1, <4>1
    <3> QED
      BY <3>1, <3>2, <3>3
  <2> QED
    BY <2>2, <2>3, ForgottenMeansNext
<1> QED
  BY <1>2, <1>3 DEF GraphTypes

\* Starting the head of the queue: the others keep their places.
LEMMA StartForgets ==
  ASSUME Types, NothingForgotten, StartNode
  PROVE  NothingForgotten'
<1> DEFINE n == Head(queue)
           starting == [state EXCEPT ![n] = "starting"]
<1>1. /\ state \in [Node -> NodeState] /\ queue \in Seq(Node) /\ queue # <<>>
      /\ queue' = Tail(queue) /\ worker' # "off" /\ UNCHANGED errored /\ ~errored
  BY DEF StartNode, WorkerGoesOn, Types, GraphTypes
<1>2. n \in Node /\ starting \in [Node -> NodeState]
  BY <1>1, HeadTailProperties DEF NodeState
<1>3. \A m \in Node : Startable(state, m) => Holds(queue, m)
  BY <1>1, ForgottenMeans
<1>4. \/ state' = [starting EXCEPT ![n] = "running"]
      \/ state' = [NodeChangeState(starting, n) EXCEPT ![n] = "running"]
  BY DEF StartNode, RunWatching
<1> HIDE DEF n, starting
<1>5. /\ \A m \in Node : m # n => starting[m] = state[m]
      /\ starting[n] = "starting"
  BY <1>1, <1>2 DEF starting
<1>6. \A m \in Node : m # n /\ Startable(starting, m) => Startable(state, m)
  <2> SUFFICES ASSUME NEW m \in Node, m # n, Startable(starting, m) PROVE Startable(state, m)
    OBVIOUS
  <2>1. \A p \in Parents[m] : p \in Node
    BY BelowFacts
  <2> QED
    BY <1>5, <2>1 DEF Startable
<1>7. \A m \in Node : Startable(state', m) => m # n /\ Startable(starting, m)
  <2> SUFFICES ASSUME NEW m \in Node, Startable(state', m) PROVE m # n /\ Startable(starting, m)
    OBVIOUS
  <2>1. \A p \in Parents[m] : p \in Node
    BY BelowFacts
  <2>2. CASE state' = [starting EXCEPT ![n] = "running"]
    BY <1>2, <1>5, <2>1, <2>2 DEF Startable
  <2>3. CASE state' = [NodeChangeState(starting, n) EXCEPT ![n] = "running"]
    <3> DEFINE new == NodeChangeState(starting, n)
    <3>1. /\ new \in [Node -> NodeState]
          /\ Startable(new, m) => Startable(starting, m) \/ m = n
      BY <1>2, OutdatingFacts, OutdatingStarts
    <3> HIDE DEF new
    <3>2. /\ state'[n] = "running"
          /\ \A k \in Node : k # n => state'[k] = new[k]
      BY <1>2, <2>3, <3>1 DEF new
    <3>3. m # n /\ Startable(new, m)
      BY <2>1, <3>2 DEF Startable
    <3> QED
      BY <3>1, <3>3
  <2> QED
    BY <1>4, <2>2, <2>3
<1>8. \A m \in Node : m # n /\ Holds(queue, m) => Holds(queue', m)
  BY <1>1, QueueFacts DEF n
<1> QED
  BY <1>1, <1>3, <1>6, <1>7, <1>8, ForgottenMeansNext

\* What may start is in the queue, and the worker runs when there is a slot for
\* it: no order of builds, invalidations, changes and errors loses a wake-up.
THEOREM NothingForgottenCorrect == Spec => []NothingForgotten
<1>1. Init => NothingForgotten /\ Types
  <2> SUFFICES ASSUME Init PROVE NothingForgotten
    BY InitTypes
  <2>1. Roots \in SUBSET Node
    BY DEF Roots
  <2>2. /\ InOrder(Roots) \in Seq(Node)
        /\ \A n \in Roots : Holds(InOrder(Roots), n)
    BY <2>1, InOrderFacts, LenProperties DEF Holds
  <2>3. \A n \in Node : Startable(state, n) => n \in Roots
    <3> SUFFICES ASSUME NEW n \in Node, Startable(state, n), n \notin Roots PROVE FALSE
      OBVIOUS
    <3>1. PICK p \in Parents[n] : state[p] = "done"
      BY DEF Init, Startable, Roots
    <3> QED
      BY <3>1, BelowFacts DEF Init
  <2>4. NothingForgotten
    BY <2>2, <2>3, ForgottenMeans DEF Init
  <2> QED
    BY <2>4
<1>2. Types /\ NothingForgotten /\ [Next]_vars => NothingForgotten'
  <2> SUFFICES ASSUME Types, NothingForgotten, [Next]_vars PROVE NothingForgotten'
    OBVIOUS
  <2>a. UNCHANGED <<state, queue, running, worker>> /\ (errored => errored') => NothingForgotten'
    BY ForgottenMeans, ForgottenMeansNext DEF HasSlot
  <2>b. UNCHANGED graph => NothingForgotten'
    BY <2>a DEF graph
  <2>c. NodeFails(phase) \/ NodeFails(phase') => (errored => errored')
    BY DEF NodeFails
  <2>1. CASE StartNode
    BY <2>1, StartForgets
  <2>2. CASE DropNode
    <3>1. /\ queue \in Seq(Node) /\ queue # <<>> /\ queue' = Tail(queue)
          /\ ~Startable(state, Head(queue)) /\ worker' # "off"
          /\ UNCHANGED <<state, running, errored, worker>>
      BY <2>2 DEF DropNode, WorkerGoesOn, Types, GraphTypes, MayStart, Startable
    <3>2. \A m \in Node : Startable(state, m) => Holds(Tail(queue), m) \/ errored
      BY <3>1, QueueFacts, ForgottenMeans
    <3> QED
      BY <3>1, <3>2, ForgottenMeansNext
  <2>3. CASE EndLoop
    BY <2>3, ForgottenMeans, ForgottenMeansNext DEF EndLoop, WorkerGoesOn, HasSlot
  <2>4. CASE Work
    BY <2>4, ForgottenMeans, ForgottenMeansNext DEF Work, HasSlot
  <2>5. CASE FirstTick
    BY <2>5, <2>b DEF FirstTick
  <2>6. ASSUME NEW n \in Node, Begin(n) \/ Emit(n) \/ WatchTick(n)
        PROVE  NothingForgotten'
    BY <2>6, <2>b DEF Begin, Emit, WatchTick
  <2>7. ASSUME NEW n \in Node, DoneClosed(n) \/ DoneAgain(n) \/ DoneOk(n)
        PROVE  NothingForgotten'
    BY <2>7, <2>b DEF DoneClosed, DoneAgain, DoneOk
  <2>8. ASSUME NEW n \in Node, DoneFailed(n)
        PROVE  NothingForgotten'
    BY <2>8, <2>a, <2>c DEF DoneFailed
  <2>9. ASSUME NEW n \in Node, DoneHook(n)
        PROVE  NothingForgotten'
    BY <2>9, NodeDoneForgets DEF DoneHook, Types
  <2>10. ASSUME NEW n \in Node, DoneHookFails(n)
         PROVE  NothingForgotten'
    BY <2>10, <2>a, <2>c DEF DoneHookFails
  <2>11. ASSUME NEW n \in Node, FileChange(n) \/ Suspend(n) \/ Resume(n)
         PROVE  NothingForgotten'
    BY <2>11, <2>b DEF FileChange, Suspend, Resume
  <2>12. ASSUME NEW n \in Node, Undelayed(n)
         PROVE  NothingForgotten'
    <3>1. /\ state \in [Node -> NodeState] /\ state' = NodeInvalid(state, n)
          /\ UNCHANGED <<queue, running, worker, errored>>
      BY <2>12 DEF Undelayed, Types, GraphTypes
    <3>2. \A m \in Node : Startable(state', m) => Startable(state, m) \/ (m = n /\ state[n] = "blocked" /\ Startable(state', n))
      <4> SUFFICES ASSUME NEW m \in Node, Startable(state', m), ~Startable(state, m)
                   PROVE  m = n /\ state[n] = "blocked"
        OBVIOUS
      <4>1. m = n /\ state'[n] = "blocked"
        BY <3>1, OutdatingStarts
      <4> QED
        BY <3>1, <4>1 DEF NodeInvalid, OutdatedBy
    <3>3. Startable(state', n) /\ state[n] = "blocked" => Startable(state, n)
      BY <3>1, OutdatingFacts, BelowFacts DEF Startable, NodeInvalid, OutdatedBy
    <3> QED
      BY <3>1, <3>2, <3>3, ForgottenMeans, ForgottenMeansNext DEF HasSlot
  <2>13. ASSUME NEW n \in Node, Aggregated(n) \/ ClientInvalidate(n)
         PROVE  NothingForgotten'
    BY <2>13, NodeChangeForgets DEF Aggregated, OnChange, ClientInvalidate, Types
  <2>14. CASE Close
    BY <2>14, <2>b DEF Close
  <2>15. CASE UNCHANGED vars
    BY <2>15, <2>b DEF vars
  <2> QED
    BY <2>1, <2>2, <2>3, <2>4, <2>5, <2>6, <2>7, <2>8, <2>9, <2>10, <2>11, <2>12, <2>13, <2>14, <2>15
       DEF Next, System, Environment, Done, Fail
<1> QED
  BY <1>1, <1>2, TypesStep, PTL DEF Spec


(***************************************************************************)
(* Slots are counted exactly.                                              *)
(***************************************************************************)

\* As long as nothing has been suspended or removed, a compiler builds, or waits
\* for its done hook, in a slot and once only; a watcher that has reported a
\* change belongs to a compiler that is not, or no longer, running.
SlotInv ==
    /\ \A n \in Node : state[n] # "starting"
    /\ \A n \in Node : closed[n] # "open" => watcher[n] = "off"
    /\ Undisturbed =>
         /\ \A n \in Node : ~suspended[n]
         /\ running = Cardinality(Occupied)
         /\ running <= Parallelism
         /\ \A n \in Node : phase[n] # "none" \/ finishing[n] > 0 => n \in Occupied
         /\ \A n \in Node : finishing[n] <= 1 /\ (phase[n] # "none" => finishing[n] = 0)
         /\ \A n \in Node : watcher[n] = "reported" => state[n] # "running"

LEMMA OccupiedFacts ==
  /\ IsFiniteSet(Occupied) /\ Cardinality(Occupied) \in Nat
  /\ \A n \in Node : n \in Occupied <=> state[n] \in Slots
  /\ \A n \in Node : n \in Occupied' <=> state'[n] \in Slots
BY NodesFinite DEF Occupied, Slots

LEMMA SlotInvIsExact ==
  ASSUME Types, SlotInv
  PROVE  SlotsExact
<1>1. Undisturbed => running \in 0 .. Parallelism
  BY OccupiedFacts, MultiAssumption DEF SlotInv
<1>2. TypeOK
  BY <1>1 DEF TypeOK, Types, GraphTypes, FlagTypes, BuildTypes, WatcherTypes, RestTypes, BudgetTypes
<1>3. RunningExactUndisturbed
  BY DEF SlotInv, RunningExactUndisturbed, RunningExact
<1>4. BoundKept
  <2> SUFFICES ASSUME Undisturbed
               PROVE  Cardinality({n \in Node : phase[n] # "none"}) <= Parallelism
    BY DEF BoundKept
  <2> DEFINE building == {n \in Node : phase[n] # "none"}
  <2>1. building \in SUBSET Occupied
    BY DEF SlotInv
  <2>2. Cardinality(building) <= Cardinality(Occupied) /\ Cardinality(building) \in Nat
    BY <2>1, OccupiedFacts, NodesFinite, FS_Subset, FS_CardinalityType
  <2> QED
    BY <2>2, OccupiedFacts, MultiAssumption DEF SlotInv
<1> QED
  BY <1>2, <1>3, <1>4 DEF SlotsExact

\* A step that starts no build and ends no slot.
LEMMA QuietSlots ==
  ASSUME Types, SlotInv, Types',
         Undisturbed' => Undisturbed /\ UNCHANGED suspended,
         \A n \in Node : state'[n] \in Slots <=> state[n] \in Slots,
         \A n \in Node : state'[n] \in {"starting", "running"} => state'[n] = state[n],
         running' = running,
         Undisturbed' => \A n \in Node : phase'[n] # "none" => phase[n] # "none",
         \A n \in Node : finishing'[n] <= finishing[n],
         \A n \in Node : closed'[n] # "open" => watcher'[n] = "off",
         \A n \in Node : watcher'[n] = "reported" => watcher[n] = "reported" \/ state'[n] # "running"
  PROVE  SlotInv'
<1>1. Occupied' = Occupied
  BY DEF Occupied, Slots
<1>2. \A n \in Node : finishing'[n] \in Nat /\ finishing[n] \in Nat
  BY DEF Types, RestTypes
<1>3. \A n \in Node : state'[n] # "starting"
  BY DEF SlotInv
<1> SUFFICES ASSUME Undisturbed'
             PROVE  /\ \A n \in Node : ~suspended'[n]
                    /\ running' = Cardinality(Occupied')
                    /\ running' <= Parallelism
                    /\ \A n \in Node : phase'[n] # "none" \/ finishing'[n] > 0 => n \in Occupied'
                    /\ \A n \in Node : finishing'[n] <= 1 /\ (phase'[n] # "none" => finishing'[n] = 0)
                    /\ \A n \in Node : watcher'[n] = "reported" => state'[n] # "running"
  BY <1>3 DEF SlotInv
<1>4. (\A n \in Node : ~suspended'[n]) /\ running' = Cardinality(Occupied') /\ running' <= Parallelism
  BY <1>1 DEF SlotInv
<1>5. \A n \in Node : phase'[n] # "none" \/ finishing'[n] > 0 => n \in Occupied'
  BY <1>1, <1>2 DEF SlotInv
<1>6. \A n \in Node : finishing'[n] <= 1 /\ (phase'[n] # "none" => finishing'[n] = 0)
  BY <1>2 DEF SlotInv
<1>7. \A n \in Node : watcher'[n] = "reported" => state'[n] # "running"
  BY DEF SlotInv
<1> QED
  BY <1>4, <1>5, <1>6, <1>7

\* A step that leaves states, slots and builds alone.
LEMMA StillSlots ==
  ASSUME Types, SlotInv, Types', UNCHANGED <<state, running, phase, finishing>>,
         Undisturbed' => Undisturbed /\ UNCHANGED suspended,
         \A n \in Node : closed'[n] # "open" => watcher'[n] = "off",
         \A n \in Node : watcher'[n] = "reported" => watcher[n] = "reported"
  PROVE  SlotInv'
BY QuietSlots DEF Types, RestTypes

\* An event disturbs the slots only if it is of one of two kinds.
LEMMA EventDisturbs ==
  ASSUME BudgetTypes, NEW kind, Happens(kind)
  PROVE  Undisturbed' => Undisturbed /\ kind \notin {"suspend", "removal"}
<1>1. budget'.seen = budget.seen \cup {kind}
  BY DEF Happens, BudgetTypes
<1> QED
  BY <1>1 DEF Undisturbed

LEMMA StartSlots ==
  ASSUME Types, SlotInv, Types', StartNode
  PROVE  SlotInv'
<1> DEFINE n == Head(queue)
           starting == [state EXCEPT ![n] = "starting"]
           new == NodeChangeState(starting, n)
<1>1. /\ state \in [Node -> NodeState] /\ phase \in [Node -> {"none", "begin", "compile", "emit"}]
      /\ watcher \in [Node -> {"off", "live", "reported"}]
      /\ running' = running + 1 /\ running \in Int /\ running < Parallelism
      /\ UNCHANGED <<closed, suspended, finishing, budget>>
  BY DEF StartNode, WorkerGoesOn, HasSlot, Types, GraphTypes, BuildTypes, WatcherTypes, flags
<1>2. n \in Node /\ state[n] \in {"queued", "blocked"} /\ n \notin Occupied
  <2>1. n \in Node
    BY HeadTailProperties DEF StartNode, WorkerGoesOn, Types, GraphTypes
  <2> QED
    BY <2>1 DEF StartNode, MayStart, Occupied
<1>3. /\ starting \in [Node -> NodeState] /\ starting[n] = "starting"
      /\ \A m \in Node : m # n => starting[m] = state[m]
  BY <1>1, <1>2 DEF NodeState
<1>4. /\ watchMode => RunWatching(n, starting)
      /\ ~watchMode => state' = [starting EXCEPT ![n] = "running"] /\ Go(n)
      /\ PauseIfBegun(n)
  BY DEF StartNode
<1> HIDE DEF n, starting
<1>5. /\ new \in [Node -> NodeState] /\ new[n] = "starting"
      /\ \A m \in Node : (new[m] \in Slots <=> starting[m] \in Slots) /\ (new[m] = "starting" <=> starting[m] = "starting")
      /\ \A m \in Node : new[m] \in {"running", "done", "queued"} => new[m] = starting[m]
  BY <1>2, <1>3, OutdatingFacts
<1>6. /\ state'[n] = "running"
      /\ \A m \in Node : m # n =>
            /\ state'[m] \in Slots <=> state[m] \in Slots
            /\ state'[m] = "starting" <=> state[m] = "starting"
            /\ state'[m] = "running" => state[m] = "running"
  <2> HIDE DEF new
  <2>1. \/ state' = [starting EXCEPT ![n] = "running"]
        \/ state' = [new EXCEPT ![n] = "running"]
    BY <1>4 DEF RunWatching, new
  <2>2. CASE state' = [starting EXCEPT ![n] = "running"]
    BY <1>2, <1>3, <2>2
  <2>3. CASE state' = [new EXCEPT ![n] = "running"]
    BY <1>2, <1>3, <1>5, <2>3
  <2> QED
    BY <2>1, <2>2, <2>3
<1>7. \A m \in Node : m # n => phase'[m] = phase[m] /\ watcher'[m] = watcher[m]
  BY <1>1, <1>2, <1>4 DEF RunWatching, Invalidate, InvalidateNow, Go, Stay, PauseIfBegun
<1>8. watcher'[n] \in {"off", watcher[n]}
  BY <1>1, <1>2, <1>4 DEF PauseIfBegun
<1>9. Undisturbed => watcher'[n] = "off"
  <2>a. closed[n] = "closed" => watcher'[n] = "off"
    BY <1>2, <1>8 DEF SlotInv
  <2> SUFFICES ASSUME Undisturbed, closed[n] # "closed"
               PROVE  watcher'[n] = "off"
    BY <2>a
  <2>1. phase[n] = "none" /\ ~suspended[n]
    BY <1>2 DEF SlotInv
  <2>2. Go(n)
    BY <1>4, <1>5, <2>1 DEF RunWatching, Invalidate, InvalidateNow, IsBlocked
  <2>3. phase'[n] = "begin"
    BY <1>1, <1>2, <2>2 DEF Go
  <2> QED
    BY <1>1, <1>2, <1>4, <2>1, <2>3 DEF PauseIfBegun
<1>10. /\ Occupied' = Occupied \cup {n}
       /\ Cardinality(Occupied') = Cardinality(Occupied) + 1
  <2>1. Occupied' = Occupied \cup {n}
    BY <1>2, <1>6 DEF Occupied, Slots
  <2> QED
    BY <1>2, <2>1, OccupiedFacts, FS_AddElement
<1>11. \A m \in Node : state'[m] # "starting"
  BY <1>6 DEF SlotInv
<1>12. \A m \in Node : closed'[m] # "open" => watcher'[m] = "off"
  BY <1>1, <1>7, <1>8 DEF SlotInv
<1>13. ASSUME Undisturbed'
       PROVE  /\ \A m \in Node : ~suspended'[m]
              /\ running' = Cardinality(Occupied') /\ running' <= Parallelism
              /\ \A m \in Node : phase'[m] # "none" \/ finishing'[m] > 0 => m \in Occupied'
              /\ \A m \in Node : finishing'[m] <= 1 /\ (phase'[m] # "none" => finishing'[m] = 0)
              /\ \A m \in Node : watcher'[m] = "reported" => state'[m] # "running"
  <2>1. Undisturbed
    BY <1>1, <1>13 DEF Undisturbed
  <2>2. finishing[n] = 0
    BY <1>2, <2>1 DEF SlotInv, Types, RestTypes
  <2>3. running' = Cardinality(Occupied') /\ running' <= Parallelism
    BY <1>1, <1>10, <2>1, OccupiedFacts, MultiAssumption DEF SlotInv
  <2>4. \A m \in Node : phase'[m] # "none" \/ finishing'[m] > 0 => m \in Occupied'
    BY <1>1, <1>7, <1>10, <2>1 DEF SlotInv
  <2>5. \A m \in Node : finishing'[m] <= 1 /\ (phase'[m] # "none" => finishing'[m] = 0)
    BY <1>1, <1>7, <2>1, <2>2 DEF SlotInv
  <2>6. \A m \in Node : watcher'[m] = "reported" => state'[m] # "running"
    BY <1>6, <1>7, <1>9, <2>1 DEF SlotInv
  <2> QED
    BY <1>1, <2>1, <2>3, <2>4, <2>5, <2>6 DEF SlotInv
<1> QED
  BY <1>11, <1>12, <1>13 DEF SlotInv

\* The end of a build: the done hook is called.
LEMMA DoneOkSlots ==
  ASSUME Types, SlotInv, Types', NEW n \in Node, DoneOk(n), phase[n] # "none", UNCHANGED budget
  PROVE  SlotInv'
<1>1. /\ UNCHANGED <<state, running, closed, suspended, watcher>>
      /\ phase'[n] = "none" /\ finishing'[n] = finishing[n] + 1
      /\ \A m \in Node : m # n => phase'[m] = phase[m] /\ finishing'[m] = finishing[m]
      /\ Undisturbed' = Undisturbed
  BY DEF DoneOk, Types, BuildTypes, RestTypes, graph, flags, Undisturbed
<1>2. Occupied' = Occupied
  BY <1>1 DEF Occupied
<1>3. ASSUME Undisturbed
      PROVE  /\ \A m \in Node : phase'[m] # "none" \/ finishing'[m] > 0 => m \in Occupied'
             /\ \A m \in Node : finishing'[m] <= 1 /\ (phase'[m] # "none" => finishing'[m] = 0)
  BY <1>1, <1>2, <1>3 DEF SlotInv
<1> QED
  BY <1>1, <1>2, <1>3 DEF SlotInv

\* The done hook has answered: the slot is free, once.
LEMMA DoneHookSlots ==
  ASSUME Types, SlotInv, Types', NEW n \in Node, DoneHook(n)
  PROVE  SlotInv'
<1>1. /\ UNCHANGED <<closed, suspended, watcher, phase>>
      /\ finishing[n] > 0 /\ finishing'[n] = finishing[n] - 1
      /\ \A m \in Node : m # n => finishing'[m] = finishing[m]
      /\ NodeDone(n)
      /\ Undisturbed' = Undisturbed
      /\ \A m \in Node : finishing[m] \in Nat /\ finishing'[m] \in Nat
  BY DEF DoneHook, Types, RestTypes, flags, watching, Undisturbed
<1>2. CASE errored
  <2>1. UNCHANGED <<state, running>>
    BY <1>1, <1>2 DEF NodeDone, graph
  <2>2. \A m \in Node : finishing'[m] <= finishing[m]
    BY <1>1
  <2>3. \A m \in Node : closed'[m] # "open" => watcher'[m] = "off"
    BY <1>1 DEF SlotInv
  <2> QED
    BY <1>1, <2>1, <2>2, <2>3, QuietSlots
<1>3. CASE ~errored
  <2>1. running' = running - 1
    BY <1>1, <1>3 DEF NodeDone, Release
  <2>2. \A m \in Node : m # n => state'[m] = state[m]
    BY <1>1, <1>3 DEF NodeDone, Types, GraphTypes
  <2>3. state'[n] # "running" /\ state'[n] # "starting"
    BY <1>1, <1>3 DEF NodeDone, Types, GraphTypes, SlotInv
  <2>4. state[n] \in {"running", "running-outdated"} => state'[n] \notin Slots
    BY <1>1, <1>3 DEF NodeDone, Types, GraphTypes, Slots
  <2>5. ASSUME Undisturbed
        PROVE  /\ \A m \in Node : ~suspended'[m]
               /\ running' = Cardinality(Occupied') /\ running' <= Parallelism
               /\ \A m \in Node : phase'[m] # "none" \/ finishing'[m] > 0 => m \in Occupied'
               /\ \A m \in Node : finishing'[m] <= 1 /\ (phase'[m] # "none" => finishing'[m] = 0)
               /\ \A m \in Node : watcher'[m] = "reported" => state'[m] # "running"
    <3>1. n \in Occupied /\ finishing[n] = 1 /\ phase[n] = "none"
      BY <1>1, <2>5 DEF SlotInv
    <3>2. state[n] \in {"running", "running-outdated"}
      BY <3>1 DEF Occupied, SlotInv
    <3>3. Occupied' = Occupied \ {n}
      BY <2>2, <2>4, <3>2 DEF Occupied, Slots
    <3>4. Cardinality(Occupied') = Cardinality(Occupied) - 1
      BY <3>1, <3>3, OccupiedFacts, FS_RemoveElement
    <3>5. running' = Cardinality(Occupied') /\ running' <= Parallelism
      BY <2>1, <2>5, <3>4, OccupiedFacts, MultiAssumption DEF SlotInv
    <3>6. \A m \in Node : phase'[m] # "none" \/ finishing'[m] > 0 => m \in Occupied'
      BY <1>1, <2>5, <3>1, <3>3 DEF SlotInv
    <3>7. \A m \in Node : finishing'[m] <= 1 /\ (phase'[m] # "none" => finishing'[m] = 0)
      BY <1>1, <2>5, <3>1 DEF SlotInv
    <3>8. \A m \in Node : watcher'[m] = "reported" => state'[m] # "running"
      BY <1>1, <2>2, <2>3, <2>5 DEF SlotInv
    <3> QED
      BY <1>1, <2>5, <3>5, <3>6, <3>7, <3>8 DEF SlotInv
  <2>6. (\A m \in Node : state'[m] # "starting") /\ (\A m \in Node : closed'[m] # "open" => watcher'[m] = "off")
    BY <1>1, <2>2, <2>3 DEF SlotInv
  <2> QED
    BY <1>1, <2>5, <2>6 DEF SlotInv
<1> QED
  BY <1>2, <1>3

\* An error closes the watchings, or leaves them as they are.
LEMMA FailedWatchers ==
  ASSUME Types, SlotInv, Types', NEW ph, NodeFails(ph) \/ CloseAll(ph)
  PROVE  /\ \A n \in Node : closed'[n] # "open" => watcher'[n] = "off"
         /\ \A n \in Node : watcher'[n] = "reported" => watcher[n] = "reported"
<1>1. CASE CloseAll(ph)
  BY <1>1 DEF CloseAll
<1>2. CASE UNCHANGED <<closed, watcher>>
  BY <1>2 DEF SlotInv
<1> QED
  BY <1>1, <1>2 DEF NodeFails

\* A watcher is only switched off by a pause.
LEMMA PausedWatchers ==
  ASSUME Types, SlotInv, NEW n \in Node, PauseIfBegun(n) \/ watcher' = [watcher EXCEPT ![n] = "off"],
         UNCHANGED closed
  PROVE  /\ \A m \in Node : closed'[m] # "open" => watcher'[m] = "off"
         /\ \A m \in Node : watcher'[m] = "reported" => watcher[m] = "reported"
BY DEF PauseIfBegun, SlotInv, Types, WatcherTypes

\* A change or an invalidation that begins no build.
LEMMA OutdatingSlots ==
  ASSUME Types, SlotInv, Types', NEW n \in Node,
         state' = NodeInvalid(state, n) \/ state' = NodeChangeState(state, n),
         Undisturbed' => Undisturbed /\ UNCHANGED suspended,
         UNCHANGED <<running, finishing>>,
         Undisturbed' => \A m \in Node : phase'[m] # "none" => phase[m] # "none",
         \A m \in Node : closed'[m] # "open" => watcher'[m] = "off",
         \A m \in Node : watcher'[m] = "reported" => watcher[m] = "reported" \/ state'[m] # "running"
  PROVE  SlotInv'
<1>1. state \in [Node -> NodeState]
  BY DEF Types, GraphTypes
<1>2. /\ \A m \in Node : state'[m] \in Slots <=> state[m] \in Slots
      /\ \A m \in Node : state'[m] \in {"starting", "running"} => state'[m] = state[m]
  BY <1>1, OutdatingFacts DEF Slots
<1>3. \A m \in Node : finishing'[m] <= finishing[m]
  BY DEF Types, RestTypes
<1> QED
  BY <1>2, <1>3, QuietSlots

\* _invalidate of a compiler that has no slot, or that is suspended, begins no
\* build.
LEMMA BlockedBeginsNothing ==
  ASSUME NEW n \in Node, NEW st, Invalidate(n, st), suspended[n] \/ IsBlocked(st, n)
  PROVE  UNCHANGED <<phase, stale>>
BY DEF Invalidate, InvalidateNow, Stay

LEMMA SlotStep ==
  ASSUME Types, SlotInv, Types', [Next]_vars
  PROVE  SlotInv'
<1>a. UNCHANGED budget => (Undisturbed' <=> Undisturbed)
  BY DEF Undisturbed
<1>b. ASSUME Happens("failure") \/ Happens("invalidate") \/ Happens("close")
      PROVE  Undisturbed' => Undisturbed
  BY <1>b, EventDisturbs DEF Types
<1>c. UNCHANGED <<closed, watcher>> =>
        /\ \A n \in Node : closed'[n] # "open" => watcher'[n] = "off"
        /\ \A n \in Node : watcher'[n] = "reported" => watcher[n] = "reported"
  BY DEF SlotInv
<1>d. \A n \in Node : finishing[n] \in Nat /\ finishing'[n] \in Nat
  BY DEF Types, RestTypes
<1>1. CASE StartNode
  BY <1>1, StartSlots
<1>2. CASE DropNode \/ EndLoop \/ Work \/ FirstTick \/ UNCHANGED vars
  <2>1. UNCHANGED <<state, running, phase, finishing, budget, suspended, closed, watcher>>
    BY <1>2 DEF DropNode, EndLoop, Work, FirstTick, vars, graph, flags, watching
  <2> QED
    BY <2>1, <1>a, <1>c, StillSlots
<1>3. ASSUME NEW n \in Node, Begin(n) \/ Emit(n)
      PROVE  SlotInv'
  <2>1. UNCHANGED <<state, running, finishing, budget, suspended, closed, watcher>>
    BY <1>3 DEF Begin, Emit, graph, flags
  <2>2. \A m \in Node : phase'[m] # "none" => phase[m] # "none"
    BY <1>3 DEF Begin, Emit, Types, BuildTypes
  <2> QED
    BY <2>1, <2>2, <1>a, <1>c, <1>d, QuietSlots
<1>4. ASSUME NEW n \in Node, WatchTick(n)
      PROVE  SlotInv'
  <2>1. /\ UNCHANGED <<state, running, phase, finishing, budget, suspended, closed>>
        /\ watcher' = IF closed[n] = "open" THEN [watcher EXCEPT ![n] = "live"] ELSE watcher
        /\ watcher \in [Node -> {"off", "live", "reported"}]
    BY <1>4 DEF WatchTick, graph, flags, Types, WatcherTypes
  <2>2. \A m \in Node : closed'[m] # "open" => watcher'[m] = "off"
    BY <2>1 DEF SlotInv
  <2>3. \A m \in Node : watcher'[m] = "reported" => watcher[m] = "reported"
    BY <2>1
  <2> QED
    BY <2>1, <2>2, <2>3, <1>a, StillSlots
<1>5. ASSUME NEW n \in Node, FileChange(n)
      PROVE  SlotInv'
  <2>1. UNCHANGED <<state, running, phase, finishing, suspended, closed, watcher>>
    BY <1>5 DEF FileChange, graph, flags
  <2>2. Undisturbed' => Undisturbed
    BY <1>5 DEF FileChange, Undisturbed, Types, BudgetTypes
  <2> QED
    BY <2>1, <2>2, <1>c, StillSlots
<1>6. ASSUME NEW n \in Node, DoneClosed(n), Undisturbed' => Undisturbed
      PROVE  SlotInv'
  <2>1. /\ UNCHANGED <<state, running, finishing, suspended, watcher>>
        /\ closed' = [closed EXCEPT ![n] = "closed"] /\ closed[n] = "closing"
        /\ phase' = [phase EXCEPT ![n] = "none"]
    BY <1>6 DEF DoneClosed, graph
  <2>2. \A m \in Node : phase'[m] # "none" => phase[m] # "none"
    BY <2>1 DEF Types, BuildTypes
  <2>3. \A m \in Node : closed'[m] # "open" => watcher'[m] = "off"
    BY <2>1 DEF SlotInv, Types, FlagTypes
  <2> QED
    BY <2>1, <2>2, <2>3, <1>6, <1>d, QuietSlots
<1>7. ASSUME NEW n \in Node, DoneAgain(n), phase[n] # "none", Undisturbed' => Undisturbed
      PROVE  SlotInv'
  <2>1. /\ UNCHANGED <<state, running, finishing, suspended, closed>>
        /\ PauseIfBegun(n)
        /\ phase' = [phase EXCEPT ![n] = "begin"]
    BY <1>7 DEF DoneAgain, Go, graph, flags
  <2>2. \A m \in Node : phase'[m] # "none" => phase[m] # "none"
    BY <2>1, <1>7 DEF Types, BuildTypes
  <2>3. /\ \A m \in Node : closed'[m] # "open" => watcher'[m] = "off"
        /\ \A m \in Node : watcher'[m] = "reported" => watcher[m] = "reported"
    BY <2>1, PausedWatchers
  <2> QED
    BY <2>1, <2>2, <2>3, <1>7, <1>d, QuietSlots
<1>8. ASSUME NEW n \in Node, DoneFailed(n), Undisturbed' => Undisturbed
      PROVE  SlotInv'
  <2>1. /\ UNCHANGED <<state, running, finishing, suspended>>
        /\ phase' = [phase EXCEPT ![n] = "none"]
        /\ NodeFails(phase')
    BY <1>8 DEF DoneFailed
  <2>2. \A m \in Node : phase'[m] # "none" => phase[m] # "none"
    BY <2>1 DEF Types, BuildTypes
  <2>3. /\ \A m \in Node : closed'[m] # "open" => watcher'[m] = "off"
        /\ \A m \in Node : watcher'[m] = "reported" => watcher[m] = "reported"
    BY <2>1, FailedWatchers
  <2> QED
    BY <2>1, <2>2, <2>3, <1>8, <1>d, QuietSlots
<1>9. ASSUME NEW n \in Node, DoneHookFails(n)
      PROVE  SlotInv'
  <2>1. /\ UNCHANGED <<state, running, suspended, phase>>
        /\ finishing' = [finishing EXCEPT ![n] = @ - 1]
        /\ NodeFails(phase) /\ Happens("failure")
    BY <1>9 DEF DoneHookFails
  <2>2. \A m \in Node : finishing'[m] <= finishing[m]
    BY <2>1 DEF Types, RestTypes
  <2>3. /\ \A m \in Node : closed'[m] # "open" => watcher'[m] = "off"
        /\ \A m \in Node : watcher'[m] = "reported" => watcher[m] = "reported"
    BY <2>1, FailedWatchers
  <2> QED
    BY <2>1, <2>2, <2>3, <1>b, QuietSlots
<1>10. ASSUME NEW n \in Node, DoneHook(n)
       PROVE  SlotInv'
  BY <1>10, DoneHookSlots
<1>11. ASSUME NEW n \in Node, Undelayed(n)
       PROVE  SlotInv'
  <2>1. /\ UNCHANGED <<running, phase, finishing, suspended, closed, budget>>
        /\ state' = NodeInvalid(state, n)
        /\ watcher[n] = "live" /\ watcher' = [watcher EXCEPT ![n] = "reported"]
        /\ watcher \in [Node -> {"off", "live", "reported"}]
        /\ state \in [Node -> NodeState]
    BY <1>11 DEF Undelayed, flags, Types, WatcherTypes, GraphTypes
  <2>2. \A m \in Node : closed'[m] # "open" => watcher'[m] = "off"
    BY <2>1 DEF SlotInv
  <2>3. \A m \in Node : watcher'[m] = "reported" => watcher[m] = "reported" \/ state'[m] # "running"
    BY <2>1, OutdatingFacts
  <2> QED
    BY <2>1, <2>2, <2>3, <1>a, OutdatingSlots
<1>12. ASSUME NEW n \in Node, Aggregated(n)
       PROVE  SlotInv'
  <2>1. /\ UNCHANGED <<running, finishing, suspended, closed>>
        /\ state' = NodeChangeState(state, n)
        /\ Invalidate(n, state)
        /\ watcher' = [watcher EXCEPT ![n] = "off"]
        /\ (watcher[n] = "reported" /\ UNCHANGED budget) \/ Happens("removal")
    BY <1>12 DEF Aggregated, OnChange, NodeChange, flags
  <2>2. ASSUME Undisturbed' PROVE Undisturbed /\ UNCHANGED phase
    <3>1. Undisturbed /\ watcher[n] = "reported"
      BY <2>1, <2>2, <1>a, EventDisturbs DEF Types
    <3>2. state[n] # "running" /\ state[n] # "starting"
      BY <3>1 DEF SlotInv
    <3> QED
      BY <2>1, <3>1, <3>2, BlockedBeginsNothing DEF IsBlocked
  <2>3. /\ \A m \in Node : closed'[m] # "open" => watcher'[m] = "off"
        /\ \A m \in Node : watcher'[m] = "reported" => watcher[m] = "reported"
    BY <2>1, PausedWatchers
  <2> QED
    BY <2>1, <2>2, <2>3, OutdatingSlots
<1>13. ASSUME NEW n \in Node, ClientInvalidate(n)
       PROVE  SlotInv'
  <2>1. /\ UNCHANGED <<running, finishing, suspended, closed>>
        /\ state' = NodeChangeState(state, n)
        /\ Invalidate(n, state')
        /\ PauseIfBegun(n) /\ Happens("invalidate")
    BY <1>13 DEF ClientInvalidate, NodeChange, flags
  <2>2. state'[n] # "running" /\ state'[n] # "starting"
    <3>1. state \in [Node -> NodeState]
      BY DEF Types, GraphTypes
    <3>2. state[n] # "starting"
      BY DEF SlotInv
    <3> QED
      BY <2>1, <3>1, <3>2, OutdatingFacts
  <2>3. UNCHANGED phase
    BY <2>1, <2>2, BlockedBeginsNothing DEF IsBlocked
  <2>4. /\ \A m \in Node : closed'[m] # "open" => watcher'[m] = "off"
        /\ \A m \in Node : watcher'[m] = "reported" => watcher[m] = "reported"
    BY <2>1, PausedWatchers
  <2> QED
    BY <2>1, <2>3, <2>4, <1>b, OutdatingSlots
<1>14. ASSUME NEW n \in Node, Suspend(n)
       PROVE  SlotInv'
  <2>1. UNCHANGED <<state, running, phase, finishing, closed, watcher>>
    BY <1>14 DEF Suspend, graph, watching
  <2>2. ~Undisturbed'
    BY <1>14, EventDisturbs DEF Suspend, Types
  <2> QED
    BY <2>1, <2>2, <1>c, StillSlots
<1>15. ASSUME NEW n \in Node, Resume(n)
       PROVE  SlotInv'
  <2>1. /\ UNCHANGED <<state, running, finishing, closed, budget>>
        /\ PauseIfBegun(n) /\ suspended[n]
    BY <1>15 DEF Resume, graph
  <2>2. ~Undisturbed /\ ~Undisturbed'
    BY <2>1, <1>a DEF SlotInv
  <2>3. /\ \A m \in Node : closed'[m] # "open" => watcher'[m] = "off"
        /\ \A m \in Node : watcher'[m] = "reported" => watcher[m] = "reported"
    BY <2>1, PausedWatchers
  <2> QED
    BY <2>1, <2>2, <2>3, <1>d, QuietSlots
<1>16. CASE Close
  <2>1. UNCHANGED <<state, running, phase, finishing, suspended>> /\ CloseAll(phase) /\ Happens("close")
    BY <1>16 DEF Close, graph
  <2>2. /\ \A m \in Node : closed'[m] # "open" => watcher'[m] = "off"
        /\ \A m \in Node : watcher'[m] = "reported" => watcher[m] = "reported"
    BY <2>1, FailedWatchers
  <2> QED
    BY <2>1, <2>2, <1>b, StillSlots
<1>17. ASSUME NEW n \in Node, Done(n)
       PROVE  SlotInv'
  BY <1>17, <1>a, <1>6, <1>7, DoneOkSlots DEF Done
<1>18. ASSUME NEW n \in Node, Fail(n)
       PROVE  SlotInv'
  BY <1>18, <1>b, <1>6, <1>7, <1>8 DEF Fail
<1> QED
  BY <1>1, <1>2, <1>3, <1>4, <1>5, <1>9, <1>10, <1>11, <1>12, <1>13, <1>14, <1>15, <1>16, <1>17, <1>18
     DEF Next, System, Environment

LEMMA InitSlots == Init => SlotInv
<1> SUFFICES ASSUME Init PROVE SlotInv
  OBVIOUS
<1>1. \A n \in Node : state[n] # "starting" /\ n \notin Occupied
  BY DEF Init, Occupied
<1>2. Occupied = {}
  BY <1>1 DEF Occupied
<1>3. /\ running = 0 /\ Parallelism \in Nat
      /\ \A n \in Node : /\ phase[n] = "none" /\ finishing[n] = 0 /\ ~suspended[n]
                         /\ watcher[n] = "off"
  BY MultiAssumption DEF Init
<1> QED
  BY <1>1, <1>2, <1>3, FS_EmptySet DEF SlotInv

\* Slots are counted exactly and never more builds run at once than
\* `parallelism` says, until a watching is suspended or a file removed.
THEOREM SlotsExactCorrect == Spec => []SlotsExact
<1>1. Init => SlotInv
  BY InitSlots
<1>2. Types /\ SlotInv => SlotsExact
  BY SlotInvIsExact
<1>3. Types /\ Types' /\ SlotInv /\ [Next]_vars => SlotInv'
  BY SlotStep
<1> QED
  BY <1>1, <1>2, <1>3, InitTypes, TypesStep, PTL DEF Spec

(***************************************************************************)
(* What is done has seen the last builds of its ancestors.                 *)
(***************************************************************************)

\* A compiler waits for its parents: what runs in order, or is done, has only
\* parents that are done.
Ordered(st) ==
    /\ \A n \in Node : st[n] = "queued" => Parents[n] = {}
    /\ \A n \in Node : st[n] \in {"running", "done"} => \A p \in Parents[n] : st[p] = "done"

\* What is stale is neither done nor on its way to be done.
Fresh ==
    Undisturbed =>
      \A n \in stale :
        state[n] # "done" /\ ~(state[n] = "running" /\ (phase[n] # "none" \/ finishing[n] > 0))

CurrentInv == Ordered(state) /\ Fresh

LEMMA DescendantsWait ==
  ASSUME NEW st, Ordered(st), NEW n \in Node, st[n] # "done", NEW m \in Below[n]
  PROVE  st[m] \notin {"running", "done"}
<1> DEFINE S == {k \in Node : st[k] \notin {"running", "done"}}
<1>1. Children(n) \subseteq S
  BY DEF Children, Ordered
<1>2. \A k \in S : Children(k) \subseteq S
  BY DEF Children, Ordered
<1>3. S \subseteq Node
  OBVIOUS
<1> HIDE DEF S
<1>4. Below[n] \subseteq S
  BY <1>1, <1>2, <1>3, BelowFacts
<1> QED
  BY <1>4 DEF S

\* Invalidations and changes keep the order.
LEMMA OutdatingOrdered ==
  ASSUME NEW st \in [Node -> NodeState], Ordered(st), NEW n \in Node,
         NEW new, new = NodeInvalid(st, n) \/ new = NodeChangeState(st, n)
  PROVE  Ordered(new)
<1>1. /\ \A m \in Node : new[m] \in {"running", "done", "queued"} => new[m] = st[m]
      /\ \A m \in Below[n] \cup {n} : new[m] \notin {"running", "done"}
      /\ \A m \in Node : m # n /\ m \notin Below[n] => new[m] = st[m]
  BY OutdatingFacts
<1>2. \A m \in Node : new[m] = "queued" => Parents[m] = {}
  BY <1>1 DEF Ordered
<1>3. ASSUME NEW m \in Node, new[m] \in {"running", "done"}, NEW p \in Parents[m]
      PROVE  new[p] = "done"
  <2>1. p \in Node /\ m \in Children(p)
    BY BelowFacts
  <2>2. m # n /\ m \notin Below[n] /\ st[m] = new[m]
    BY <1>1, <1>3
  <2>3. p # n /\ p \notin Below[n]
    BY <2>1, <2>2, BelowFacts
  <2>4. st[p] = "done"
    BY <1>3, <2>2 DEF Ordered
  <2> QED
    BY <1>1, <2>1, <2>3, <2>4
<1> QED
  BY <1>2, <1>3 DEF Ordered

\* A step that marks nothing stale, ends no run and begins no build.
LEMMA QuietFresh ==
  ASSUME Types, Types', Fresh,
         Undisturbed' => /\ Undisturbed /\ stale' = stale
                         /\ \A n \in Node : phase'[n] # "none" => phase[n] # "none",
         \A n \in Node : finishing'[n] <= finishing[n],
         \A n \in Node : state'[n] \in {"running", "done"} => state'[n] = state[n]
  PROVE  Fresh'
<1>1. \A n \in Node : finishing[n] \in Nat /\ finishing'[n] \in Nat
  BY DEF Types, RestTypes
<1>2. stale \subseteq Node
  BY DEF Types, BuildTypes
<1> QED
  BY <1>1, <1>2 DEF Fresh

\* Builds that begin or end make stale what is below, and nothing below runs in
\* order then.
LEMMA StartCurrent ==
  ASSUME Types, Types', SlotInv, CurrentInv, StartNode
  PROVE  CurrentInv'
<1> DEFINE n == Head(queue)
           starting == [state EXCEPT ![n] = "starting"]
           new == NodeChangeState(starting, n)
<1>1. /\ state \in [Node -> NodeState] /\ phase \in [Node -> {"none", "begin", "compile", "emit"}]
      /\ UNCHANGED <<closed, suspended, finishing, budget>> /\ stale \subseteq Node
  BY DEF StartNode, Types, GraphTypes, BuildTypes, flags
<1>2. n \in Node /\ MayStart(n)
  BY HeadTailProperties DEF StartNode, WorkerGoesOn, Types, GraphTypes
<1>3. /\ starting \in [Node -> NodeState] /\ starting[n] = "starting"
      /\ \A m \in Node : m # n => starting[m] = state[m]
  BY <1>1, <1>2 DEF NodeState
<1>4. /\ watchMode => RunWatching(n, starting)
      /\ ~watchMode => state' = [starting EXCEPT ![n] = "running"] /\ Go(n)
  BY DEF StartNode
<1> HIDE DEF n, starting
<1>5. state[n] # "done" /\ state[n] \notin Slots
  BY <1>2 DEF MayStart, Slots
<1>6. /\ \A p \in Parents[n] : state[p] = "done" /\ p \in Node /\ p # n /\ p \notin Below[n]
  BY <1>2, <1>5, BelowFacts DEF MayStart, CurrentInv, Ordered
<1>7. Ordered(starting)
  <2>1. \A m \in Node : \A p \in Parents[m] : p \in Node
    BY BelowFacts
  <2> QED
    BY <1>3, <1>5, <2>1 DEF CurrentInv, Ordered
<1>8. /\ new \in [Node -> NodeState] /\ new[n] = "starting"
      /\ \A m \in Node : new[m] \in {"running", "done", "queued"} => new[m] = starting[m]
      /\ \A m \in Node : m # n /\ m \notin Below[n] => new[m] = starting[m]
  BY <1>2, <1>3, OutdatingFacts
<1>9. Ordered(new)
  BY <1>2, <1>3, <1>7, OutdatingOrdered
<1> HIDE DEF new
<1>10. PICK st \in {starting, new} : state' = [st EXCEPT ![n] = "running"]
  BY <1>4 DEF RunWatching, new
<1>11. /\ st \in [Node -> NodeState] /\ st[n] = "starting" /\ Ordered(st)
       /\ \A m \in Node : m # n /\ st[m] \in {"running", "done"} => st[m] = state[m]
       /\ \A p \in Parents[n] : st[p] = "done"
  BY <1>3, <1>6, <1>7, <1>8, <1>9
<1>12. /\ state'[n] = "running"
       /\ \A m \in Node : m # n => state'[m] = st[m]
  BY <1>2, <1>10, <1>11
<1>13. Ordered(state')
  <2>1. \A m \in Node : \A p \in Parents[m] : p \in Node
    BY BelowFacts
  <2> QED
    BY <1>2, <1>6, <1>11, <1>12, <2>1 DEF Ordered
<1>14. ASSUME Undisturbed', NEW m \in stale'
       PROVE  state'[m] # "done" /\ ~(state'[m] = "running" /\ (phase'[m] # "none" \/ finishing'[m] > 0))
  <2>1. Undisturbed
    BY <1>1, <1>14 DEF Undisturbed
  <2>2. phase[n] = "none" /\ ~suspended[n] /\ ~(finishing[n] > 0)
    BY <1>2, <1>5, <2>1 DEF SlotInv, Occupied, Slots
  <2>3. Stay \/ Go(n)
    BY <1>4, <1>8, <2>2 DEF RunWatching, Invalidate, InvalidateNow, IsBlocked, new
  <2>4. m \in Node
    BY <1>14 DEF Types, BuildTypes
  <2>5. CASE Stay
    BY <1>1, <1>11, <1>12, <1>14, <2>1, <2>2, <2>4, <2>5 DEF Stay, CurrentInv, Fresh
  <2>6. CASE Go(n)
    <3>1. m # n /\ (m \in stale \/ m \in Below[n]) /\ phase'[m] = phase[m]
      BY <1>1, <1>2, <1>14, <2>4, <2>6, BelowFacts DEF Go
    <3>2. m \in Below[n] => state[m] \notin {"running", "done"}
      BY <1>2, <1>5, DescendantsWait DEF CurrentInv
    <3> QED
      BY <1>1, <1>11, <1>12, <2>1, <2>4, <3>1, <3>2 DEF CurrentInv, Fresh
  <2> QED
    BY <2>3, <2>5, <2>6
<1> QED
  BY <1>13, <1>14 DEF CurrentInv, Fresh

\* A build starts over while its compiler runs in order: nothing below does.
LEMMA AgainCurrent ==
  ASSUME Types, Types', SlotInv, CurrentInv, NEW n \in Node, DoneAgain(n), phase[n] # "none",
         Undisturbed' => Undisturbed
  PROVE  CurrentInv'
<1>1. /\ UNCHANGED <<state, finishing>> /\ Go(n) /\ Rebuild(n)
      /\ phase \in [Node -> {"none", "begin", "compile", "emit"}]
  BY DEF DoneAgain, graph, Types, BuildTypes
<1>2. state[n] = "running"
  BY <1>1 DEF Rebuild, IsBlocked, SlotInv
<1>3. \A m \in Below[n] : state[m] \notin {"running", "done"}
  BY <1>2, DescendantsWait DEF CurrentInv
<1>4. /\ stale' = (stale \ {n}) \cup Below[n]
      /\ \A m \in Node : m # n => phase'[m] = phase[m]
      /\ stale \subseteq Node /\ n \notin Below[n] /\ Below[n] \subseteq Node
  BY <1>1, BelowFacts DEF Go, Types, BuildTypes
<1> QED
  BY <1>1, <1>3, <1>4 DEF CurrentInv, Ordered, Fresh

\* A build ends in a slot: its compiler is not done yet.
LEMMA DoneOkCurrent ==
  ASSUME Types, Types', SlotInv, CurrentInv, NEW n \in Node, DoneOk(n), phase[n] # "none",
         UNCHANGED budget
  PROVE  CurrentInv'
<1>1. /\ UNCHANGED state /\ stale' = stale \cup Below[n]
      /\ phase'[n] = "none" /\ finishing'[n] = finishing[n] + 1
      /\ \A m \in Node : m # n => phase'[m] = phase[m] /\ finishing'[m] = finishing[m]
      /\ stale \subseteq Node /\ n \notin Below[n] /\ Below[n] \subseteq Node
      /\ Undisturbed' = Undisturbed
  BY BelowFacts DEF DoneOk, Types, BuildTypes, RestTypes, graph, Undisturbed
<1>2. ASSUME Undisturbed
      PROVE  \A m \in Below[n] : state[m] \notin {"running", "done"}
  <2>1. state[n] # "done"
    BY <1>2 DEF SlotInv, Occupied
  <2> QED
    BY <2>1, DescendantsWait DEF CurrentInv
<1> QED
  BY <1>1, <1>2 DEF CurrentInv, Ordered, Fresh

\* The done hook of a compiler that is stale finds it outdated.
LEMMA DoneHookCurrent ==
  ASSUME Types, Types', SlotInv, CurrentInv, NEW n \in Node, DoneHook(n)
  PROVE  CurrentInv'
<1>1. /\ UNCHANGED <<phase, stale>>
      /\ finishing[n] > 0 /\ NodeDone(n) /\ Undisturbed' = Undisturbed
      /\ \A m \in Node : finishing'[m] <= finishing[m]
      /\ state \in [Node -> NodeState]
  BY DEF DoneHook, Types, RestTypes, GraphTypes, watching, Undisturbed
<1>2. CASE state' = state
  <2>1. Fresh'
    BY <1>1, <1>2, QuietFresh DEF CurrentInv
  <2> QED
    BY <1>2, <2>1 DEF CurrentInv, Ordered
<1>3. CASE state[n] = "running" /\ state' = [state EXCEPT ![n] = "done"]
  <2>1. state'[n] = "done" /\ \A m \in Node : m # n => state'[m] = state[m]
    BY <1>1, <1>3
  <2>2. \A m \in Node : \A p \in Parents[m] : p \in Node
    BY BelowFacts
  <2>3. Ordered(state')
    BY <1>3, <2>1, <2>2 DEF CurrentInv, Ordered
  <2>4. ASSUME Undisturbed', NEW m \in stale'
        PROVE  state'[m] # "done" /\ ~(state'[m] = "running" /\ (phase'[m] # "none" \/ finishing'[m] > 0))
    <3>1. m # n /\ m \in Node /\ finishing[m] \in Nat /\ finishing'[m] \in Nat
      BY <1>1, <1>3, <2>4 DEF CurrentInv, Fresh, Types, BuildTypes, RestTypes
    <3> QED
      BY <1>1, <2>1, <2>4, <3>1 DEF CurrentInv, Fresh
  <2> QED
    BY <2>3, <2>4 DEF CurrentInv, Fresh
<1>4. CASE state[n] = "running-outdated" /\ state' = [state EXCEPT ![n] = "blocked"]
  <2>1. state'[n] = "blocked" /\ \A m \in Node : m # n => state'[m] = state[m]
    BY <1>1, <1>4
  <2>2. \A m \in Node : \A p \in Parents[m] : p \in Node
    BY BelowFacts
  <2>3. Ordered(state')
    BY <1>4, <2>1, <2>2 DEF CurrentInv, Ordered
  <2>4. \A m \in Node : state'[m] \in {"running", "done"} => state'[m] = state[m]
    BY <2>1
  <2>5. Fresh'
    BY <1>1, <2>4, QuietFresh DEF CurrentInv
  <2> QED
    BY <2>3, <2>5 DEF CurrentInv
<1> QED
  BY <1>1, <1>2, <1>3, <1>4 DEF NodeDone, graph

LEMMA CurrentStep ==
  ASSUME Types, Types', SlotInv, CurrentInv, [Next]_vars
  PROVE  CurrentInv'
<1>a. UNCHANGED budget => (Undisturbed' <=> Undisturbed)
  BY DEF Undisturbed
<1>b. ASSUME Happens("failure") \/ Happens("invalidate") \/ Happens("close")
      PROVE  Undisturbed' => Undisturbed
  BY <1>b, EventDisturbs DEF Types
<1>c. \A n \in Node : finishing[n] \in Nat /\ finishing'[n] \in Nat
  BY DEF Types, RestTypes
<1>d. ASSUME Undisturbed' => Undisturbed /\ stale' = stale
                              /\ (\A n \in Node : phase'[n] # "none" => phase[n] # "none"),
             \A n \in Node : finishing'[n] <= finishing[n], state' = state
      PROVE  CurrentInv'
  <2>1. Fresh'
    BY <1>d, QuietFresh DEF CurrentInv
  <2> QED
    BY <1>d, <2>1 DEF CurrentInv, Ordered
<1>e. ASSUME Undisturbed' => Undisturbed /\ UNCHANGED <<phase, stale>>, UNCHANGED finishing,
             NEW n \in Node, state' = NodeInvalid(state, n) \/ state' = NodeChangeState(state, n)
      PROVE  CurrentInv'
  <2>1. state \in [Node -> NodeState]
    BY DEF Types, GraphTypes
  <2>2. Ordered(state')
    BY <1>e, <2>1, OutdatingOrdered DEF CurrentInv
  <2>3. \A m \in Node : state'[m] \in {"running", "done"} => state'[m] = state[m]
    BY <1>e, <2>1, OutdatingFacts
  <2>4. Fresh'
    BY <1>c, <1>e, <2>3, QuietFresh DEF CurrentInv
  <2> QED
    BY <2>2, <2>4 DEF CurrentInv
<1>1. CASE StartNode
  BY <1>1, StartCurrent
<1>2. CASE DropNode \/ EndLoop \/ Work \/ FirstTick \/ UNCHANGED vars
  <2>1. UNCHANGED <<state, phase, finishing, budget, stale>>
    BY <1>2 DEF DropNode, EndLoop, Work, FirstTick, vars, graph, watching
  <2> QED
    BY <2>1, <1>a, <1>c, <1>d
<1>3. ASSUME NEW n \in Node, Begin(n) \/ Emit(n)
      PROVE  CurrentInv'
  <2>1. UNCHANGED <<state, finishing, budget, stale>>
    BY <1>3 DEF Begin, Emit, graph
  <2>2. \A m \in Node : phase'[m] # "none" => phase[m] # "none"
    BY <1>3 DEF Begin, Emit, Types, BuildTypes
  <2> QED
    BY <2>1, <2>2, <1>a, <1>c, <1>d
<1>4. ASSUME NEW n \in Node, WatchTick(n)
      PROVE  CurrentInv'
  <2>1. UNCHANGED <<state, phase, finishing, budget, stale>>
    BY <1>4 DEF WatchTick, graph
  <2> QED
    BY <2>1, <1>a, <1>c, <1>d
<1>5. ASSUME NEW n \in Node, FileChange(n)
      PROVE  CurrentInv'
  <2>1. UNCHANGED <<state, phase, finishing, stale>>
    BY <1>5 DEF FileChange, graph
  <2>2. Undisturbed' => Undisturbed
    BY <1>5 DEF FileChange, Undisturbed, Types, BudgetTypes
  <2> QED
    BY <2>1, <2>2, <1>c, <1>d
<1>6. ASSUME NEW n \in Node, DoneClosed(n) \/ DoneFailed(n), Undisturbed' => Undisturbed
      PROVE  CurrentInv'
  <2>1. UNCHANGED <<state, finishing, stale>> /\ phase' = [phase EXCEPT ![n] = "none"]
    BY <1>6 DEF DoneClosed, DoneFailed, graph
  <2>2. \A m \in Node : phase'[m] # "none" => phase[m] # "none"
    BY <2>1 DEF Types, BuildTypes
  <2> QED
    BY <2>1, <2>2, <1>6, <1>c, <1>d
<1>7. ASSUME NEW n \in Node, DoneHookFails(n)
      PROVE  CurrentInv'
  <2>1. /\ UNCHANGED <<state, phase, stale>> /\ Happens("failure")
        /\ finishing' = [finishing EXCEPT ![n] = @ - 1]
    BY <1>7 DEF DoneHookFails
  <2>2. \A m \in Node : finishing'[m] <= finishing[m]
    BY <2>1 DEF Types, RestTypes
  <2> QED
    BY <2>1, <2>2, <1>b, <1>d
<1>8. ASSUME NEW n \in Node, DoneHook(n)
      PROVE  CurrentInv'
  BY <1>8, DoneHookCurrent
<1>9. ASSUME NEW n \in Node, Undelayed(n)
      PROVE  CurrentInv'
  <2>1. UNCHANGED <<phase, stale, finishing, budget>> /\ state' = NodeInvalid(state, n)
    BY <1>9 DEF Undelayed
  <2> QED
    BY <2>1, <1>a, <1>e
<1>10. ASSUME NEW n \in Node, Aggregated(n)
       PROVE  CurrentInv'
  <2>1. /\ UNCHANGED finishing
        /\ state' = NodeChangeState(state, n)
        /\ Invalidate(n, state)
        /\ (watcher[n] = "reported" /\ UNCHANGED budget) \/ Happens("removal")
    BY <1>10 DEF Aggregated, OnChange, NodeChange
  <2>2. ASSUME Undisturbed' PROVE Undisturbed /\ UNCHANGED <<phase, stale>>
    <3>1. Undisturbed /\ watcher[n] = "reported"
      BY <2>1, <2>2, <1>a, EventDisturbs DEF Types
    <3>2. state[n] # "running" /\ state[n] # "starting"
      BY <3>1 DEF SlotInv
    <3> QED
      BY <2>1, <3>1, <3>2, BlockedBeginsNothing DEF IsBlocked
  <2> QED
    BY <2>1, <2>2, <1>e
<1>11. ASSUME NEW n \in Node, ClientInvalidate(n)
       PROVE  CurrentInv'
  <2>1. /\ UNCHANGED finishing
        /\ state' = NodeChangeState(state, n)
        /\ Invalidate(n, state')
        /\ Happens("invalidate")
    BY <1>11 DEF ClientInvalidate, NodeChange
  <2>2. state'[n] # "running" /\ state'[n] # "starting"
    <3>1. state \in [Node -> NodeState]
      BY DEF Types, GraphTypes
    <3>2. state[n] # "starting"
      BY DEF SlotInv
    <3> QED
      BY <2>1, <3>1, <3>2, OutdatingFacts
  <2>3. UNCHANGED <<phase, stale>>
    BY <2>1, <2>2, BlockedBeginsNothing DEF IsBlocked
  <2> QED
    BY <2>1, <2>3, <1>b, <1>e
<1>12. ASSUME NEW n \in Node, Suspend(n)
       PROVE  CurrentInv'
  <2>1. UNCHANGED <<state, finishing>>
    BY <1>12 DEF Suspend, graph
  <2>2. ~Undisturbed'
    BY <1>12, EventDisturbs DEF Suspend, Types
  <2> QED
    BY <2>1, <2>2, <1>c, <1>d
<1>13. ASSUME NEW n \in Node, Resume(n)
       PROVE  CurrentInv'
  <2>1. UNCHANGED <<state, finishing, budget>> /\ suspended[n]
    BY <1>13 DEF Resume, graph
  <2>2. ~Undisturbed'
    BY <2>1, <1>a DEF SlotInv
  <2> QED
    BY <2>1, <2>2, <1>c, <1>d
<1>14. CASE Close
  <2>1. UNCHANGED <<state, phase, finishing, stale>> /\ Happens("close")
    BY <1>14 DEF Close, graph
  <2> QED
    BY <2>1, <1>b, <1>c, <1>d
<1>15. ASSUME NEW n \in Node, Done(n)
       PROVE  CurrentInv'
  BY <1>15, <1>a, <1>6, AgainCurrent, DoneOkCurrent DEF Done
<1>16. ASSUME NEW n \in Node, Fail(n)
       PROVE  CurrentInv'
  BY <1>16, <1>b, <1>6, AgainCurrent DEF Fail
<1> QED
  BY <1>1, <1>2, <1>3, <1>4, <1>5, <1>7, <1>8, <1>9, <1>10, <1>11, <1>12, <1>13, <1>14, <1>15, <1>16
     DEF Next, System, Environment

\* Whatever was running when a compiler it depends on was invalidated, or built
\* again, is built again: no compiler is done with a build that is too old.
THEOREM DoneIsCurrentCorrect == Spec => []DoneIsCurrent
<1>1. Init => SlotInv /\ CurrentInv
  <2>1. ASSUME Init PROVE CurrentInv
    BY <2>1 DEF Init, CurrentInv, Ordered, Fresh, Roots
  <2>2. Init => SlotInv
    BY InitSlots
  <2> QED
    BY <2>1, <2>2
<1>2. CurrentInv => DoneIsCurrent
  <2> SUFFICES ASSUME CurrentInv PROVE DoneIsCurrent
    OBVIOUS
  <2> QED
    BY DEF CurrentInv, Fresh, DoneIsCurrent
<1>3. Types /\ Types' /\ SlotInv /\ [Next]_vars => SlotInv'
  BY SlotStep
<1>4. Types /\ Types' /\ SlotInv /\ CurrentInv /\ [Next]_vars => CurrentInv'
  BY CurrentStep
<1> QED
  BY <1>1, <1>2, <1>3, <1>4, InitTypes, TypesStep, PTL DEF Spec

================================================================================
