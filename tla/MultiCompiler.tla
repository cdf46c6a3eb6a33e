--------------------------- MODULE MultiCompiler ---------------------------
(***************************************************************************)
(* webpack/lib/MultiCompiler.js: _runGraph, as run() and watch() use it,   *)
(* with as much of every child's Watching.js as the graph touches.         *)
(*                                                                         *)
(* The worker (processQueueWorker) runs in one go; `worker` is "looping"   *)
(* between two of its iterations, and nothing else happens then, except    *)
(* that starting a compiler calls its watching, which calls the graph      *)
(* back.  A build is begun, compiled, emitted, and followed by the done    *)
(* hook, whose answer calls the handler: nodeDone.  Module Watching has    *)
(* the details of a single watching; here one file per compiler is enough, *)
(* its callbacks are left out, and a build does not answer before the      *)
(* call that started it has returned.                                      *)
(***************************************************************************)
EXTENDS Integers, FiniteSets, Sequences

CONSTANTS
    N,              \* number of compilers
    Parents,        \* [1..N -> SUBSET (1..N)], the declared dependencies
    Parallelism,    \* _options.parallelism
    MaxChanges,     \* bound on the number of file changes
    MaxEvents       \* bound on the number of all other events, see EventKind

Node == 1 .. N

Children(n) == {m \in Node : n \in Parents[m]}

\* Below[n]: the compilers that depend on n, directly or not.
Below ==
    [n \in Node |->
        {m \in Node : \A S \in SUBSET Node :
            (Children(n) \subseteq S /\ \A k \in S : Children(k) \subseteq S) => m \in S}]

\* What validateDependencies accepts: known names, no cycle.
GraphAssumption ==
    /\ N \in Nat \ {0}
    /\ Parents \in [Node -> SUBSET Node]
    /\ \A n \in Node : n \notin Below[n]

ASSUME MultiAssumption ==
    /\ GraphAssumption
    /\ Parallelism \in Nat \ {0}
    /\ MaxChanges \in Nat
    /\ MaxEvents \in Nat

EventKind == {"removal", "invalidate", "suspend", "failure", "close"}

NodeState == {"pending", "blocked", "queued", "starting", "running", "running-outdated", "done"}

VARIABLES
    state,          \* [Node -> NodeState]
    queue,          \* the ArrayQueue of nodes
    running,        \* the counter of running compilers
    worker,         \* "off", "scheduled" (processing, nextTick) or "looping"
    errored,        \* `errored`
    results,        \* nodes whose `result` has not been reported
    phase,          \* [Node -> "none", "begin", "compile" or "emit"]
    invalid,        \* [Node -> BOOLEAN], Watching.invalid
    blocked,        \* [Node -> BOOLEAN], Watching.blocked
    suspended,      \* [Node -> BOOLEAN], Watching.suspended
    initial,        \* [Node -> BOOLEAN], Watching._initial
    closed,         \* [Node -> "open", "closing" or "closed"]
    finishing,      \* [Node -> number of done hooks that have not answered]
    toWatch,        \* nodes with a nextTick that calls watch()
    watcher,        \* [Node -> "off", "live", "reported" ("change" has been emitted)]
    dirty,          \* nodes whose file changed after their last build began
    stale,          \* nodes with an ancestor that began or ended a build after they began
    emitted,        \* nodes whose last build has emitted its assets
    watchMode,      \* watch() or run(); never changes
    tick,           \* the nextTicks of the watchings' constructors are to come
    told,           \* the final callback has been called with an error
    budget          \* what is left of the bounds, and the kinds of events so far

graph == <<state, queue, running, worker, errored, results>>
flags == <<suspended, closed>>
watching == <<phase, invalid, blocked, initial, watcher, dirty, stale, emitted>>
vars == <<graph, flags, watching, finishing, toWatch, watchMode, tick, told, budget>>

Roots == {n \in Node : Parents[n] = {}}

\* An event of this kind happens.
Happens(kind) ==
    /\ budget.events > 0
    /\ budget' = [budget EXCEPT !.events = @ - 1, !.seen = @ \cup {kind}]

\* The nodes of S in the order of `nodes`.
InOrder(S) ==
    [i \in 1 .. Cardinality(S) |-> CHOOSE n \in S : Cardinality({m \in S : m < n}) = i - 1]

\* _runGraph up to the first call of processQueueWorker.
Init ==
    /\ state = [n \in Node |-> IF n \in Roots THEN "queued" ELSE "blocked"]
    /\ queue = InOrder(Roots)
    /\ running = 0
    /\ worker = "looping"
    /\ errored = FALSE
    /\ results = {}
    /\ phase = [n \in Node |-> "none"]
    /\ invalid = [n \in Node |-> FALSE]
    /\ blocked = [n \in Node |-> FALSE]
    /\ suspended = [n \in Node |-> FALSE]
    /\ initial = [n \in Node |-> TRUE]
    /\ closed = [n \in Node |-> "open"]
    /\ finishing = [n \in Node |-> 0]
    /\ toWatch = {}
    /\ watcher = [n \in Node |-> "off"]
    /\ dirty = {}
    /\ stale = {}
    /\ emitted = {}
    /\ watchMode \in BOOLEAN
    /\ tick = watchMode
    /\ told = FALSE
    /\ budget = [changes |-> MaxChanges, events |-> MaxEvents, seen |-> {}]

(***************************************************************************)
(* The graph: nodeDone, nodeInvalid, nodeChange.                           *)
(***************************************************************************)

\* isBlocked, the callback given to setup.
IsBlocked(st, n) == st[n] \notin {"starting", "running"}

\* processQueue
Wake == worker' = IF worker = "off" THEN "scheduled" ELSE worker

OutdatedBy(s, ifDone) ==
    CASE s = "done" -> ifDone
      [] s = "running" -> "running-outdated"
      [] OTHER -> s

\* Mutant: only direct children hear of an invalidation.
NodeInvalidMutant(st, n) ==
    [m \in Node |-> IF m = n THEN OutdatedBy(st[m], "pending")
                    ELSE IF m \in Children(n) THEN OutdatedBy(st[m], "blocked")
                    ELSE st[m]]

\* nodeInvalid, with nodeInvalidFromParent for all descendants.
NodeInvalid(st, n) ==
    [m \in Node |-> IF m = n THEN OutdatedBy(st[m], "pending")
                    ELSE IF m \in Below[n] THEN OutdatedBy(st[m], "blocked")
                    ELSE st[m]]

\* Mutant: a node that waits for its parents keeps waiting for its own change.
UnpendMutant(st, n) ==
    IF st[n] = "pending" /\ \A p \in Parents[n] : st[p] = "done"
    THEN [st EXCEPT ![n] = "blocked"] ELSE st

Unpend(st, n) == IF st[n] = "pending" THEN [st EXCEPT ![n] = "blocked"] ELSE st

NodeChangeState(st, n) == Unpend(NodeInvalid(st, n), n)

\* nodeChange
NodeChange(n) ==
    /\ state' = NodeChangeState(state, n)
    /\ IF state'[n] = "blocked"
       THEN queue' = Append(queue, n) /\ Wake
       ELSE UNCHANGED <<queue, worker>>

\* Mutant: an outdated run keeps its slot for the next one.
ReleaseMutant(n) == running' = IF state[n] = "running" THEN running - 1 ELSE running

Release(n) == running' = running - 1

\* Mutant: only children that may start, but looked at before n is done.
ReadyMutant(n) ==
    {m \in Children(n) : state[m] = "blocked" /\ \A p \in Parents[m] : state[p] = "done"}

\* The children that nodeDone puts into the queue.
Ready(n) == {m \in Children(n) : state[m] = "blocked"}

\* nodeDone(node, null, stats)
NodeDone(n) ==
    IF errored
    THEN UNCHANGED graph
    ELSE /\ results' = results \cup {n}
         /\ Release(n)
         /\ CASE state[n] = "running" ->
                   /\ state' = [state EXCEPT ![n] = "done"]
                   /\ queue' = queue \o InOrder(Ready(n))
              [] state[n] = "running-outdated" ->
                   /\ state' = [state EXCEPT ![n] = "blocked"]
                   /\ queue' = Append(queue, n)
              [] OTHER -> UNCHANGED <<state, queue>>
         /\ Wake
         /\ UNCHANGED errored

(***************************************************************************)
(* What the graph calls of its watchings: close() and _invalidate().       *)
(***************************************************************************)

\* close() of every watching that is not closed; ph says which ones build.
CloseAll(ph) ==
    /\ closed' = [n \in Node |-> IF closed[n] = "closed" \/ ph[n] = "none"
                                 THEN "closed" ELSE "closing"]
    /\ invalid' = [n \in Node |-> invalid[n] \/ ph[n] # "none"]
    /\ watcher' = [n \in Node |-> "off"]

AllClosed(c) == \A n \in Node : c[n] = "closed"

\* nodeDone(node, err): in run() there is no watching to close, and the
\* callback is called at once.
NodeFails(ph) ==
    IF errored
    THEN UNCHANGED <<errored, closed, invalid, watcher, told>>
    ELSE /\ errored' = TRUE
         /\ IF watchMode
            THEN CloseAll(ph) /\ told' = AllClosed(closed')
            ELSE told' = TRUE /\ UNCHANGED <<closed, invalid, watcher>>

\* _go: the build takes over what the watcher knows; see PauseIfBegun, too.
Go(n) ==
    /\ phase' = [phase EXCEPT ![n] = "begin"]
    /\ initial' = [initial EXCEPT ![n] = FALSE]
    /\ dirty' = dirty \ {n}
    /\ stale' = (stale \ {n}) \cup Below[n]
    /\ emitted' = emitted \ {n}
    /\ UNCHANGED <<invalid, blocked>>

Stay == UNCHANGED <<phase, invalid, blocked, initial, dirty, stale, emitted>>

\* The watcher is paused when _go has been called.
PauseIfBegun(n) ==
    watcher' = IF phase[n] # phase'[n] THEN [watcher EXCEPT ![n] = "off"] ELSE watcher

\* _invalidate unless suspended: the two cases that begin no build, and _go.
\* `blocked` is never reset.
InvalidateNow(n, st) ==
    IF IsBlocked(st, n)
    THEN /\ blocked' = [blocked EXCEPT ![n] = TRUE]
         /\ UNCHANGED <<phase, invalid, initial, dirty, stale, emitted>>
    ELSE IF phase[n] # "none"
    THEN /\ invalid' = [invalid EXCEPT ![n] = TRUE]
         /\ UNCHANGED <<phase, blocked, initial, dirty, stale, emitted>>
    ELSE Go(n)

\* _invalidate when the graph is in state st.
Invalidate(n, st) == IF suspended[n] THEN Stay ELSE InvalidateNow(n, st)

(***************************************************************************)
(* processQueueWorker.                                                     *)
(***************************************************************************)

HasSlot == running < Parallelism

MayStart(n) ==
    \/ state[n] = "queued"
    \/ state[n] = "blocked" /\ \A p \in Parents[n] : state[p] = "done"

WorkerGoesOn == HasSlot /\ queue # <<>> /\ ~errored

\* run() of watch() calls invalidate() of an idle watching that is still the
\* compiler's: nodeChange while the node is "starting", then _invalidate.
RunWatching(n, starting) ==
    IF closed[n] = "closed" \/ phase[n] # "none"
    THEN state' = [starting EXCEPT ![n] = "running"] /\ Stay
    ELSE /\ state' = [NodeChangeState(starting, n) EXCEPT ![n] = "running"]
         /\ Invalidate(n, NodeChangeState(starting, n))

\* One iteration that starts a compiler.
StartNode ==
    /\ worker = "looping"
    /\ WorkerGoesOn
    /\ LET n == Head(queue)
           starting == [state EXCEPT ![n] = "starting"]
       IN /\ MayStart(n)
          /\ IF watchMode
             THEN RunWatching(n, starting)
             ELSE state' = [starting EXCEPT ![n] = "running"] /\ Go(n)
          /\ PauseIfBegun(n)
    /\ queue' = Tail(queue)
    /\ running' = running + 1
    /\ UNCHANGED <<worker, errored, results, flags, finishing, toWatch, watchMode, tick, told, budget>>

\* One iteration that drops a node: it was queued twice, or a parent is not done.
DropNode ==
    /\ worker = "looping"
    /\ WorkerGoesOn
    /\ ~MayStart(Head(queue))
    /\ queue' = Tail(queue)
    /\ UNCHANGED <<state, running, worker, errored, results, flags, watching, finishing,
                   toWatch, watchMode, tick, told, budget>>

AllDone == ~errored /\ running = 0 /\ \A n \in Node : state[n] = "done"

\* The end of the loop; the final callback takes the results.
EndLoop ==
    /\ worker = "looping"
    /\ ~WorkerGoesOn
    /\ worker' = "off"
    /\ results' = IF AllDone THEN {} ELSE results
    /\ UNCHANGED <<state, queue, running, errored, flags, watching, finishing, toWatch,
                   watchMode, tick, told, budget>>

\* The nextTick of processQueue; those of the constructors come before it.
Work ==
    /\ worker = "scheduled"
    /\ ~tick
    /\ worker' = "looping"
    /\ UNCHANGED <<state, queue, running, errored, results, flags, watching, finishing,
                   toWatch, watchMode, tick, told, budget>>

\* The constructors' ticks: _invalidate() of watchings that have not begun.
FirstTick ==
    /\ worker # "looping"
    /\ tick
    /\ tick' = FALSE
    /\ blocked' = [n \in Node |-> \/ blocked[n]
                                  \/ initial[n] /\ ~suspended[n] /\ IsBlocked(state, n)]
    /\ UNCHANGED <<graph, flags, phase, invalid, initial, watcher, dirty, stale, emitted,
                   finishing, toWatch, watchMode, told, budget>>

(***************************************************************************)
(* The builds.                                                             *)
(***************************************************************************)

LoopFree == worker # "looping" /\ ~tick

\* The watchRun hook: an earlier invalidation is forgotten.
Begin(n) ==
    /\ LoopFree
    /\ phase[n] = "begin"
    /\ phase' = [phase EXCEPT ![n] = "compile"]
    /\ invalid' = [invalid EXCEPT ![n] = FALSE]
    /\ UNCHANGED <<graph, flags, blocked, initial, watcher, dirty, stale, emitted, finishing,
                   toWatch, watchMode, tick, told, budget>>

\* compile() has answered: emitAssets().
Emit(n) ==
    /\ LoopFree
    /\ phase[n] = "compile"
    /\ ~invalid[n]
    /\ phase' = [phase EXCEPT ![n] = "emit"]
    /\ emitted' = emitted \cup {n}
    /\ UNCHANGED <<graph, flags, invalid, blocked, initial, watcher, dirty, stale, finishing,
                   toWatch, watchMode, tick, told, budget>>

\* _done starts over.
Rebuild(n) ==
    /\ watchMode
    /\ invalid[n]
    /\ ~suspended[n]
    /\ ~blocked[n]
    /\ ~IsBlocked(state, n)

\* ... or sets `blocked` when it finds out that it may not.
BlockedByDone(n) ==
    blocked' = [blocked EXCEPT ![n] =
        @ \/ (watchMode /\ invalid[n] /\ ~suspended[n] /\ IsBlocked(state, n))]

\* finalCallback, which close() put in the place of _done.
DoneClosed(n) ==
    /\ closed[n] = "closing"
    /\ phase' = [phase EXCEPT ![n] = "none"]
    /\ closed' = [closed EXCEPT ![n] = "closed"]
    /\ told' = (told \/ (errored /\ AllClosed(closed')))
    /\ UNCHANGED <<graph, suspended, invalid, blocked, initial, watcher, dirty, stale,
                   emitted, finishing, toWatch, watchMode, tick>>

DoneAgain(n) ==
    /\ closed[n] # "closing"
    /\ Rebuild(n)
    /\ Go(n)
    /\ PauseIfBegun(n)
    /\ UNCHANGED <<graph, flags, finishing, toWatch, watchMode, tick, told>>

\* The done hook is called.
DoneOk(n) ==
    /\ closed[n] # "closing"
    /\ ~Rebuild(n)
    /\ phase' = [phase EXCEPT ![n] = "none"]
    /\ stale' = stale \cup Below[n]
    /\ BlockedByDone(n)
    /\ finishing' = [finishing EXCEPT ![n] = @ + 1]
    /\ UNCHANGED <<graph, flags, invalid, initial, watcher, dirty, emitted, toWatch, watchMode, tick,
                   told>>

\* handleError(err): the handler is nodeDone with an error.
DoneFailed(n) ==
    /\ closed[n] # "closing"
    /\ ~Rebuild(n)
    /\ phase' = [phase EXCEPT ![n] = "none"]
    /\ BlockedByDone(n)
    /\ NodeFails(phase')
    /\ UNCHANGED <<state, queue, running, worker, results, suspended, initial, dirty, stale,
                   emitted, finishing, toWatch, watchMode, tick>>

Done(n) ==
    /\ LoopFree
    /\ \/ phase[n] = "compile" /\ invalid[n]
       \/ phase[n] = "emit"
    /\ DoneClosed(n) \/ DoneAgain(n) \/ DoneOk(n)
    /\ UNCHANGED budget

Fail(n) ==
    /\ LoopFree
    /\ phase[n] # "none"
    /\ Happens("failure")
    /\ DoneClosed(n) \/ DoneAgain(n) \/ DoneFailed(n)

\* The done hook has answered: the handler is nodeDone, then a tick calls watch().
DoneHook(n) ==
    /\ LoopFree
    /\ finishing[n] > 0
    /\ finishing' = [finishing EXCEPT ![n] = @ - 1]
    /\ NodeDone(n)
    /\ toWatch' = IF watchMode THEN toWatch \cup {n} ELSE toWatch
    /\ UNCHANGED <<flags, watching, watchMode, tick, told, budget>>

\* A tap of the done hook failed.
DoneHookFails(n) ==
    /\ LoopFree
    /\ finishing[n] > 0
    /\ Happens("failure")
    /\ finishing' = [finishing EXCEPT ![n] = @ - 1]
    /\ NodeFails(phase)
    /\ UNCHANGED <<state, queue, running, worker, results, suspended, phase, blocked, initial,
                   dirty, stale, emitted, toWatch, watchMode, tick>>

(***************************************************************************)
(* Watchers and files.  watch() may come after the next build has begun.   *)
(***************************************************************************)

WatchTick(n) ==
    /\ worker # "looping"
    /\ n \in toWatch
    /\ toWatch' = toWatch \ {n}
    /\ watcher' = IF closed[n] = "open" THEN [watcher EXCEPT ![n] = "live"] ELSE watcher
    /\ UNCHANGED <<graph, flags, phase, invalid, blocked, initial, dirty, stale, emitted,
                   finishing, watchMode, tick, told, budget>>

\* Events of the file system come after all ticks.
NoTicks == worker = "off" /\ ~tick /\ toWatch = {}

FileChange(n) ==
    /\ watchMode
    /\ worker # "looping"
    /\ budget.changes > 0
    /\ budget' = [budget EXCEPT !.changes = @ - 1]
    /\ dirty' = dirty \cup {n}
    /\ UNCHANGED <<graph, flags, phase, invalid, blocked, initial, watcher, stale, emitted,
                   finishing, toWatch, watchMode, tick, told>>

\* "change", emitted once and for changes only: _onInvalid.
Undelayed(n) ==
    /\ NoTicks
    /\ watcher[n] = "live"
    /\ n \in dirty
    /\ watcher' = [watcher EXCEPT ![n] = "reported"]
    /\ state' = NodeInvalid(state, n)
    /\ UNCHANGED <<queue, running, worker, errored, results, flags, phase, invalid, blocked,
                   initial, dirty, stale, emitted, finishing, toWatch, watchMode, tick, told, budget>>

\* _onChange
OnChange(n) == NodeChange(n)

\* "aggregated", emitted once, for a removed file without a "change" before it:
\* _invalidate, and only then _onChange.  The watchpack is paused first.
Aggregated(n) ==
    /\ NoTicks
    /\ \/ watcher[n] = "reported" /\ UNCHANGED budget
       \/ /\ watcher[n] = "live"
          /\ Happens("removal")
    /\ n \in dirty
    /\ Invalidate(n, state)
    /\ watcher' = [watcher EXCEPT ![n] = "off"]
    /\ OnChange(n)
    /\ UNCHANGED <<running, errored, results, flags, finishing, toWatch, watchMode, tick, told>>

(***************************************************************************)
(* The client: MultiWatching.                                              *)
(***************************************************************************)

Client == watchMode /\ worker # "looping" /\ ~told /\ "close" \notin budget.seen

\* invalidate() of one watching: _onChange, then _invalidate.
ClientInvalidate(n) ==
    /\ Client
    /\ Happens("invalidate")
    /\ NodeChange(n)
    /\ Invalidate(n, state')
    /\ PauseIfBegun(n)
    /\ UNCHANGED <<running, errored, results, flags, finishing, toWatch, watchMode, tick, told>>

Suspend(n) ==
    /\ Client
    /\ ~suspended[n]
    /\ Happens("suspend")
    /\ suspended' = [suspended EXCEPT ![n] = TRUE]
    /\ UNCHANGED <<graph, closed, watching, finishing, toWatch, watchMode, tick, told>>

\* resume(): _invalidate() without _onChange.
Resume(n) ==
    /\ Client
    /\ suspended[n]
    /\ suspended' = [suspended EXCEPT ![n] = FALSE]
    /\ InvalidateNow(n, state)
    /\ PauseIfBegun(n)
    /\ UNCHANGED <<graph, closed, finishing, toWatch, watchMode, tick, told, budget>>

\* MultiWatching.close()
Close ==
    /\ Client
    /\ Happens("close")
    /\ CloseAll(phase)
    /\ UNCHANGED <<graph, suspended, phase, blocked, initial, dirty, stale, emitted,
                   finishing, toWatch, watchMode, tick, told>>

System ==
    \/ StartNode \/ DropNode \/ EndLoop \/ Work \/ FirstTick
    \/ \E n \in Node :
         Begin(n) \/ Emit(n) \/ Done(n) \/ DoneHook(n) \/ WatchTick(n)
         \/ Undelayed(n) \/ Aggregated(n)

Environment ==
    \/ \E n \in Node : FileChange(n) \/ ClientInvalidate(n) \/ Suspend(n) \/ Resume(n)
                      \/ Fail(n) \/ DoneHookFails(n)
    \/ Close

Next == System \/ Environment

Spec == Init /\ [][Next]_vars

\* The event loop runs what it has been given; hooks and builds answer; the file
\* system reports changes; a suspended client resumes.
Fairness ==
    /\ WF_vars(StartNode \/ DropNode \/ EndLoop \/ Work \/ FirstTick \/ \E n \in Node : WatchTick(n))
    /\ \A n \in Node :
         /\ WF_vars(Begin(n) \/ Emit(n) \/ Done(n))
         /\ WF_vars(DoneHook(n))
         /\ WF_vars(Undelayed(n) \/ Aggregated(n))
         /\ WF_vars(Resume(n))

FairSpec == Spec /\ Fairness

(***************************************************************************)
(* Properties.                                                             *)
(***************************************************************************)

\* No watching has been suspended, and no file removed, so far.
Undisturbed == budget.seen \cap {"suspend", "removal"} = {}

\* Every variable has its type; the counter lies between 0 and the bound, as long
\* as nothing has been suspended or removed.
TypeOK ==
    /\ state \in [Node -> NodeState]
    /\ queue \in Seq(Node)
    /\ running \in Int
    /\ Undisturbed => running \in 0 .. Parallelism
    /\ worker \in {"off", "scheduled", "looping"}
    /\ errored \in BOOLEAN
    /\ results \subseteq Node
    /\ phase \in [Node -> {"none", "begin", "compile", "emit"}]
    /\ {invalid, blocked, suspended, initial} \subseteq [Node -> BOOLEAN]
    /\ closed \in [Node -> {"open", "closing", "closed"}]
    /\ finishing \in [Node -> Nat]
    /\ watcher \in [Node -> {"off", "live", "reported"}]
    /\ toWatch \cup dirty \cup stale \cup emitted \subseteq Node
    /\ {watchMode, tick, told} \subseteq BOOLEAN
    /\ budget \in [changes : 0 .. MaxChanges, events : 0 .. MaxEvents, seen : SUBSET EventKind]

Occupied == {n \in Node : state[n] \in {"starting", "running", "running-outdated"}}

\* `running` counts the nodes that hold a slot, as the transition list of
\* _runGraph (MultiCompiler.js:321) has it: each running++ has its running--.  It does not
\* hold once a watching is suspended (README, "Disagreements").
RunningExact == ~errored => running = Cardinality(Occupied)

\* What is left of it: the counter is exact as long as no watching has been
\* suspended and no file removed.
RunningExactUndisturbed == Undisturbed => RunningExact

\* No lost wake-up: a node that nothing holds back is in the queue, and if a slot
\* is free for what is in the queue, the worker is going to run.
NothingForgotten ==
    ~errored =>
        /\ \A n \in Node : MayStart(n) => \E i \in DOMAIN queue : queue[i] = n
        /\ queue # <<>> /\ HasSlot => worker # "off"

\* A node is done only with a build that began after the last builds of all the
\* compilers it depends on, directly or not: whatever was running when one of
\* them was invalidated is run again.
DoneIsCurrent ==
    Undisturbed /\ ~errored => \A n \in Node : state[n] = "done" => n \notin stale

\* Never more compilers build at the same time than `parallelism` says, error or
\* not, as long as no watching has been suspended and no file removed.
BoundKept == Undisturbed => Cardinality({n \in Node : phase[n] # "none"}) <= Parallelism

\* A compiler that is done, with no build on its way, has emitted the assets of
\* its last build.  It does not hold (README, "Disagreements").
DoneIsEmitted ==
    \A n \in Node :
        state[n] = "done" /\ phase[n] = "none" /\ finishing[n] = 0 => n \in emitted

Ended == errored \/ "close" \in budget.seen

\* A changed file is built, sooner or later, unless the session ends, or somebody
\* suspends a watching or removes a file.
ChangeGetsBuilt == \A n \in Node : n \in dirty ~> n \notin dirty \/ Ended \/ ~Undisturbed

\* A result is reported, sooner or later, with the same exceptions; run() calls
\* back at all.
ResultGetsReported ==
    \A n \in Node : n \in results ~> n \notin results \/ Ended \/ ~Undisturbed

\* Slots are counted exactly and the bound is kept.
SlotsExact == TypeOK /\ RunningExactUndisturbed /\ BoundKept

\* The session goes on: a change is built and a result reported.
SessionGoesOn == ChangeGetsBuilt /\ ResultGetsReported
=============================================================================
