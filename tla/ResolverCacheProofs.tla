-------------------------- MODULE ResolverCacheProofs --------------------------
(***************************************************************************)
(* Proofs about ResolverCache, for any callers, identifiers and settings:  *)
(* what a caller is told was true in its compilation, what was used stays  *)
(* in memory for the generations it was promised, and nobody is called     *)
(* back twice.                                                             *)
(*                                                                         *)
(* Whoever is chosen from the positions of a sequence is introduced as a   *)
(* member of a set and not unfolded.                                       *)
(***************************************************************************)
EXTENDS ResolverCache, TLAPS, FiniteSetTheorems, SequenceTheorems

(***************************************************************************)
(* The invariant.                                                          *)
(***************************************************************************)

Slot == [ident : Ident, entry : Nat \cup {Undefined}]
OldSlot == [ident : Ident, entry : Nat, until : Nat]
Stage == {"none", "get", "check", "resolve", "snapshot", "done", "over"}
Frame == [kind : {"resolve", "done"}, run : Caller, next : Nat \ {0}]

WorldTypes ==
    /\ setting \in Settings
    /\ files \in [Ident -> Nat] /\ during \in [Ident -> SUBSET Nat] /\ known \in [Ident -> Nat]

MemoryTypes ==
    /\ cache \in Seq(Slot) /\ oldCache \in Seq(OldSlot)
    /\ generation \in 0 .. setting.last /\ position \in Nat

StoreTypes ==
    /\ disk \in [Ident -> Nat] /\ latest \in [Ident -> Nat]
    /\ used \in [Ident -> Never .. setting.last]

RunTypes ==
    /\ active \in [Ident -> Seq(Caller)]
    /\ run \in [Caller -> [stage : Stage, entry : Nat]]
    /\ stack \in Seq(Frame)

CallerTypes ==
    /\ status \in [Caller -> {"idle", "waiting", "answered", "again"}]
    /\ result \in [Caller -> Nat]

Types == WorldTypes /\ MemoryTypes /\ StoreTypes /\ RunTypes /\ CallerTypes

\* A request is under way, and may still ask the caches or store something.
Busy(c) == run[c].stage \in {"get", "check", "resolve", "snapshot"}

\* Functions call each other in turns, and done() is on the stack, once, as long
\* as it calls back.
StackInv ==
    /\ \A p \in DOMAIN stack : status[stack[p].run] # "idle"
    /\ \A p \in DOMAIN stack : stack[p].kind = "done" => run[stack[p].run].stage = "done"
    /\ \A c \in Caller : run[c].stage = "done" =>
          \E p \in DOMAIN stack : stack[p].kind = "done" /\ stack[p].run = c
    /\ \A p, q \in DOMAIN stack :
          stack[p].kind = "done" /\ stack[q].kind = "done" /\ stack[p].run = stack[q].run => p = q
    /\ \A p \in DOMAIN stack : p + 1 \in DOMAIN stack =>
          IF stack[p].kind = "done"
          THEN stack[p + 1].kind = "resolve" /\ stack[p + 1].run = stack[p].run
          ELSE stack[p + 1].kind = "done"

\* Who has asked is one of those that ask.
AskedInv == \A c \in Caller : status[c] # "idle" \/ run[c].stage # "none" => c \in DOMAIN setting.wants

\* A request that is under way is the one that others join, unless the function
\* that began it has yet to return.
LeadsInv == \A c \in Caller : Busy(c) => status[c] = "waiting" /\ (Registered(c) \/ Top("resolve", c))

\* Before that function returns there is no other to join.
BeginsInv ==
    \A c \in Caller : Top("resolve", c) =>
       run[c].stage = "over" \/ (Busy(c) /\ active[Wanted(c)] = <<>>)

JoinedInv ==
    \A i \in Ident : \A p \in DOMAIN active[i] :
       active[i][p] \in DOMAIN setting.wants /\ Wanted(active[i][p]) = i

\* So there is one request for an identifier.
LeaderInv == AskedInv /\ LeadsInv /\ BeginsInv /\ JoinedInv

Unique(map) == \A p, q \in DOMAIN map : map[p].ident = map[q].ident => p = q

\* What is in memory is the newest, and what was used is there until it expires.
MapInv ==
    /\ Unique(cache) /\ Unique(oldCache)
    /\ \A i \in Ident : Held(i) # Undefined => Held(i) = latest[i]
    /\ \A i \in Ident : used[i] <= generation
    /\ \A i \in Ident :
          At(cache, i) = Undefined /\ used[i] # Never /\ generation <= used[i] + setting.maxGenerations =>
             \E p \in DOMAIN oldCache :
                oldCache[p].ident = i /\ used[i] + setting.maxGenerations < oldCache[p].until

\* The disk has what was stored last, and a request that has asked it gets that:
\* nobody else stores anything meanwhile.
DiskInv ==
    /\ setting.disk => disk = latest
    /\ \A c \in Caller : run[c].stage = "get" => setting.disk /\ run[c].entry = disk[Wanted(c)]

\* What a request is going to tell was true in this compilation.
CurrentInv ==
    /\ \A i \in Ident : files[i] \in during[i] /\ known[i] \in during[i] \cup {0}
    /\ ~setting.early =>
          /\ \A c \in Caller : run[c].stage \in {"snapshot", "done"} =>
                run[c].entry \in during[Wanted(c)] \cup {0}
          /\ \A c \in Caller : status[c] = "answered" /\ result[c] # 0 => result[c] \in during[Wanted(c)]

IInv == Types /\ StackInv /\ LeaderInv /\ MapInv /\ DiskInv /\ CurrentInv

\* Who is in a list waits, unless done() has called it back already; the first has
\* begun the request, the others have only joined, each once.
ListInv ==
    \A i \in Ident : \A p \in DOMAIN active[i] :
       /\ status[active[i][p]] # "idle"
       /\ \A q \in DOMAIN active[i] : active[i][p] = active[i][q] => p = q
       /\ IF p = 1 THEN Busy(active[i][p]) \/ run[active[i][p]].stage = "done"
                   ELSE run[active[i][p]].stage = "none"
       /\ run[active[i][1]].stage # "done" => status[active[i][p]] = "waiting"

\* Who has yet to be called back by a done() waits.
Pending(f) ==
    \A p \in DOMAIN Callbacks(f.run) : p >= f.next => status[Callbacks(f.run)[p]] = "waiting"

LoopInv == \A r \in DOMAIN stack : stack[r].kind = "done" => Pending(stack[r])

FreshInv == \A c \in Caller : status[c] = "idle" => run[c].stage = "none"

OnceInv == ListInv /\ LoopInv /\ FreshInv /\ CalledOnce

(***************************************************************************)
(* Settings and sequences.                                                 *)
(***************************************************************************)

LEMMA SettingFacts ==
  ASSUME setting \in Settings
  PROVE  /\ setting.maxGenerations \in Nat \ {0} /\ setting.last \in Nat /\ setting.newest \in Nat
         /\ setting.disk \in BOOLEAN /\ setting.early \in BOOLEAN
         /\ \A c \in DOMAIN setting.wants : c \in Caller /\ Wanted(c) \in Ident
<1> DEFINE W == UNION {[C -> Ident] : C \in SUBSET Caller}
<1>1. setting \in [wants : W, maxGenerations : Nat \ {0}, disk : BOOLEAN, early : BOOLEAN,
                   last : Nat, newest : Nat \ {0, 1}]
  BY ResolverCacheAssumption
<1>2. setting.wants \in W
  BY <1>1
<1>3. PICK C \in SUBSET Caller : setting.wants \in [C -> Ident]
  BY <1>2
<1>4. \A c \in DOMAIN setting.wants : c \in Caller /\ Wanted(c) \in Ident
  BY <1>3 DEF Wanted
<1> QED
  BY <1>1, <1>4

\* The positions in a set are numbered from 0 on by how many are before them.
LEMMA Ranks ==
  ASSUME NEW n \in Nat, NEW P \in SUBSET (1 .. n)
  PROVE  /\ IsFiniteSet(P) /\ Cardinality(P) \in Nat
         /\ \A k \in 1 .. Cardinality(P) : \E p \in P : Cardinality({q \in P : q < p}) = k - 1
         /\ \A p \in P : Cardinality({q \in P : q < p}) \in 0 .. Cardinality(P) - 1
         /\ \A p, r \in P : Cardinality({q \in P : q < p}) = Cardinality({q \in P : q < r}) => p = r
<1> DEFINE Before(p) == {q \in P : q < p}
           rank == [p \in P |-> Cardinality(Before(p))]
           C == Cardinality(P)
<1>1. IsFiniteSet(P) /\ C \in Nat
  <2>1. IsFiniteSet(1 .. n)
    BY FS_Interval
  <2> QED
    BY <2>1, FS_Subset, FS_CardinalityType
<1>2. ASSUME NEW p \in P
      PROVE  /\ IsFiniteSet(Before(p)) /\ Cardinality(Before(p)) \in 0 .. C - 1
             /\ \A q \in P : q < p => Cardinality(Before(q)) < Cardinality(Before(p))
  <2>1. Before(p) \in SUBSET P /\ p \notin Before(p)
    OBVIOUS
  <2>2. IsFiniteSet(Before(p)) /\ Cardinality(Before(p)) <= C /\ Cardinality(Before(p)) # C
    BY <1>1, <2>1, FS_Subset
  <2>3. Cardinality(Before(p)) \in Nat
    BY <2>2, FS_CardinalityType
  <2>4. ASSUME NEW q \in P, q < p PROVE Cardinality(Before(q)) < Cardinality(Before(p))
    <3>0. (\A r \in P : r < q => r < p) /\ ~(q < q)
      BY <2>4
    <3>1. Before(q) \in SUBSET Before(p) /\ q \in Before(p) /\ q \notin Before(q)
      BY <2>4, <3>0
    <3>2. IsFiniteSet(Before(q)) /\ Cardinality(Before(q)) <= Cardinality(Before(p))
          /\ Cardinality(Before(q)) # Cardinality(Before(p))
      BY <2>2, <3>1, FS_Subset
    <3>3. Cardinality(Before(q)) \in Nat
      BY <3>2, FS_CardinalityType
    <3> QED
      BY <2>3, <3>2, <3>3
  <2> QED
    BY <1>1, <2>2, <2>3, <2>4
<1> HIDE DEF Before
<1>3. rank \in [P -> 0 .. C - 1]
  BY <1>2
<1>4. ASSUME NEW p \in P, NEW q \in P, rank[p] = rank[q] PROVE p = q
  <2>1. p \in Int /\ q \in Int
    OBVIOUS
  <2>2. rank[p] \in Int /\ rank[q] \in Int
    BY <1>3
  <2>3. ~(p < q) /\ ~(q < p)
    BY <1>2, <1>4, <2>2
  <2> QED
    BY <2>1, <2>3
<1>5. rank \in Injection(P, 0 .. C - 1)
  BY <1>3, <1>4 DEF Injection, IsInjective
<1>6. IsFiniteSet(0 .. C - 1) /\ Cardinality(0 .. C - 1) = C
  BY <1>1, FS_Interval
<1>7. rank \in Surjection(P, 0 .. C - 1)
  BY <1>5, <1>6, FS_Injection
<1>8. ASSUME NEW k \in 1 .. C PROVE \E p \in P : Cardinality(Before(p)) = k - 1
  <2>1. k - 1 \in 0 .. C - 1
    BY <1>1
  <2>2. PICK p \in P : rank[p] = k - 1
    BY <1>7, <2>1 DEF Surjection
  <2> QED
    BY <2>2
<1>9. ASSUME NEW p \in P, NEW q \in P, Cardinality(Before(p)) = Cardinality(Before(q))
      PROVE  p = q
  BY <1>4, <1>9
<1> QED
  BY <1>1, <1>2, <1>8, <1>9 DEF Before

\* What is at some positions of a sequence, once each.
LEMMA PositionFacts ==
  ASSUME NEW S, NEW s \in Seq(S), NEW P \in SUBSET DOMAIN s
  PROVE  /\ AtPositions(s, P) \in Seq(S)
         /\ \E f \in [DOMAIN AtPositions(s, P) -> P] :
               /\ \A n \in DOMAIN AtPositions(s, P) : AtPositions(s, P)[n] = s[f[n]]
               /\ \A n, m \in DOMAIN AtPositions(s, P) : f[n] = f[m] => n = m
               /\ \A p \in P : \E n \in DOMAIN AtPositions(s, P) : f[n] = p
<1> DEFINE C == Cardinality(P)
           Rank(p) == Cardinality({q \in P : q < p})
           Pick(n) == CHOOSE p \in P : Rank(p) = n - 1
           f == [n \in 1 .. C |-> Pick(n)]
           t == AtPositions(s, P)
<1>1. Len(s) \in Nat /\ DOMAIN s = 1 .. Len(s) /\ P \in SUBSET (1 .. Len(s))
  BY LenProperties
<1>2. /\ C \in Nat
      /\ \A k \in 1 .. C : \E p \in P : Rank(p) = k - 1
      /\ \A p \in P : Rank(p) \in 0 .. C - 1
      /\ \A p, r \in P : Rank(p) = Rank(r) => p = r
  BY <1>1, Ranks
<1>3. t = [n \in 1 .. C |-> s[Pick(n)]]
  BY DEF AtPositions
<1> HIDE DEF t, Rank, C
<1>4. ASSUME NEW n \in 1 .. C PROVE Pick(n) \in {p \in P : Rank(p) = n - 1}
  BY <1>2
<1> HIDE DEF Pick
<1>5. f \in [1 .. C -> P] /\ \A n \in 1 .. C : f[n] = Pick(n) /\ Rank(f[n]) = n - 1
  BY <1>4
<1>6. DOMAIN t = 1 .. C /\ \A n \in 1 .. C : t[n] = s[f[n]]
  BY <1>3, <1>5
<1> HIDE DEF f
<1>7. \A p \in P : s[p] \in S
  BY <1>1, ElementOfSeq
<1>8. t \in Seq(S)
  <2>1. t \in [1 .. C -> S]
    BY <1>3, <1>5, <1>6, <1>7
  <2> QED
    BY <1>2, <2>1, IsASeq
<1>9. ASSUME NEW n \in 1 .. C, NEW m \in 1 .. C, f[n] = f[m] PROVE n = m
  BY <1>2, <1>5, <1>9
<1>10. ASSUME NEW p \in P PROVE \E n \in 1 .. C : f[n] = p
  <2> DEFINE n == Rank(p) + 1
  <2>1. n \in 1 .. C /\ n - 1 = Rank(p)
    BY <1>2
  <2> HIDE DEF n
  <2>2. f[n] \in P /\ Rank(f[n]) = Rank(p)
    BY <1>5, <2>1
  <2> QED
    BY <1>2, <2>1, <2>2
<1>11. /\ f \in [DOMAIN t -> P]
       /\ \A n \in DOMAIN t : t[n] = s[f[n]]
       /\ \A n, m \in DOMAIN t : f[n] = f[m] => n = m
       /\ \A p \in P : \E n \in DOMAIN t : f[n] = p
  BY <1>5, <1>6, <1>9, <1>10
<1> QED
  BY <1>8, <1>11 DEF t

(***************************************************************************)
(* Maps.                                                                   *)
(***************************************************************************)

LEMMA AtNone ==
  ASSUME NEW map, NEW i, \A p \in DOMAIN map : map[p].ident # i
  PROVE  At(map, i) = Undefined
<1>1. {p \in DOMAIN map : map[p].ident = i} = {}
  OBVIOUS
<1> QED
  BY <1>1 DEF At

LEMMA AtOne ==
  ASSUME NEW map, Unique(map), NEW p \in DOMAIN map
  PROVE  At(map, map[p].ident) = map[p].entry
<1> DEFINE P == {q \in DOMAIN map : map[q].ident = map[p].ident}
           c == CHOOSE q \in P : TRUE
<1>1. p \in P /\ P # {}
  OBVIOUS
<1>2. c \in P
  BY <1>1
<1>3. At(map, map[p].ident) = map[c].entry
  BY <1>1 DEF At
<1> HIDE DEF c
<1>4. c = p
  BY <1>2 DEF Unique
<1> QED
  BY <1>3, <1>4

\* A map either has nothing under a key or one element.
LEMMA AtCases ==
  ASSUME NEW map, Unique(map), NEW i
  PROVE  \/ At(map, i) = Undefined /\ \A p \in DOMAIN map : map[p].ident # i
         \/ \E p \in DOMAIN map : map[p].ident = i /\ At(map, i) = map[p].entry
<1>1. CASE \E p \in DOMAIN map : map[p].ident = i
  BY <1>1, AtOne
<1>2. CASE \A p \in DOMAIN map : map[p].ident # i
  BY <1>2, AtNone
<1> QED
  BY <1>1, <1>2

LEMMA SetFacts ==
  ASSUME NEW map \in Seq(Slot), Unique(map), NEW i \in Ident, NEW e \in Nat
  PROVE  /\ Set(map, i, e) \in Seq(Slot) /\ Unique(Set(map, i, e))
         /\ At(Set(map, i, e), i) = e
         /\ \A j \in Ident : j # i => At(Set(map, i, e), j) = At(map, j)
<1> DEFINE t == Set(map, i, e)
<1>1. /\ Len(map) \in Nat /\ DOMAIN map = 1 .. Len(map)
      /\ \A p \in DOMAIN map : map[p] \in Slot /\ map[p].ident \in Ident
  <2>1. Len(map) \in Nat /\ DOMAIN map = 1 .. Len(map)
    BY LenProperties
  <2>2. \A p \in DOMAIN map : map[p] \in Slot
    BY <2>1, ElementOfSeq
  <2> QED
    BY <2>1, <2>2 DEF Slot
<1>2. Put(i, e) \in Slot /\ Put(i, e).ident = i /\ Put(i, e).entry = e
  BY DEF Put, Slot
<1>3. CASE \E p \in DOMAIN map : map[p].ident = i
  <2>1. t = [p \in DOMAIN map |-> IF map[p].ident = i THEN Put(i, e) ELSE map[p]]
    BY <1>3 DEF Set
  <2> HIDE DEF t
  <2>2. /\ DOMAIN t = DOMAIN map
        /\ \A p \in DOMAIN map : t[p] = IF map[p].ident = i THEN Put(i, e) ELSE map[p]
    BY <2>1
  <2>3. t \in Seq(Slot)
    <3>1. t \in [1 .. Len(map) -> Slot]
      BY <1>1, <1>2, <2>1
    <3> QED
      BY <1>1, <3>1, IsASeq
  <2>4. \A p \in DOMAIN map : t[p].ident = map[p].ident
    BY <1>2, <2>2
  <2>5. Unique(t)
    BY <2>2, <2>4 DEF Unique
  <2>6. At(t, i) = e
    <3>1. PICK p \in DOMAIN map : map[p].ident = i
      BY <1>3
    <3>2. t[p].ident = i /\ t[p].entry = e
      BY <1>2, <2>2, <3>1
    <3> QED
      BY <2>2, <2>5, <3>2, AtOne
  <2>7. ASSUME NEW j \in Ident, j # i PROVE At(t, j) = At(map, j)
    <3>1. CASE \E p \in DOMAIN map : map[p].ident = j
      <4>1. PICK p \in DOMAIN map : map[p].ident = j
        BY <3>1
      <4>2. t[p] = map[p] /\ p \in DOMAIN t
        BY <2>2, <2>7, <4>1
      <4>3. At(t, t[p].ident) = t[p].entry /\ At(map, map[p].ident) = map[p].entry
        BY <2>5, <4>2, AtOne
      <4> QED
        BY <4>1, <4>2, <4>3
    <3>2. CASE \A p \in DOMAIN map : map[p].ident # j
      <4>1. \A p \in DOMAIN t : t[p].ident # j
        BY <2>2, <2>4, <3>2
      <4> QED
        BY <3>2, <4>1, AtNone
    <3> QED
      BY <3>1, <3>2
  <2> QED
    BY <2>3, <2>5, <2>6, <2>7 DEF t
<1>4. CASE \A p \in DOMAIN map : map[p].ident # i
  <2>1. t = Append(map, Put(i, e))
    BY <1>4 DEF Set
  <2> HIDE DEF t
  <2>2. /\ t \in Seq(Slot) /\ Len(t) = Len(map) + 1 /\ t[Len(map) + 1] = Put(i, e)
        /\ \A p \in 1 .. Len(map) : t[p] = map[p]
    BY <1>2, <2>1, AppendProperties
  <2>3. DOMAIN t = 1 .. (Len(map) + 1)
    BY <2>2, LenProperties
  <2>4. /\ \A p \in DOMAIN map : p \in DOMAIN t /\ t[p] = map[p]
        /\ \A p \in DOMAIN t : p \in DOMAIN map \/ p = Len(map) + 1
        /\ Len(map) + 1 \in DOMAIN t /\ Len(map) + 1 \notin DOMAIN map
    BY <1>1, <2>2, <2>3
  <2>5. Unique(t)
    <3> SUFFICES ASSUME NEW p \in DOMAIN t, NEW q \in DOMAIN t, t[p].ident = t[q].ident PROVE p = q
      BY DEF Unique
    <3> QED
      BY <1>2, <1>4, <2>2, <2>4 DEF Unique
  <2>6. At(t, i) = e
    BY <1>2, <2>2, <2>4, <2>5, AtOne
  <2>7. ASSUME NEW j \in Ident, j # i PROVE At(t, j) = At(map, j)
    <3>1. CASE \E p \in DOMAIN map : map[p].ident = j
      <4>1. PICK p \in DOMAIN map : map[p].ident = j
        BY <3>1
      <4>2. At(t, t[p].ident) = t[p].entry /\ At(map, map[p].ident) = map[p].entry
        BY <2>4, <2>5, <4>1, AtOne
      <4> QED
        BY <2>4, <4>1, <4>2
    <3>2. CASE \A p \in DOMAIN map : map[p].ident # j
      <4>1. \A p \in DOMAIN t : t[p].ident # j
        BY <1>2, <2>2, <2>4, <2>7, <3>2
      <4> QED
        BY <3>2, <4>1, AtNone
    <3> QED
      BY <3>1, <3>2
  <2> QED
    BY <2>2, <2>5, <2>6, <2>7 DEF t
<1> QED
  BY <1>3, <1>4

LEMMA SelectedFacts ==
  ASSUME NEW S, NEW map \in Seq(S), Unique(map), NEW P \in SUBSET DOMAIN map
  PROVE  /\ AtPositions(map, P) \in Seq(S) /\ Unique(AtPositions(map, P))
         /\ \A n \in DOMAIN AtPositions(map, P) : \E p \in P : AtPositions(map, P)[n] = map[p]
         /\ \A p \in P : \E n \in DOMAIN AtPositions(map, P) : AtPositions(map, P)[n] = map[p]
<1> DEFINE t == AtPositions(map, P)
<1>1. PICK f \in [DOMAIN t -> P] :
        /\ \A n \in DOMAIN t : t[n] = map[f[n]]
        /\ \A n, m \in DOMAIN t : f[n] = f[m] => n = m
        /\ \A p \in P : \E n \in DOMAIN t : f[n] = p
  BY PositionFacts
<1>2. t \in Seq(S)
  BY PositionFacts
<1> HIDE DEF t
<1>3. Unique(t)
  <2> SUFFICES ASSUME NEW n \in DOMAIN t, NEW m \in DOMAIN t, t[n].ident = t[m].ident PROVE n = m
    BY DEF Unique
  <2>1. f[n] \in P /\ f[m] \in P /\ map[f[n]].ident = map[f[m]].ident
    BY <1>1
  <2>2. f[n] = f[m]
    BY <2>1 DEF Unique
  <2> QED
    BY <1>1, <2>2
<1>4. \A n \in DOMAIN t : \E p \in P : t[n] = map[p]
  BY <1>1
<1>5. \A p \in P : \E n \in DOMAIN t : t[n] = map[p]
  BY <1>1
<1> QED
  BY <1>2, <1>3, <1>4, <1>5 DEF t

LEMMA WithoutFacts ==
  ASSUME NEW S, NEW map \in Seq(S), Unique(map), NEW I
  PROVE  /\ Without(map, I) \in Seq(S) /\ Unique(Without(map, I))
         /\ \A n \in DOMAIN Without(map, I) :
               \E p \in DOMAIN map : map[p].ident \notin I /\ Without(map, I)[n] = map[p]
         /\ \A p \in DOMAIN map : map[p].ident \notin I =>
               \E n \in DOMAIN Without(map, I) : Without(map, I)[n] = map[p]
         /\ \A i : At(Without(map, I), i) = IF i \in I THEN Undefined ELSE At(map, i)
<1> DEFINE P == {p \in DOMAIN map : map[p].ident \notin I}
           t == Without(map, I)
<1>1. t = AtPositions(map, P) /\ P \in SUBSET DOMAIN map
  BY DEF Without
<1>2. /\ t \in Seq(S) /\ Unique(t)
      /\ \A n \in DOMAIN t : \E p \in P : t[n] = map[p]
      /\ \A p \in P : \E n \in DOMAIN t : t[n] = map[p]
  <2> HIDE DEF P
  <2> QED
    BY <1>1, SelectedFacts
<1> HIDE DEF t
<1>3. ASSUME NEW i PROVE At(t, i) = IF i \in I THEN Undefined ELSE At(map, i)
  <2>1. CASE \E n \in DOMAIN t : t[n].ident = i
    <3>1. PICK n \in DOMAIN t, p \in P : t[n] = map[p] /\ t[n].ident = i
      BY <1>2, <2>1
    <3>2. At(t, t[n].ident) = t[n].entry /\ At(map, map[p].ident) = map[p].entry /\ i \notin I
      BY <1>2, <3>1, AtOne
    <3> QED
      BY <3>1, <3>2
  <2>2. CASE \A n \in DOMAIN t : t[n].ident # i
    <3>1. At(t, i) = Undefined
      BY <2>2, AtNone
    <3>2. i \notin I => \A p \in DOMAIN map : map[p].ident # i
      BY <1>2, <2>2
    <3>3. i \notin I => At(map, i) = Undefined
      BY <3>2, AtNone
    <3> QED
      BY <3>1, <3>3
  <2> QED
    BY <2>1, <2>2
<1> QED
  BY <1>2, <1>3 DEF t

(***************************************************************************)
(* The memory cache.                                                       *)
(***************************************************************************)

\* An entry that is kept is the newest, and its time begins anew.
LEMMA KeepStep ==
  ASSUME Types, MapInv, NEW i \in Ident, NEW e \in Nat, Keep(i, e),
         latest' = [latest EXCEPT ![i] = e], UNCHANGED setting,
         oldCache' = oldCache \/ oldCache' = Without(oldCache, {i})
  PROVE  MapInv' /\ MemoryTypes' /\ used' \in [Ident -> Never .. setting.last] /\ latest' \in [Ident -> Nat]
<1>1. /\ cache' = Set(cache, i, e) /\ used' = [used EXCEPT ![i] = generation]
      /\ generation' = generation /\ position' = position /\ setting' = setting
  BY DEF Keep
<1>2. /\ cache \in Seq(Slot) /\ oldCache \in Seq(OldSlot) /\ generation \in 0 .. setting.last
      /\ position \in Nat /\ used \in [Ident -> Never .. setting.last] /\ latest \in [Ident -> Nat]
      /\ Unique(cache) /\ Unique(oldCache) /\ setting \in Settings
  BY DEF Types, WorldTypes, MemoryTypes, StoreTypes, MapInv
<1>3. setting.last \in Nat /\ setting.maxGenerations \in Nat
  BY <1>2, SettingFacts
<1>4. /\ cache' \in Seq(Slot) /\ Unique(cache') /\ At(cache', i) = e
      /\ \A j \in Ident : j # i => At(cache', j) = At(cache, j)
  BY <1>1, <1>2, SetFacts
<1>5. /\ oldCache' \in Seq(OldSlot) /\ Unique(oldCache')
      /\ \A p \in DOMAIN oldCache : oldCache[p].ident # i =>
            \E n \in DOMAIN oldCache' : oldCache'[n] = oldCache[p]
      /\ \A j \in Ident : j # i => At(oldCache', j) = At(oldCache, j)
  <2>1. CASE oldCache' = oldCache
    BY <1>2, <2>1
  <2>2. CASE oldCache' = Without(oldCache, {i})
    <3> DEFINE I == {i}
               w == Without(oldCache, I)
    <3>1. oldCache' = w /\ \A j : j \in I <=> j = i
      BY <2>2
    <3> HIDE DEF I
    <3>2. /\ w \in Seq(OldSlot) /\ Unique(w)
          /\ \A p \in DOMAIN oldCache : oldCache[p].ident \notin I =>
                \E n \in DOMAIN w : w[n] = oldCache[p]
          /\ \A j : At(w, j) = IF j \in I THEN Undefined ELSE At(oldCache, j)
      <4>0. oldCache \in Seq(OldSlot) /\ Unique(oldCache)
        BY <1>2
      <4>1. w \in Seq(OldSlot)
        BY <4>0, WithoutFacts
      <4>2. Unique(w)
        BY <4>0, WithoutFacts
      <4>3. \A j : At(w, j) = IF j \in I THEN Undefined ELSE At(oldCache, j)
        BY <4>0, WithoutFacts
      <4>4. \A p \in DOMAIN oldCache : oldCache[p].ident \notin I =>
                \E n \in DOMAIN w : w[n] = oldCache[p]
        BY <4>0, WithoutFacts
      <4> QED
        BY <4>1, <4>2, <4>3, <4>4
    <3> HIDE DEF w
    <3> QED
      BY <3>1, <3>2
  <2> QED
    BY <2>1, <2>2
<1>6. used' \in [Ident -> Never .. setting.last] /\ latest' \in [Ident -> Nat]
  BY <1>1, <1>2, <1>3 DEF Never
<1>7. MemoryTypes'
  BY <1>1, <1>2, <1>4, <1>5 DEF MemoryTypes
<1>8. e # Undefined
  BY DEF Undefined
<1>9. ASSUME NEW j \in Ident, Held(j)' # Undefined PROVE Held(j)' = latest'[j]
  <2>1. CASE j = i
    BY <1>2, <1>4, <1>8, <2>1 DEF Held
  <2>2. CASE j # i
    <3>1. Held(j)' = Held(j) /\ latest'[j] = latest[j]
      BY <1>2, <1>4, <1>5, <2>2 DEF Held
    <3> QED
      BY <1>9, <3>1 DEF MapInv
  <2> QED
    BY <2>1, <2>2
<1>10. ASSUME NEW j \in Ident PROVE used'[j] <= generation'
  BY <1>1, <1>2 DEF MapInv
<1>11. ASSUME NEW j \in Ident, At(cache', j) = Undefined, used'[j] # Never,
              generation' <= used'[j] + setting'.maxGenerations
       PROVE  \E n \in DOMAIN oldCache' :
                 oldCache'[n].ident = j /\ used'[j] + setting'.maxGenerations < oldCache'[n].until
  <2>1. j # i
    BY <1>4, <1>8, <1>11
  <2>2. used'[j] = used[j] /\ At(cache, j) = Undefined
    BY <1>1, <1>2, <1>4, <1>11, <2>1
  <2>3. PICK p \in DOMAIN oldCache :
          oldCache[p].ident = j /\ used[j] + setting.maxGenerations < oldCache[p].until
    BY <1>1, <1>11, <2>2 DEF MapInv
  <2> QED
    BY <1>1, <1>5, <2>1, <2>2, <2>3
<1>12. MapInv'
  BY <1>4, <1>5, <1>9, <1>10, <1>11 DEF MapInv
<1> QED
  BY <1>6, <1>7, <1>12

\* What the memory has is the newest entry.
LEMMA HeldFacts ==
  ASSUME Types, MapInv, NEW i \in Ident
  PROVE  /\ Held(i) \in Nat \cup {Undefined}
         /\ Held(i) # Undefined => latest = [latest EXCEPT ![i] = Held(i)]
<1>1. /\ cache \in Seq(Slot) /\ oldCache \in Seq(OldSlot) /\ Unique(cache) /\ Unique(oldCache)
      /\ latest \in [Ident -> Nat]
  BY DEF Types, MemoryTypes, StoreTypes, MapInv
<1>2. /\ \A p \in DOMAIN cache : cache[p] \in Slot
      /\ \A p \in DOMAIN oldCache : oldCache[p] \in OldSlot
  BY <1>1, ElementOfSeq, LenProperties
<1>3. At(cache, i) \in Nat \cup {Undefined} /\ At(oldCache, i) \in Nat \cup {Undefined}
  BY <1>1, <1>2, AtCases DEF Slot, OldSlot
<1> QED
  BY <1>1, <1>3 DEF Held, MapInv

\* What the sweep does: it moves entries that are in memory to oldCache, with a new
\* time, and takes out of it only what has expired or is in the memory cache.
LEMMA SweepFacts ==
  ASSUME Types, MapInv, AfterDone, UNCHANGED setting, NEW limit, limit = generation + 1
  PROVE  /\ cache' \in Seq(Slot) /\ oldCache' \in Seq(OldSlot) /\ position' \in Nat
         /\ Unique(cache') /\ Unique(oldCache')
         /\ \A x \in Ident : At(cache', x) # Undefined => At(cache, x) = At(cache', x)
         /\ \A p \in DOMAIN oldCache' :
              \/ /\ At(cache, oldCache'[p].ident) = oldCache'[p].entry
                 /\ oldCache'[p].until = limit + setting.maxGenerations
              \/ \E q \in DOMAIN oldCache :
                   /\ oldCache'[p] = oldCache[q]
                   /\ At(cache, oldCache[q].ident) # Undefined => At(cache', oldCache[q].ident) # Undefined
         /\ \A x \in Ident : At(cache, x) # Undefined =>
              \/ At(cache', x) # Undefined
              \/ \E p \in DOMAIN oldCache' :
                   oldCache'[p].ident = x /\ oldCache'[p].until = limit + setting.maxGenerations
         /\ \A q \in DOMAIN oldCache :
              oldCache[q].until > limit /\ At(cache, oldCache[q].ident) = Undefined =>
                \E p \in DOMAIN oldCache' : oldCache'[p] = oldCache[q]
<1> DEFINE expired == {oldCache[p].ident : p \in {p \in DOMAIN oldCache :
                                              \A q \in 1 .. p : oldCache[q].until <= limit}}
           Stay == {p \in DOMAIN cache : cache[p].ident \notin expired \/ cache[p].entry # Undefined}
           kept == AtPositions(cache, Stay)
           size == Len(kept)
           i == size \div setting.maxGenerations
           j == IF position >= size THEN 0 ELSE position
           filled == {p \in j + 1 .. size : kept[p].entry # Undefined}
           swept == {p \in filled : Cardinality({q \in filled : q < p}) <= i}
           moved == AtPositions(kept, swept)
           Gone == expired \cup {kept[p].ident : p \in swept}
           A == Without(oldCache, Gone)
           B == [p \in DOMAIN moved |-> [ident |-> moved[p].ident, entry |-> moved[p].entry,
                                         until |-> Until(limit)]]
<1>1. /\ cache \in Seq(Slot) /\ oldCache \in Seq(OldSlot) /\ Unique(cache) /\ Unique(oldCache)
      /\ position \in Nat /\ generation \in Nat /\ limit \in Nat
      /\ setting.maxGenerations \in Nat \ {0}
  <2>1. setting \in Settings
    BY DEF Types, WorldTypes
  <2> QED
    BY <2>1, SettingFacts DEF Types, MemoryTypes, MapInv
<1>2. /\ cache' = [p \in 1 .. size |-> IF p \in swept THEN Put(kept[p].ident, Undefined) ELSE kept[p]]
      /\ oldCache' = A \o B
  <2>1. cache' = [p \in 1 .. size |-> IF p \in swept THEN Put(kept[p].ident, Undefined) ELSE kept[p]]
    BY Zenon DEF AfterDone
  <2>2. oldCache' = A \o B
    BY ZenonT(60) DEF AfterDone
  <2> QED
    BY Zenon, <2>1, <2>2
<1>3. /\ kept \in Seq(Slot) /\ Unique(kept)
      /\ \A n \in DOMAIN kept : \E p \in Stay : kept[n] = cache[p]
      /\ \A p \in Stay : \E n \in DOMAIN kept : kept[n] = cache[p]
  <2>1. Stay \in SUBSET DOMAIN cache
    OBVIOUS
  <2> HIDE DEF Stay
  <2>2. cache \in Seq(Slot) /\ Unique(cache)
    BY <1>1
  <2>3. AtPositions(cache, Stay) \in Seq(Slot) /\ Unique(AtPositions(cache, Stay))
    BY <2>1, <2>2, SelectedFacts
  <2>4. \A n \in DOMAIN AtPositions(cache, Stay) : \E p \in Stay : AtPositions(cache, Stay)[n] = cache[p]
    BY <2>1, <2>2, SelectedFacts
  <2>5. \A p \in Stay : \E n \in DOMAIN AtPositions(cache, Stay) : AtPositions(cache, Stay)[n] = cache[p]
    BY <2>1, <2>2, SelectedFacts
  <2> QED
    BY <2>3, <2>4, <2>5
<1> HIDE DEF kept
<1>4. size \in Nat /\ DOMAIN kept = 1 .. size /\ \A p \in 1 .. size : kept[p] \in Slot
  <2>1. size \in Nat /\ DOMAIN kept = 1 .. size
    BY <1>3, LenProperties
  <2> QED
    BY <1>3, <2>1, ElementOfSeq
<1>5. i \in Nat /\ j \in Nat
  BY <1>1, <1>4
<1>6. position' \in Nat
  <2>1. position' = j + i
    BY Zenon DEF AfterDone, kept
  <2> HIDE DEF i, j
  <2> QED
    BY <1>5, <2>1
<1>7. swept \in SUBSET DOMAIN kept /\ \A p \in swept : kept[p].entry # Undefined
  <2> HIDE DEF i, j
  <2>1. \A p \in j + 1 .. size : p \in 1 .. size
    BY <1>4, <1>5
  <2> QED
    BY <1>4, <2>1
<1> HIDE DEF swept, size, filled, i, j
\* The memory cache.
<1>8. /\ cache' \in Seq(Slot) /\ DOMAIN cache' = 1 .. size
      /\ \A p \in 1 .. size : /\ cache'[p].ident = kept[p].ident
                              /\ cache'[p].entry = IF p \in swept THEN Undefined ELSE kept[p].entry
  <2>1. \A p \in 1 .. size : Put(kept[p].ident, Undefined) \in Slot
    BY <1>4 DEF Put, Slot, Undefined
  <2>2. /\ DOMAIN cache' = 1 .. size
        /\ \A p \in 1 .. size : cache'[p] = IF p \in swept THEN Put(kept[p].ident, Undefined) ELSE kept[p]
    BY <1>2
  <2>3. cache' \in [1 .. size -> Slot]
    BY <1>2, <1>4, <2>1
  <2>4. cache' \in Seq(Slot)
    BY <1>4, <2>3, IsASeq
  <2>5. \A p \in 1 .. size : /\ cache'[p].ident = kept[p].ident
                              /\ cache'[p].entry = IF p \in swept THEN Undefined ELSE kept[p].entry
    BY <2>2 DEF Put
  <2> QED
    BY <2>2, <2>4, <2>5
<1>9. Unique(cache')
  BY <1>3, <1>4, <1>8 DEF Unique
<1>10. ASSUME NEW p \in 1 .. size
       PROVE  /\ At(cache', kept[p].ident) = IF p \in swept THEN Undefined ELSE kept[p].entry
              /\ At(cache, kept[p].ident) = kept[p].entry
  <2>1. At(cache', cache'[p].ident) = cache'[p].entry
    BY <1>8, <1>9, AtOne
  <2>2. PICK q \in Stay : kept[p] = cache[q]
    BY <1>3, <1>4
  <2>3. At(cache, cache[q].ident) = cache[q].entry
    BY <1>1, AtOne
  <2> QED
    BY <1>8, <2>1, <2>2, <2>3
<1>11. ASSUME NEW x, At(cache', x) # Undefined PROVE At(cache, x) = At(cache', x)
  <2>1. PICK p \in 1 .. size : cache'[p].ident = x
    BY <1>8, <1>11, AtNone
  <2> QED
    BY <1>8, <1>10, <1>11, <2>1
\* What is in use keeps its slot.
<1>12. ASSUME NEW x, At(cache, x) # Undefined PROVE \E p \in 1 .. size : kept[p].ident = x
  <2>1. PICK q \in DOMAIN cache : cache[q].ident = x /\ cache[q].entry # Undefined
    BY <1>1, <1>12, AtCases
  <2>2. q \in Stay
    BY <2>1
  <2> QED
    BY <1>3, <1>4, <2>1, <2>2
<1> HIDE DEF Stay
\* What has been swept.
<1>13. /\ moved \in Seq(Slot) /\ Unique(moved)
       /\ Len(moved) \in Nat /\ DOMAIN moved = 1 .. Len(moved)
       /\ \A n \in DOMAIN moved : \E p \in swept : moved[n] = kept[p]
       /\ \A p \in swept : \E n \in DOMAIN moved : moved[n] = kept[p]
  <2>1. moved \in Seq(Slot) /\ Unique(moved)
    BY <1>3, <1>7, SelectedFacts
  <2>2. \A n \in DOMAIN moved : \E p \in swept : moved[n] = kept[p]
    BY <1>3, <1>7, SelectedFacts
  <2>3. \A p \in swept : \E n \in DOMAIN moved : moved[n] = kept[p]
    BY <1>3, <1>7, SelectedFacts
  <2> HIDE DEF moved
  <2> QED
    BY <2>1, <2>2, <2>3, LenProperties
<1> HIDE DEF moved
<1>14. /\ B \in Seq(OldSlot) /\ Len(B) = Len(moved) /\ DOMAIN B = 1 .. Len(moved)
       /\ \A n \in 1 .. Len(moved) : /\ B[n].ident = moved[n].ident /\ B[n].entry = moved[n].entry
                                     /\ B[n].until = limit + setting.maxGenerations
  <2>1. DOMAIN B = 1 .. Len(moved)
    BY <1>13
  <2>2. \A n \in 1 .. Len(moved) : /\ B[n].ident = moved[n].ident /\ B[n].entry = moved[n].entry
                                   /\ B[n].until = limit + setting.maxGenerations
    BY <1>13 DEF Until
  <2>3. ASSUME NEW n \in 1 .. Len(moved)
        PROVE  [ident |-> moved[n].ident, entry |-> moved[n].entry, until |-> Until(limit)] \in OldSlot
    <3>1. PICK p \in swept : moved[n] = kept[p]
      BY <1>13
    <3>2. kept[p] \in Slot /\ kept[p].entry # Undefined
      BY <1>4, <1>7, <3>1
    <3>3. Until(limit) \in Nat
      BY <1>1 DEF Until
    <3> QED
      BY <3>1, <3>2, <3>3 DEF Slot, OldSlot
  <2>4. B \in [1 .. Len(moved) -> OldSlot]
    BY <1>13, <2>3
  <2>5. B \in Seq(OldSlot)
    BY <1>13, <2>4, IsASeq
  <2> HIDE DEF B
  <2>6. Len(B) = Len(moved)
    BY <1>13, <2>1, <2>5, LenProperties
  <2> QED
    BY <2>1, <2>2, <2>5, <2>6
<1> HIDE DEF B
<1>15. /\ A \in Seq(OldSlot) /\ Unique(A)
       /\ \A n \in DOMAIN A : \E q \in DOMAIN oldCache : oldCache[q].ident \notin Gone /\ A[n] = oldCache[q]
       /\ \A q \in DOMAIN oldCache : oldCache[q].ident \notin Gone => \E n \in DOMAIN A : A[n] = oldCache[q]
  <2> HIDE DEF Gone
  <2>1. oldCache \in Seq(OldSlot) /\ Unique(oldCache)
    BY <1>1
  <2>2. A \in Seq(OldSlot) /\ Unique(A)
    BY <2>1, WithoutFacts
  <2>3. \A n \in DOMAIN A : \E q \in DOMAIN oldCache : oldCache[q].ident \notin Gone /\ A[n] = oldCache[q]
    BY <2>1, WithoutFacts
  <2>4. \A q \in DOMAIN oldCache : oldCache[q].ident \notin Gone => \E n \in DOMAIN A : A[n] = oldCache[q]
    BY <2>1, WithoutFacts
  <2> QED
    BY <2>2, <2>3, <2>4
<1>16. \A x : x \in Gone <=> x \in expired \/ \E p \in swept : kept[p].ident = x
  OBVIOUS
<1>17. \A q \in DOMAIN oldCache : oldCache[q].ident \in expired => oldCache[q].until <= limit
  <2> SUFFICES ASSUME NEW q \in DOMAIN oldCache, oldCache[q].ident \in expired
               PROVE  oldCache[q].until <= limit
    OBVIOUS
  <2>1. PICK p \in DOMAIN oldCache : /\ oldCache[q].ident = oldCache[p].ident
                                     /\ \A r \in 1 .. p : oldCache[r].until <= limit
    OBVIOUS
  <2>2. p = q
    BY <1>1, <2>1 DEF Unique
  <2>3. p \in 1 .. p
    BY <1>1, LenProperties
  <2> QED
    BY <2>1, <2>2, <2>3
<1> HIDE DEF A, Gone, expired
<1>18. /\ oldCache' \in Seq(OldSlot) /\ Len(A) \in Nat
       /\ DOMAIN A = 1 .. Len(A) /\ DOMAIN oldCache' = 1 .. (Len(A) + Len(moved))
       /\ \A n \in 1 .. Len(A) : oldCache'[n] = A[n]
       /\ \A n \in 1 .. Len(moved) : oldCache'[Len(A) + n] = B[n]
  <2>1. Len(A) \in Nat /\ DOMAIN A = 1 .. Len(A)
    BY <1>15, LenProperties
  <2>2. /\ A \o B \in Seq(OldSlot) /\ Len(A \o B) = Len(A) + Len(B)
        /\ \A n \in 1 .. Len(A) + Len(B) : (A \o B)[n] = IF n <= Len(A) THEN A[n] ELSE B[n - Len(A)]
    <3>1. A \in Seq(OldSlot) /\ B \in Seq(OldSlot)
      BY <1>14, <1>15
    <3> QED
      BY <3>1, ConcatProperties
  <2>3. /\ oldCache' \in Seq(OldSlot) /\ Len(oldCache') = Len(A) + Len(moved)
        /\ \A n \in 1 .. Len(A) + Len(moved) :
              oldCache'[n] = IF n <= Len(A) THEN A[n] ELSE B[n - Len(A)]
    BY <1>2, <1>14, <2>2
  <2>4. DOMAIN oldCache' = 1 .. (Len(A) + Len(moved))
    BY <2>3, LenProperties
  <2>5. \A n \in 1 .. Len(A) : oldCache'[n] = A[n]
    BY <1>13, <2>1, <2>3
  <2>6. ASSUME NEW n \in 1 .. Len(moved) PROVE oldCache'[Len(A) + n] = B[n]
    <3> DEFINE m == Len(A) + n
    <3>1. m \in 1 .. Len(A) + Len(moved) /\ ~(m <= Len(A)) /\ m - Len(A) = n
      BY <1>13, <2>1
    <3> HIDE DEF m
    <3>2. oldCache'[m] = B[n]
      BY <2>3, <3>1
    <3> QED
      BY <3>2 DEF m
  <2> QED
    BY <2>1, <2>3, <2>4, <2>5, <2>6
<1>19. ASSUME NEW p \in DOMAIN oldCache'
       PROVE  \/ p \in 1 .. Len(A)
              \/ \E n \in 1 .. Len(moved) : p = Len(A) + n
  <2>1. p \in 1 .. Len(A) \/ p - Len(A) \in 1 .. Len(moved)
    BY <1>13, <1>18
  <2>2. p = Len(A) + (p - Len(A))
    BY <1>18
  <2> QED
    BY <2>1, <2>2
<1>20. \A n \in 1 .. Len(A) : A[n].ident \notin Gone
  BY <1>15, <1>18
<1>21. ASSUME NEW n \in 1 .. Len(moved)
       PROVE  /\ B[n].ident \in Gone
              /\ At(cache, B[n].ident) = B[n].entry
  <2>1. PICK p \in swept : moved[n] = kept[p]
    BY <1>13
  <2>2. B[n].ident = kept[p].ident /\ B[n].entry = kept[p].entry
    BY <1>14, <2>1
  <2>3. p \in 1 .. size
    BY <1>4, <1>7
  <2>4. At(cache, kept[p].ident) = kept[p].entry
    BY <1>10, <2>3
  <2> QED
    BY <1>16, <2>2, <2>4
<1>22. Unique(oldCache')
  <2> SUFFICES ASSUME NEW p \in DOMAIN oldCache', NEW q \in DOMAIN oldCache',
                      oldCache'[p].ident = oldCache'[q].ident
               PROVE  p = q
    BY DEF Unique
  <2>1. CASE p \in 1 .. Len(A) /\ q \in 1 .. Len(A)
    BY <1>15, <1>18, <2>1 DEF Unique
  <2>2. ASSUME NEW n \in 1 .. Len(moved), NEW m \in 1 .. Len(moved), p = Len(A) + n, q = Len(A) + m
        PROVE  p = q
    <3>1. B[n].ident = B[m].ident
      BY <1>18, <2>2
    <3>2. moved[n].ident = moved[m].ident
      BY <1>14, <3>1
    <3>3. n = m
      BY <1>13, <3>2 DEF Unique
    <3> QED
      BY <2>2, <3>3
  <2>3. ASSUME NEW n \in 1 .. Len(A), NEW m \in 1 .. Len(moved)
        PROVE  oldCache'[n].ident # oldCache'[Len(A) + m].ident
    BY <1>18, <1>20, <1>21
  <2> QED
    BY <1>19, <2>1, <2>2, <2>3
<1>23. ASSUME NEW p \in DOMAIN oldCache'
       PROVE  \/ /\ At(cache, oldCache'[p].ident) = oldCache'[p].entry
                 /\ oldCache'[p].until = limit + setting.maxGenerations
              \/ \E q \in DOMAIN oldCache :
                   /\ oldCache'[p] = oldCache[q]
                   /\ At(cache, oldCache[q].ident) # Undefined => At(cache', oldCache[q].ident) # Undefined
  <2>1. CASE p \in 1 .. Len(A)
    <3>1. PICK q \in DOMAIN oldCache : oldCache[q].ident \notin Gone /\ oldCache'[p] = oldCache[q]
      BY <1>15, <1>18, <2>1
    <3>2. ASSUME At(cache, oldCache[q].ident) # Undefined
          PROVE  At(cache', oldCache[q].ident) # Undefined
      <4>1. PICK n \in 1 .. size : kept[n].ident = oldCache[q].ident
        BY <1>12, <3>2
      <4>2. n \notin swept
        BY <1>16, <3>1, <4>1
      <4>3. At(cache', kept[n].ident) = kept[n].entry /\ At(cache, kept[n].ident) = kept[n].entry
        BY <1>10, <4>2
      <4> QED
        BY <3>2, <4>1, <4>3
    <3> QED
      BY <3>1, <3>2
  <2>2. ASSUME NEW n \in 1 .. Len(moved), p = Len(A) + n
        PROVE  /\ At(cache, oldCache'[p].ident) = oldCache'[p].entry
               /\ oldCache'[p].until = limit + setting.maxGenerations
    <3>1. oldCache'[p] = B[n]
      BY <1>18, <2>2
    <3> QED
      BY <1>14, <1>21, <3>1
  <2> QED
    BY <1>19, <2>1, <2>2
<1>24. ASSUME NEW x, At(cache, x) # Undefined
       PROVE  \/ At(cache', x) # Undefined
              \/ \E p \in DOMAIN oldCache' :
                   oldCache'[p].ident = x /\ oldCache'[p].until = limit + setting.maxGenerations
  <2>1. PICK n \in 1 .. size : kept[n].ident = x
    BY <1>12, <1>24
  <2>2. CASE n \in swept
    <3>1. PICK m \in 1 .. Len(moved) : moved[m] = kept[n]
      BY <1>13, <2>2
    <3>2. Len(A) + m \in DOMAIN oldCache'
      BY <1>13, <1>18
    <3>3. oldCache'[Len(A) + m] = B[m]
      BY <1>18
    <3> QED
      BY <1>14, <2>1, <3>1, <3>2, <3>3
  <2>3. CASE n \notin swept
    BY <1>10, <1>24, <2>1, <2>3
  <2> QED
    BY <2>2, <2>3
<1>25. ASSUME NEW q \in DOMAIN oldCache, oldCache[q].until > limit,
              At(cache, oldCache[q].ident) = Undefined
       PROVE  \E p \in DOMAIN oldCache' : oldCache'[p] = oldCache[q]
  <2>1. oldCache[q].ident \notin expired
    <3>1. oldCache[q].until \in Nat
      <4>1. oldCache[q] \in OldSlot
        BY <1>1, ElementOfSeq, LenProperties
      <4> QED
        BY <4>1 DEF OldSlot
    <3> QED
      BY <1>1, <1>17, <1>25, <3>1
  <2>2. \A p \in swept : kept[p].ident # oldCache[q].ident
    BY <1>4, <1>7, <1>10, <1>25
  <2>3. PICK n \in 1 .. Len(A) : A[n] = oldCache[q]
    BY <1>15, <1>16, <1>18, <2>1, <2>2
  <2>4. n \in DOMAIN oldCache'
    BY <1>13, <1>18
  <2> QED
    BY <1>18, <2>3, <2>4
<1> QED
  BY <1>6, <1>8, <1>9, <1>11, <1>18, <1>22, <1>23, <1>24, <1>25

\* The sweep forgets nothing before its time.
LEMMA SweepStep ==
  ASSUME Types, MapInv, AfterDone, generation < setting.last, UNCHANGED <<setting, used, latest>>
  PROVE  MapInv' /\ MemoryTypes'
<1> DEFINE limit == generation + 1
<1>1. /\ cache \in Seq(Slot) /\ oldCache \in Seq(OldSlot) /\ Unique(cache) /\ Unique(oldCache)
      /\ setting \in Settings /\ generation \in 0 .. setting.last
      /\ used \in [Ident -> Never .. setting.last]
      /\ \A i \in Ident : used[i] <= generation
  BY DEF Types, WorldTypes, MemoryTypes, StoreTypes, MapInv
<1>2. setting.last \in Nat /\ setting.maxGenerations \in Nat
  BY <1>1, SettingFacts
<1>3. generation' = limit /\ limit \in 0 .. setting.last
  <2>1. generation' = limit
    BY Zenon DEF AfterDone
  <2>2. generation \in Int /\ setting.last \in Int /\ 0 <= generation
    BY <1>1, <1>2
  <2> QED
    BY <2>1, <2>2
<1> HIDE DEF limit
<1>4. limit = generation + 1
  BY DEF limit
<1>5. cache' \in Seq(Slot) /\ oldCache' \in Seq(OldSlot) /\ position' \in Nat
      /\ Unique(cache') /\ Unique(oldCache')
  BY <1>4, SweepFacts
<1>6. ASSUME NEW x \in Ident, At(cache', x) # Undefined PROVE At(cache, x) = At(cache', x)
  BY <1>4, <1>6, SweepFacts
<1>7. ASSUME NEW p \in DOMAIN oldCache'
      PROVE  \/ /\ At(cache, oldCache'[p].ident) = oldCache'[p].entry
                /\ oldCache'[p].until = limit + setting.maxGenerations
             \/ \E q \in DOMAIN oldCache :
                  /\ oldCache'[p] = oldCache[q]
                  /\ At(cache, oldCache[q].ident) # Undefined => At(cache', oldCache[q].ident) # Undefined
  BY <1>4, SweepFacts
<1>8. ASSUME NEW x \in Ident, At(cache, x) # Undefined, At(cache', x) = Undefined
      PROVE  \E p \in DOMAIN oldCache' :
                oldCache'[p].ident = x /\ oldCache'[p].until = limit + setting.maxGenerations
  BY <1>4, <1>8, SweepFacts
<1>9. ASSUME NEW q \in DOMAIN oldCache, oldCache[q].until > limit,
             At(cache, oldCache[q].ident) = Undefined
      PROVE  \E p \in DOMAIN oldCache' : oldCache'[p] = oldCache[q]
  BY <1>4, <1>9, SweepFacts
<1>10. MemoryTypes'
  BY <1>3, <1>5 DEF MemoryTypes
<1>11. ASSUME NEW x \in Ident, Held(x)' # Undefined PROVE Held(x)' = Held(x)
  <2>1. CASE At(cache', x) # Undefined
    BY <1>6, <2>1 DEF Held
  <2>2. CASE At(cache', x) = Undefined
    <3>1. At(oldCache', x) # Undefined /\ Held(x)' = At(oldCache', x)
      BY <1>11, <2>2 DEF Held
    <3>2. PICK p \in DOMAIN oldCache' : oldCache'[p].ident = x /\ At(oldCache', x) = oldCache'[p].entry
      BY <1>5, <3>1, AtCases
    <3>3. CASE At(cache, x) = oldCache'[p].entry
      BY <3>1, <3>2, <3>3 DEF Held
    <3>4. ASSUME NEW q \in DOMAIN oldCache, oldCache'[p] = oldCache[q],
                 At(cache, x) # Undefined => At(cache', x) # Undefined
          PROVE  Held(x)' = Held(x)
      <4>1. At(oldCache, oldCache[q].ident) = oldCache[q].entry
        BY <1>1, AtOne
      <4> QED
        BY <2>2, <3>1, <3>2, <3>4, <4>1 DEF Held
    <3> QED
      BY <1>7, <3>2, <3>3, <3>4
  <2> QED
    BY <2>1, <2>2
<1>12. ASSUME NEW x \in Ident, At(cache', x) = Undefined, used[x] # Never,
              generation' <= used[x] + setting.maxGenerations
       PROVE  \E p \in DOMAIN oldCache' :
                 oldCache'[p].ident = x /\ used[x] + setting.maxGenerations < oldCache'[p].until
  <2>0. used[x] \in Int /\ used[x] <= generation /\ generation \in Int /\ generation <= limit
    BY <1>1, <1>4 DEF Never
  <2>1. CASE At(cache, x) = Undefined
    <3>1. PICK q \in DOMAIN oldCache :
            oldCache[q].ident = x /\ used[x] + setting.maxGenerations < oldCache[q].until
      BY <1>2, <1>3, <1>4, <1>12, <2>0, <2>1 DEF MapInv
    <3>2. oldCache[q].until \in Nat
      <4>1. oldCache[q] \in OldSlot
        BY <1>1, ElementOfSeq, LenProperties
      <4> QED
        BY <4>1 DEF OldSlot
    <3>3. oldCache[q].until > limit
      BY <1>2, <1>3, <1>12, <2>0, <3>1, <3>2
    <3>4. PICK p \in DOMAIN oldCache' : oldCache'[p] = oldCache[q]
      BY <1>9, <2>1, <3>1, <3>3
    <3> QED
      BY <3>1, <3>4
  <2>2. CASE At(cache, x) # Undefined
    <3>1. PICK p \in DOMAIN oldCache' :
            oldCache'[p].ident = x /\ oldCache'[p].until = limit + setting.maxGenerations
      BY <1>8, <1>12, <2>2
    <3>2. used[x] + setting.maxGenerations < limit + setting.maxGenerations
      BY <1>1, <1>2, <1>3, <1>4, <2>0
    <3> QED
      BY <3>1, <3>2
  <2> QED
    BY <2>1, <2>2
<1>13. MapInv'
  <2>1. \A i \in Ident : Held(i)' # Undefined => Held(i)' = latest'[i]
    BY <1>11 DEF MapInv
  <2>2. \A i \in Ident : used'[i] <= generation'
    <3> SUFFICES ASSUME NEW i \in Ident PROVE used[i] <= limit
      BY <1>3
    <3>1. used[i] \in Int /\ used[i] <= generation /\ generation \in Int
      BY <1>1 DEF Never
    <3> QED
      BY <1>4, <3>1
  <2> QED
    BY <1>5, <1>12, <2>1, <2>2 DEF MapInv
<1> QED
  BY <1>10, <1>13

(***************************************************************************)
(* The stack and the requests.                                             *)
(***************************************************************************)

LEMMA StackFacts ==
  ASSUME RunTypes
  PROVE  /\ Len(stack) \in Nat /\ DOMAIN stack = 1 .. Len(stack)
         /\ \A p \in DOMAIN stack : stack[p] \in Frame
         /\ \A k, c : Top(k, c) <=> stack # <<>> /\ stack[1].kind = k /\ stack[1].run = c
         /\ stack # <<>> <=> 1 \in DOMAIN stack
<1>1. stack \in Seq(Frame)
  BY DEF RunTypes
<1>2. Len(stack) \in Nat /\ DOMAIN stack = 1 .. Len(stack)
  BY <1>1, LenProperties
<1>3. \A p \in DOMAIN stack : stack[p] \in Frame
  BY <1>1, <1>2, ElementOfSeq
<1>4. stack # <<>> <=> 1 \in DOMAIN stack
  <2>1. stack = <<>> <=> Len(stack) = 0
    BY <1>1, EmptySeq
  <2> QED
    BY <1>2, <2>1
<1>5. \A k, c : Top(k, c) <=> stack # <<>> /\ stack[1].kind = k /\ stack[1].run = c
  BY <1>1 DEF Top
<1> QED
  BY <1>2, <1>3, <1>4, <1>5

LEMMA PushFacts ==
  ASSUME RunTypes, NEW k \in {"resolve", "done"}, NEW c \in Caller, stack' = Push(k, c)
  PROVE  /\ stack' \in Seq(Frame) /\ Len(stack') = Len(stack) + 1 /\ DOMAIN stack' = 1 .. Len(stack) + 1
         /\ stack' # <<>> /\ stack'[1].kind = k /\ stack'[1].run = c /\ stack'[1].next = 1
         /\ \A p \in 1 .. Len(stack) : stack'[p + 1] = stack[p]
<1> DEFINE f == [kind |-> k, run |-> c, next |-> 1]
<1>1. f \in Frame
  BY DEF Frame
<1>2. f.kind = k /\ f.run = c /\ f.next = 1
  OBVIOUS
<1>3. stack' = <<f>> \o stack
  BY DEF Push
<1> HIDE DEF f
<1>4. /\ stack \in Seq(Frame) /\ <<f>> \in Seq(Frame) /\ Len(<<f>>) = 1 /\ <<f>>[1] = f
      /\ Len(stack) \in Nat
  BY <1>1, LenProperties DEF RunTypes
<1>5. /\ stack' \in Seq(Frame) /\ Len(stack') = 1 + Len(stack)
      /\ \A p \in 1 .. 1 + Len(stack) : stack'[p] = IF p <= 1 THEN <<f>>[p] ELSE stack[p - 1]
  <2>1. /\ <<f>> \o stack \in Seq(Frame) /\ Len(<<f>> \o stack) = Len(<<f>>) + Len(stack)
        /\ \A p \in 1 .. Len(<<f>>) + Len(stack) :
              (<<f>> \o stack)[p] = IF p <= Len(<<f>>) THEN <<f>>[p] ELSE stack[p - Len(<<f>>)]
    BY <1>4, ConcatProperties
  <2> QED
    BY <1>3, <1>4, <2>1
<1>6. Len(stack') = Len(stack) + 1 /\ DOMAIN stack' = 1 .. Len(stack) + 1
  <2>1. DOMAIN stack' = 1 .. Len(stack')
    BY <1>5, LenProperties
  <2> QED
    BY <1>4, <1>5, <2>1
<1>7. stack'[1] = f
  BY <1>4, <1>5
<1>8. ASSUME NEW p \in 1 .. Len(stack) PROVE stack'[p + 1] = stack[p]
  <2> DEFINE q == p + 1
  <2>1. q \in 1 .. 1 + Len(stack) /\ ~(q <= 1) /\ q - 1 = p
    BY <1>4
  <2> HIDE DEF q
  <2>2. stack'[q] = stack[p]
    BY <1>5, <2>1
  <2> QED
    BY <2>2 DEF q
<1>9. stack' # <<>>
  BY <1>4, <1>5, EmptySeq
<1> QED
  BY <1>2, <1>5, <1>6, <1>7, <1>8, <1>9

LEMMA PopFacts ==
  ASSUME RunTypes, stack # <<>>, stack' = Tail(stack)
  PROVE  /\ stack' \in Seq(Frame) /\ DOMAIN stack' = 1 .. Len(stack) - 1
         /\ \A p \in 1 .. Len(stack) - 1 : stack'[p] = stack[p + 1]
<1>1. stack \in Seq(Frame)
  BY DEF RunTypes
<1>2. /\ Tail(stack) \in Seq(Frame) /\ Len(Tail(stack)) = Len(stack) - 1
      /\ \A p \in 1 .. Len(Tail(stack)) : Tail(stack)[p] = stack[p + 1]
  BY <1>1, HeadTailProperties
<1> QED
  BY <1>2, LenProperties

\* A function that is called gets on top of the stack.
LEMMA PushKeepsStack ==
  ASSUME Types, StackInv, NEW k \in {"resolve", "done"}, NEW c \in Caller, stack' = Push(k, c),
         \A d \in Caller : status[d] # "idle" => status'[d] # "idle",
         status'[c] # "idle",
         \A d \in Caller : d # c => (run'[d].stage = "done" <=> run[d].stage = "done"),
         run[c].stage # "done", run'[c].stage = "done" <=> k = "done",
         stack # <<>> => IF k = "done" THEN Top("resolve", c) ELSE stack[1].kind = "done"
  PROVE  StackInv'
<1>1. RunTypes
  BY DEF Types
<1>2. /\ DOMAIN stack' = 1 .. Len(stack) + 1 /\ Len(stack) \in Nat /\ DOMAIN stack = 1 .. Len(stack)
      /\ stack'[1].kind = k /\ stack'[1].run = c
      /\ \A p \in 1 .. Len(stack) : stack'[p + 1] = stack[p]
      /\ \A p \in 1 .. Len(stack) : stack[p] \in Frame
      /\ stack # <<>> <=> 1 \in DOMAIN stack
      /\ Top("resolve", c) <=> stack # <<>> /\ stack[1].kind = "resolve" /\ stack[1].run = c
  BY <1>1, PushFacts, StackFacts
<1>3. \A p \in DOMAIN stack' : p = 1 \/ \E q \in 1 .. Len(stack) : p = q + 1
  <2> SUFFICES ASSUME NEW p \in DOMAIN stack', p # 1 PROVE \E q \in 1 .. Len(stack) : p = q + 1
    OBVIOUS
  <2>1. p - 1 \in 1 .. Len(stack) /\ p = (p - 1) + 1
    BY <1>2
  <2> QED
    BY <2>1
<1>4. \A p \in 1 .. Len(stack) : p + 1 \in DOMAIN stack' /\ stack[p].run \in Caller
  BY <1>2 DEF Frame
<1>5. \A p \in DOMAIN stack' : status'[stack'[p].run] # "idle"
  BY <1>2, <1>3, <1>4 DEF StackInv
<1>6. \A p \in 1 .. Len(stack) : stack[p].kind = "done" => stack[p].run # c /\ run'[stack[p].run].stage = "done"
  BY <1>2, <1>4 DEF StackInv
<1>7. \A p \in DOMAIN stack' : stack'[p].kind = "done" => run'[stack'[p].run].stage = "done"
  BY <1>2, <1>3, <1>6
<1>8. ASSUME NEW d \in Caller, run'[d].stage = "done"
      PROVE  \E p \in DOMAIN stack' : stack'[p].kind = "done" /\ stack'[p].run = d
  <2>1. CASE d = c
    <3>1. 1 \in DOMAIN stack' /\ k = "done"
      BY <1>2, <1>8, <2>1
    <3> QED
      BY <1>2, <2>1, <3>1
  <2>2. CASE d # c
    <3>1. PICK p \in 1 .. Len(stack) : stack[p].kind = "done" /\ stack[p].run = d
      BY <1>2, <1>8, <2>2 DEF StackInv
    <3> QED
      BY <1>2, <1>4, <3>1
  <2> QED
    BY <2>1, <2>2
<1>9. ASSUME NEW p \in DOMAIN stack', NEW q \in DOMAIN stack',
             stack'[p].kind = "done", stack'[q].kind = "done", stack'[p].run = stack'[q].run
      PROVE  p = q
  <2>1. ASSUME NEW r \in 1 .. Len(stack), stack[r].kind = "done" PROVE stack[r].run # c
    BY <1>6, <2>1
  <2>2. CASE p = 1 \/ q = 1
    BY <1>2, <1>3, <1>9, <2>1, <2>2
  <2>3. CASE p # 1 /\ q # 1
    <3>1. PICK r \in 1 .. Len(stack), s \in 1 .. Len(stack) : p = r + 1 /\ q = s + 1
      BY <1>3, <2>3
    <3>2. r = s
      BY <1>2, <1>9, <3>1 DEF StackInv
    <3> QED
      BY <3>1, <3>2
  <2> QED
    BY <2>2, <2>3
<1>10. ASSUME NEW p \in DOMAIN stack', p + 1 \in DOMAIN stack'
       PROVE  IF stack'[p].kind = "done"
              THEN stack'[p + 1].kind = "resolve" /\ stack'[p + 1].run = stack'[p].run
              ELSE stack'[p + 1].kind = "done"
  <2>1. CASE p = 1
    <3>1. 1 \in DOMAIN stack /\ stack'[p + 1] = stack[1]
      BY <1>2, <1>10, <2>1
    <3> QED
      BY <1>2, <2>1, <3>1
  <2>2. ASSUME NEW q \in 1 .. Len(stack), p = q + 1
        PROVE  IF stack'[p].kind = "done"
               THEN stack'[p + 1].kind = "resolve" /\ stack'[p + 1].run = stack'[p].run
               ELSE stack'[p + 1].kind = "done"
    <3>1. q + 1 \in 1 .. Len(stack)
      BY <1>2, <1>10, <2>2
    <3>2. stack'[p] = stack[q] /\ stack'[p + 1] = stack[q + 1]
      BY <1>2, <2>2, <3>1
    <3>3. q \in DOMAIN stack /\ q + 1 \in DOMAIN stack
      BY <1>2, <3>1
    <3>4. IF stack[q].kind = "done"
          THEN stack[q + 1].kind = "resolve" /\ stack[q + 1].run = stack[q].run
          ELSE stack[q + 1].kind = "done"
      BY <3>3 DEF StackInv
    <3> QED
      BY <3>2, <3>4
  <2> QED
    BY <1>3, <2>1, <2>2
<1> QED
  BY <1>5, <1>7, <1>8, <1>9, <1>10 DEF StackInv

\* A function that is on top of the stack returns, when it has called back all.
LEMMA PopKeepsStack ==
  ASSUME Types, StackInv, stack # <<>>, stack' = Tail(stack), UNCHANGED status,
         stack[1].kind = "done" => run'[stack[1].run].stage # "done",
         \A d \in Caller :
            (stack[1].kind = "done" => d # stack[1].run) => (run'[d].stage = "done" <=> run[d].stage = "done")
  PROVE  StackInv' /\ \A p \in DOMAIN stack' : p + 1 \in DOMAIN stack /\ stack'[p] = stack[p + 1]
<1>1. RunTypes
  BY DEF Types
<1>2. /\ Len(stack) \in Nat /\ DOMAIN stack = 1 .. Len(stack) /\ 1 \in DOMAIN stack
      /\ \A p \in DOMAIN stack : stack[p] \in Frame
  BY <1>1, StackFacts
<1>3. /\ DOMAIN stack' = 1 .. Len(stack) - 1
      /\ \A p \in 1 .. Len(stack) - 1 : stack'[p] = stack[p + 1]
  BY <1>1, PopFacts
<1>4. \A p \in DOMAIN stack' : p + 1 \in DOMAIN stack /\ stack'[p] = stack[p + 1] /\ p + 1 # 1
  BY <1>2, <1>3
<1>5. \A p \in DOMAIN stack : stack[p].run \in Caller
  BY <1>2 DEF Frame
\* What is below keeps its state.
<1>6. ASSUME NEW p \in DOMAIN stack, p # 1, stack[p].kind = "done"
      PROVE  stack[1].kind = "done" => stack[p].run # stack[1].run
  BY <1>2, <1>6 DEF StackInv
<1>7. \A p \in DOMAIN stack' : status'[stack'[p].run] # "idle"
  BY <1>4 DEF StackInv
<1>8. \A p \in DOMAIN stack' : stack'[p].kind = "done" => run'[stack'[p].run].stage = "done"
  <2> SUFFICES ASSUME NEW p \in DOMAIN stack', stack'[p].kind = "done"
               PROVE  run'[stack'[p].run].stage = "done"
    OBVIOUS
  <2> DEFINE q == p + 1
  <2>1. q \in DOMAIN stack /\ q # 1 /\ stack'[p] = stack[q]
    BY <1>4
  <2> HIDE DEF q
  <2>2. run[stack[q].run].stage = "done"
    BY <2>1 DEF StackInv
  <2> QED
    BY <1>5, <1>6, <2>1, <2>2
<1>9. ASSUME NEW d \in Caller, run'[d].stage = "done"
      PROVE  \E p \in DOMAIN stack' : stack'[p].kind = "done" /\ stack'[p].run = d
  <2>1. stack[1].kind = "done" => d # stack[1].run
    BY <1>9
  <2>2. run[d].stage = "done"
    BY <1>9, <2>1
  <2>3. PICK p \in DOMAIN stack : stack[p].kind = "done" /\ stack[p].run = d
    BY <2>2 DEF StackInv
  <2>4. p # 1
    BY <2>1, <2>3
  <2>5. p - 1 \in 1 .. Len(stack) - 1 /\ (p - 1) + 1 = p
    BY <1>2, <2>4
  <2> DEFINE q == p - 1
  <2>6. q \in DOMAIN stack' /\ q + 1 = p
    BY <1>3, <2>5
  <2> HIDE DEF q
  <2>7. stack'[q] = stack[p]
    BY <1>4, <2>6
  <2> QED
    BY <2>3, <2>6, <2>7
<1>10. ASSUME NEW p \in DOMAIN stack', NEW q \in DOMAIN stack',
              stack'[p].kind = "done", stack'[q].kind = "done", stack'[p].run = stack'[q].run
       PROVE  p = q
  <2>1. p + 1 = q + 1
    BY <1>4, <1>10 DEF StackInv
  <2> QED
    BY <1>3, <2>1
<1>11. ASSUME NEW p \in DOMAIN stack', p + 1 \in DOMAIN stack'
       PROVE  IF stack'[p].kind = "done"
              THEN stack'[p + 1].kind = "resolve" /\ stack'[p + 1].run = stack'[p].run
              ELSE stack'[p + 1].kind = "done"
  <2> DEFINE q == p + 1
  <2>1. q \in DOMAIN stack /\ q + 1 \in DOMAIN stack /\ stack'[p] = stack[q] /\ stack'[q] = stack[q + 1]
    BY <1>4, <1>11
  <2> HIDE DEF q
  <2>2. IF stack[q].kind = "done"
        THEN stack[q + 1].kind = "resolve" /\ stack[q + 1].run = stack[q].run
        ELSE stack[q + 1].kind = "done"
    BY <2>1 DEF StackInv
  <2>3. IF stack'[p].kind = "done"
        THEN stack'[q].kind = "resolve" /\ stack'[q].run = stack'[p].run
        ELSE stack'[q].kind = "done"
    BY <2>1, <2>2
  <2> QED
    BY <2>3 DEF q
<1>12. StackInv'
  BY <1>7, <1>8, <1>9, <1>10, <1>11 DEF StackInv
<1> QED
  BY <1>4, <1>12

\* The stack stays as it is, but for how far a loop has come.
LEMMA SameStack ==
  ASSUME StackInv, DOMAIN stack' = DOMAIN stack,
         \A p \in DOMAIN stack : stack'[p].kind = stack[p].kind /\ stack'[p].run = stack[p].run,
         \A p \in DOMAIN stack : status'[stack[p].run] # "idle",
         \A d \in Caller : run'[d].stage = "done" <=> run[d].stage = "done",
         \A p \in DOMAIN stack : stack[p].run \in Caller
  PROVE  StackInv'
<1>1. \A p \in DOMAIN stack' : status'[stack'[p].run] # "idle"
  OBVIOUS
<1>2. \A p \in DOMAIN stack' : stack'[p].kind = "done" => run'[stack'[p].run].stage = "done"
  BY DEF StackInv
<1>3. \A c \in Caller : run'[c].stage = "done" =>
          \E p \in DOMAIN stack' : stack'[p].kind = "done" /\ stack'[p].run = c
  BY DEF StackInv
<1>4. \A p, q \in DOMAIN stack' :
         stack'[p].kind = "done" /\ stack'[q].kind = "done" /\ stack'[p].run = stack'[q].run => p = q
  BY DEF StackInv
<1>5. ASSUME NEW p \in DOMAIN stack', p + 1 \in DOMAIN stack'
      PROVE  IF stack'[p].kind = "done"
             THEN stack'[p + 1].kind = "resolve" /\ stack'[p + 1].run = stack'[p].run
             ELSE stack'[p + 1].kind = "done"
  <2> DEFINE q == p + 1
  <2>1. p \in DOMAIN stack /\ q \in DOMAIN stack
    BY <1>5
  <2>2. IF stack[p].kind = "done"
        THEN stack[q].kind = "resolve" /\ stack[q].run = stack[p].run
        ELSE stack[q].kind = "done"
    BY <2>1 DEF StackInv
  <2> HIDE DEF q
  <2>3. IF stack'[p].kind = "done"
        THEN stack'[q].kind = "resolve" /\ stack'[q].run = stack'[p].run
        ELSE stack'[q].kind = "done"
    BY <2>1, <2>2
  <2> QED
    BY <2>3 DEF q
<1> QED
  BY <1>1, <1>2, <1>3, <1>4, <1>5 DEF StackInv

\* There is one request for an identifier that may still ask or store something.
LEMMA OneLeader ==
  ASSUME LeaderInv, NEW c \in Caller, NEW d \in Caller, Busy(c), Busy(d), Wanted(c) = Wanted(d)
  PROVE  c = d
<1>1. (Registered(c) \/ Top("resolve", c)) /\ (Registered(d) \/ Top("resolve", d))
  BY DEF LeaderInv, LeadsInv
<1>2. /\ Top("resolve", c) => active[Wanted(c)] = <<>>
      /\ Top("resolve", d) => active[Wanted(d)] = <<>>
  BY DEF LeaderInv, BeginsInv, Busy
<1>3. CASE Registered(c) /\ Registered(d)
  BY <1>3 DEF Registered
<1>4. CASE Top("resolve", c) /\ Top("resolve", d)
  BY <1>4 DEF Top
<1> QED
  BY <1>1, <1>2, <1>3, <1>4 DEF Registered

\* A request that is under way goes on, or calls back.
LEMMA RequestStep ==
  ASSUME Types, StackInv, LeaderInv, NEW c \in Caller, NEW s \in Stage, NEW e \in Nat,
         Busy(c), Continues(c), Move(c, s, e), UNCHANGED <<active, status, setting>>,
         \/ s \in {"get", "check", "resolve", "snapshot"} /\ stack' = stack
         \/ s = "done" /\ stack' = Push("done", c)
  PROVE  StackInv' /\ LeaderInv' /\ RunTypes'
<1>1. /\ RunTypes /\ active' = active /\ status' = status /\ setting' = setting
      /\ run \in [Caller -> [stage : Stage, entry : Nat]] /\ active \in [Ident -> Seq(Caller)]
      /\ stack \in Seq(Frame)
  BY DEF Types, RunTypes
<1>2. run' = [run EXCEPT ![c] = [stage |-> s, entry |-> e]]
  BY DEF Move
<1>3. run'[c].stage = s /\ \A d \in Caller : d # c => run'[d] = run[d]
  BY <1>1, <1>2
<1>4. run' \in [Caller -> [stage : Stage, entry : Nat]]
  BY <1>1, <1>2
<1>5. /\ stack' = stack \/ (stack' # <<>> /\ stack'[1].kind = "done" /\ stack'[1].run = c)
      /\ stack' \in Seq(Frame)
  BY <1>1, PushFacts
<1>6. RunTypes'
  BY <1>1, <1>4, <1>5 DEF RunTypes
<1>7. /\ \A k, d : Top(k, d) <=> stack # <<>> /\ stack[1].kind = k /\ stack[1].run = d
      /\ stack # <<>> <=> 1 \in DOMAIN stack
      /\ \A p \in DOMAIN stack : stack[p] \in Frame
  BY <1>1, StackFacts
<1>8. run[c].stage # "done" /\ status[c] = "waiting" /\ c \in DOMAIN setting.wants
  <2>1. run[c].stage # "done" /\ run[c].stage # "none"
    BY DEF Busy
  <2> QED
    BY <2>1 DEF LeaderInv, AskedInv, LeadsInv
<1>9. StackInv'
  <2>1. CASE stack' = stack /\ s # "done"
    <3>1. \A p \in DOMAIN stack : stack[p].run \in Caller
      BY <1>7 DEF Frame
    <3>2. \A d \in Caller : run'[d].stage = "done" <=> run[d].stage = "done"
      BY <1>3, <1>8, <2>1
    <3>3. \A p \in DOMAIN stack : status'[stack[p].run] # "idle"
      BY <1>1 DEF StackInv
    <3> QED
      BY <2>1, <3>1, <3>2, <3>3, SameStack
  <2>2. CASE s = "done" /\ stack' = Push("done", c)
    <3>1. stack # <<>> => Top("resolve", c)
      BY DEF Continues
    <3>2. \A d \in Caller : d # c => (run'[d].stage = "done" <=> run[d].stage = "done")
      BY <1>3
    <3>3. run'[c].stage = "done" /\ run[c].stage # "done" /\ status'[c] # "idle"
      BY <1>1, <1>3, <1>8, <2>2
    <3>4. \A d \in Caller : status[d] # "idle" => status'[d] # "idle"
      BY <1>1
    <3> QED
      BY <2>2, <3>1, <3>2, <3>3, <3>4, PushKeepsStack
  <2> QED
    BY <2>1, <2>2
<1>10. \A k, d : Top(k, d)' <=> stack' # <<>> /\ stack'[1].kind = k /\ stack'[1].run = d
  <2>1. stack' \in Seq(Frame) /\ (stack' # <<>> => Head(stack') = stack'[1])
    BY <1>5
  <2> QED
    BY <2>1 DEF Top
<1>11. AskedInv'
  BY <1>1, <1>3, <1>8 DEF LeaderInv, AskedInv
<1>12. ASSUME NEW d \in Caller, Busy(d)'
       PROVE  status'[d] = "waiting" /\ (Registered(d)' \/ Top("resolve", d)')
  <2>0. Registered(d)' <=> Registered(d)
    BY <1>1 DEF Registered, Wanted
  <2>1. CASE d = c
    <3>1. stack' = stack
      BY <1>3, <1>12, <2>1 DEF Busy
    <3>2. Registered(c) \/ Top("resolve", c)
      BY DEF LeaderInv, LeadsInv
    <3> QED
      BY <1>1, <1>7, <1>8, <1>10, <2>0, <2>1, <3>1, <3>2
  <2>2. CASE d # c
    <3>1. Busy(d)
      BY <1>3, <1>12, <2>2 DEF Busy
    <3>2. status[d] = "waiting" /\ (Registered(d) \/ Top("resolve", d))
      BY <3>1 DEF LeaderInv, LeadsInv
    <3>3. ~Top("resolve", d)
      BY <1>7, <2>2 DEF Continues
    <3> QED
      BY <1>1, <2>0, <3>2, <3>3
  <2> QED
    BY <2>1, <2>2
<1>13. ASSUME NEW d \in Caller, Top("resolve", d)'
       PROVE  Busy(d)' /\ active'[Wanted(d)'] = <<>>
  <2>1. stack' = stack /\ Top("resolve", d)
    BY <1>5, <1>7, <1>10, <1>13
  <2>2. d = c
    BY <1>7, <2>1 DEF Continues
  <2>3. active[Wanted(c)] = <<>>
    BY <2>1, <2>2 DEF LeaderInv, BeginsInv, Busy
  <2>4. s \in {"get", "check", "resolve", "snapshot"}
    <3>1. stack' = Push("done", c) => stack'[1].kind = "done"
      BY <1>1, PushFacts
    <3> QED
      BY <1>10, <1>13, <3>1
  <2> QED
    BY <1>1, <1>3, <2>2, <2>3, <2>4 DEF Busy, Wanted
<1>14. JoinedInv'
  BY <1>1 DEF LeaderInv, JoinedInv, Wanted
<1>15. LeadsInv'
  BY <1>12 DEF LeadsInv
<1>16. BeginsInv'
  BY <1>13 DEF BeginsInv
<1> QED
  BY <1>6, <1>9, <1>11, <1>14, <1>15, <1>16 DEF LeaderInv

LEMMA NextTop ==
  ASSUME stack' \in Seq(Frame)
  PROVE  /\ \A k, d : Top(k, d)' <=> stack' # <<>> /\ stack'[1].kind = k /\ stack'[1].run = d
         /\ stack' # <<>> <=> 1 \in DOMAIN stack'
<1>1. stack' # <<>> => Head(stack') = stack'[1]
  OBVIOUS
<1>2. stack' # <<>> <=> 1 \in DOMAIN stack'
  <2>1. /\ stack' = <<>> <=> Len(stack') = 0
        /\ Len(stack') \in Nat /\ DOMAIN stack' = 1 .. Len(stack')
    BY EmptySeq, LenProperties
  <2> QED
    BY <2>1
<1> QED
  BY <1>1, <1>2 DEF Top

\* A request begins, and its function is on top of the stack.
LEMMA LeadStep ==
  ASSUME Types, StackInv, LeaderInv, NEW c \in Caller, NEW s \in {"get", "check", "resolve"}, NEW e \in Nat,
         stack = <<>> \/ InCallback, c \in DOMAIN setting.wants, status[c] = "idle",
         active[Wanted(c)] = <<>>, stack' = Push("resolve", c), Move(c, s, e),
         status' = [status EXCEPT ![c] = "waiting"], UNCHANGED <<active, setting>>
  PROVE  StackInv' /\ LeaderInv' /\ RunTypes'
<1>1. /\ RunTypes /\ active' = active /\ setting' = setting
      /\ run \in [Caller -> [stage : Stage, entry : Nat]] /\ active \in [Ident -> Seq(Caller)]
      /\ status \in [Caller -> {"idle", "waiting", "answered", "again"}]
  BY DEF Types, RunTypes, CallerTypes
<1>2. /\ run' = [run EXCEPT ![c] = [stage |-> s, entry |-> e]]
      /\ run'[c].stage = s /\ \A d \in Caller : d # c => run'[d] = run[d]
      /\ status'[c] = "waiting" /\ \A d \in Caller : d # c => status'[d] = status[d]
  BY <1>1 DEF Move
<1>3. run' \in [Caller -> [stage : Stage, entry : Nat]]
  BY <1>1, <1>2 DEF Stage
<1>4. stack' \in Seq(Frame) /\ stack'[1].kind = "resolve" /\ stack'[1].run = c
  BY <1>1, PushFacts
<1>5. RunTypes'
  BY <1>1, <1>3, <1>4 DEF RunTypes
<1>6. /\ \A k, d : Top(k, d) <=> stack # <<>> /\ stack[1].kind = k /\ stack[1].run = d
      /\ stack # <<>> => stack[1].kind = "done"
  <2>1. stack \in Seq(Frame) /\ (stack # <<>> => Head(stack) = stack[1])
    BY <1>1 DEF RunTypes
  <2> QED
    BY <2>1 DEF Top, InCallback
<1>7. \A k, d : Top(k, d)' => k = "resolve" /\ d = c
  BY <1>4, NextTop
<1>8. run[c].stage # "done"
  <2>1. \A p \in DOMAIN stack : stack[p].run # c
    BY DEF StackInv
  <2> QED
    BY <2>1 DEF StackInv
<1>9. StackInv'
  <2>1. \A d \in Caller : status[d] # "idle" => status'[d] # "idle"
    BY <1>2
  <2>2. \A d \in Caller : d # c => (run'[d].stage = "done" <=> run[d].stage = "done")
    BY <1>2
  <2>3. status'[c] # "idle" /\ (run'[c].stage = "done" <=> "resolve" = "done")
    BY <1>2
  <2> QED
    BY <1>6, <1>8, <2>1, <2>2, <2>3, PushKeepsStack
<1>10. AskedInv'
  BY <1>1, <1>2 DEF LeaderInv, AskedInv
<1>11. ASSUME NEW d \in Caller, Busy(d)'
       PROVE  status'[d] = "waiting" /\ (Registered(d)' \/ Top("resolve", d)')
  <2>1. CASE d = c
    <3>1. Top("resolve", c)'
      BY <1>4, NextTop, PushFacts, <1>1
    <3> QED
      BY <1>2, <2>1, <3>1
  <2>2. CASE d # c
    <3>1. status[d] = "waiting" /\ (Registered(d) \/ Top("resolve", d))
      BY <1>2, <1>11, <2>2 DEF Busy, LeaderInv, LeadsInv
    <3>2. ~Top("resolve", d)
      BY <1>6
    <3> QED
      BY <1>1, <1>2, <2>2, <3>1, <3>2 DEF Registered, Wanted
  <2> QED
    BY <2>1, <2>2
<1>12. ASSUME NEW d \in Caller, Top("resolve", d)' PROVE Busy(d)' /\ active'[Wanted(d)'] = <<>>
  BY <1>1, <1>2, <1>7, <1>12 DEF Busy, Wanted
<1>13. LeadsInv' /\ BeginsInv'
  BY <1>11, <1>12 DEF LeadsInv, BeginsInv
<1>14. JoinedInv'
  BY <1>1 DEF LeaderInv, JoinedInv, Wanted
<1> QED
  BY <1>5, <1>9, <1>10, <1>13, <1>14 DEF LeaderInv

\* Somebody joins.
LEMMA JoinStep ==
  ASSUME Types, StackInv, LeaderInv, NEW c \in Caller, c \in DOMAIN setting.wants, Join(c),
         status' = [status EXCEPT ![c] = "waiting"], UNCHANGED setting
  PROVE  StackInv' /\ LeaderInv' /\ RunTypes'
<1> DEFINE w == Wanted(c)
<1>1. /\ RunTypes /\ run' = run /\ stack' = stack /\ setting' = setting
      /\ active \in [Ident -> Seq(Caller)]
      /\ status \in [Caller -> {"idle", "waiting", "answered", "again"}]
      /\ active[w] # <<>> /\ active' = [active EXCEPT ![w] = Append(@, c)]
      /\ w \in Ident
  <2>1. setting \in Settings
    BY DEF Types, WorldTypes
  <2> QED
    BY <2>1, SettingFacts DEF Types, RunTypes, CallerTypes, Join
<1>2. /\ status'[c] = "waiting" /\ \A d \in Caller : d # c => status'[d] = status[d]
  BY <1>1
<1> HIDE DEF w
<1>3. /\ active' \in [Ident -> Seq(Caller)] /\ active'[w] = Append(active[w], c)
      /\ \A i \in Ident : i # w => active'[i] = active[i]
  <2>1. Append(active[w], c) \in Seq(Caller)
    BY <1>1, AppendProperties
  <2> QED
    BY <1>1, <2>1
<1>4. /\ Len(active[w]) \in Nat /\ DOMAIN active[w] = 1 .. Len(active[w]) /\ 1 \in DOMAIN active[w]
      /\ active'[w] \in Seq(Caller) /\ DOMAIN active'[w] = 1 .. Len(active[w]) + 1
      /\ active'[w][Len(active[w]) + 1] = c
      /\ \A p \in 1 .. Len(active[w]) : active'[w][p] = active[w][p]
  <2>1. active[w] \in Seq(Caller)
    BY <1>1
  <2>2. Len(active[w]) \in Nat /\ DOMAIN active[w] = 1 .. Len(active[w]) /\ Len(active[w]) # 0
    BY <1>1, <2>1, LenProperties, EmptySeq
  <2>3. /\ active'[w] \in Seq(Caller) /\ Len(active'[w]) = Len(active[w]) + 1
        /\ active'[w][Len(active[w]) + 1] = c
        /\ \A p \in 1 .. Len(active[w]) : active'[w][p] = active[w][p]
    BY <1>3, <2>1, AppendProperties
  <2>4. DOMAIN active'[w] = 1 .. Len(active[w]) + 1
    BY <2>3, LenProperties
  <2> QED
    BY <2>2, <2>3, <2>4
<1>5. Head(active'[w]) = Head(active[w]) /\ active'[w] # <<>>
  <2>1. active[w] \in Seq(Caller)
    BY <1>1
  <2>2. active'[w] # <<>>
    BY <1>4, EmptySeq
  <2>3. Head(active[w]) = active[w][1] /\ Head(active'[w]) = active'[w][1]
    BY <1>1, <1>4, <2>1, <2>2
  <2> QED
    BY <1>4, <2>2, <2>3
<1>6. RunTypes'
  BY <1>1, <1>3 DEF RunTypes
<1>7. StackInv'
  <2>1. \A p \in DOMAIN stack : stack[p] \in Frame
    BY <1>1, StackFacts
  <2>2. \A p \in DOMAIN stack : stack[p].run \in Caller
    BY <2>1 DEF Frame
  <2>3. \A p \in DOMAIN stack : status'[stack[p].run] # "idle"
    BY <1>2, <2>2 DEF StackInv
  <2> QED
    BY <1>1, <2>2, <2>3, SameStack
<1>8. AskedInv'
  BY <1>1, <1>2 DEF LeaderInv, AskedInv
<1>9. ASSUME NEW d \in Caller, d \in DOMAIN setting.wants PROVE Wanted(d)' = Wanted(d) /\ Wanted(d) \in Ident
  <2>1. setting \in Settings
    BY DEF Types, WorldTypes
  <2> QED
    BY <1>1, <1>9, <2>1, SettingFacts DEF Wanted
<1>10. ASSUME NEW d \in Caller, Busy(d)'
       PROVE  status'[d] = "waiting" /\ (Registered(d)' \/ Top("resolve", d)')
  <2>1. Busy(d) /\ d \in DOMAIN setting.wants
    BY <1>1, <1>10 DEF Busy, LeaderInv, AskedInv
  <2>2. status[d] = "waiting" /\ (Registered(d) \/ Top("resolve", d))
    BY <2>1 DEF LeaderInv, LeadsInv
  <2>3. Top("resolve", d)' <=> Top("resolve", d)
    BY <1>1 DEF Top
  <2>4. Registered(d) => Registered(d)'
    BY <1>3, <1>5, <1>9, <2>1 DEF Registered
  <2> QED
    BY <1>2, <2>2, <2>3, <2>4
<1>11. ASSUME NEW d \in Caller, Top("resolve", d)'
       PROVE  run'[d].stage = "over" \/ (Busy(d)' /\ active'[Wanted(d)'] = <<>>)
  <2>1. Top("resolve", d)
    BY <1>1, <1>11 DEF Top
  <2>2. run[d].stage = "over" \/ (Busy(d) /\ active[Wanted(d)] = <<>>)
    BY <2>1 DEF LeaderInv, BeginsInv
  <2>3. Busy(d) => d \in DOMAIN setting.wants
    BY DEF Busy, LeaderInv, AskedInv
  <2> QED
    BY <1>1, <1>3, <1>9, <2>2, <2>3 DEF Busy
<1>12. LeadsInv' /\ BeginsInv'
  BY <1>10, <1>11 DEF LeadsInv, BeginsInv
<1>13. JoinedInv'
  <2> SUFFICES ASSUME NEW i \in Ident, NEW p \in DOMAIN active'[i]
               PROVE  active'[i][p] \in DOMAIN setting.wants /\ Wanted(active'[i][p]) = i
    BY <1>1 DEF JoinedInv, Wanted
  <2>1. CASE i # w
    BY <1>3, <2>1 DEF LeaderInv, JoinedInv
  <2>2. CASE i = w /\ p \in DOMAIN active[w]
    BY <1>4, <2>2 DEF LeaderInv, JoinedInv
  <2>3. CASE i = w /\ p = Len(active[w]) + 1
    BY <1>4, <2>3 DEF w
  <2> QED
    BY <1>4, <2>1, <2>2, <2>3
<1> QED
  BY <1>6, <1>7, <1>8, <1>12, <1>13 DEF LeaderInv

\* Who is called back has asked for the same, and is not under way itself.
LEMMA CalledFacts ==
  ASSUME Types, StackInv, LeaderInv, NEW c \in Caller, CallBack(c),
         NEW n, n = Head(stack).next, NEW d, d = Callbacks(c)[n]
  PROVE  /\ run[c].stage = "done" /\ n \in Nat \ {0} /\ n \in DOMAIN Callbacks(c)
         /\ d \in DOMAIN setting.wants /\ d \in Caller /\ Wanted(d) = Wanted(c)
         /\ ~Busy(d)
<1> DEFINE w == Wanted(c)
<1>1. RunTypes /\ setting \in Settings /\ stack \in Seq(Frame)
  BY DEF Types, WorldTypes, RunTypes
<1>2. Top("done", c) /\ n <= Len(Callbacks(c))
  BY DEF CallBack
<1>3. 1 \in DOMAIN stack /\ stack # <<>> /\ stack[1].kind = "done" /\ stack[1].run = c /\ stack[1] \in Frame
  BY <1>1, <1>2, StackFacts
<1>4. run[c].stage = "done"
  BY <1>3 DEF StackInv
<1>5. c \in DOMAIN setting.wants
  BY <1>4 DEF LeaderInv, AskedInv
<1>6. w \in Ident
  BY <1>1, <1>5, SettingFacts
<1>7. n \in Nat \ {0}
  <2>1. Head(stack) = stack[1]
    BY <1>1, <1>3
  <2> QED
    BY <1>3, <2>1 DEF Frame
<1>8. active[w] \in Seq(Caller) /\ <<c>> \in Seq(Caller)
  BY <1>1, <1>6 DEF RunTypes
<1>9. /\ d \in DOMAIN setting.wants /\ Wanted(d) = w /\ (Registered(c) \/ d = c)
      /\ n \in DOMAIN Callbacks(c)
  <2>1. CASE Registered(c)
    <3>1. Callbacks(c) = active[w]
      BY <2>1 DEF Callbacks
    <3>2. Len(active[w]) \in Nat /\ DOMAIN active[w] = 1 .. Len(active[w])
      BY <1>8, LenProperties
    <3>3. n \in DOMAIN active[w]
      BY <1>2, <1>7, <3>1, <3>2
    <3> QED
      BY <1>6, <2>1, <3>1, <3>3 DEF LeaderInv, JoinedInv
  <2>2. CASE ~Registered(c)
    <3>1. Callbacks(c) = <<c>>
      BY <2>2 DEF Callbacks
    <3>2. n = 1
      BY <1>2, <1>7, <3>1
    <3> QED
      BY <1>5, <3>1, <3>2
  <2> QED
    BY <2>1, <2>2
<1>10. d \in Caller
  BY <1>1, <1>9, SettingFacts
<1>11. ASSUME Busy(d) PROVE FALSE
  <2>1. d # c
    BY <1>4, <1>11 DEF Busy
  <2>2. Registered(d) \/ Top("resolve", d)
    BY <1>10, <1>11 DEF LeaderInv, LeadsInv
  <2>3. ~Top("resolve", d)
    BY <1>2 DEF Top
  <2> QED
    BY <1>9, <2>1, <2>2, <2>3 DEF Registered
<1> QED
  BY <1>4, <1>7, <1>9, <1>10, <1>11

\* A caller is called back.
LEMMA CallBackStep ==
  ASSUME Types, StackInv, LeaderInv, NEW c \in Caller, CallBack(c)
  PROVE  StackInv' /\ LeaderInv' /\ RunTypes'
<1> DEFINE n == Head(stack).next
           d == Callbacks(c)[n]
<1>1. /\ Top("done", c) /\ n <= Len(Callbacks(c)) /\ stack' = [stack EXCEPT ![1].next = n + 1]
      /\ status' = [status EXCEPT ![d] = IF @ = "waiting" THEN "answered" ELSE "again"]
      /\ setting' = setting /\ active' = active /\ run' = run
  BY DEF CallBack, world
<1>2. /\ RunTypes /\ stack \in Seq(Frame)
      /\ status \in [Caller -> {"idle", "waiting", "answered", "again"}]
  BY DEF Types, RunTypes, CallerTypes
<1>3. /\ 1 \in DOMAIN stack /\ Len(stack) \in Nat /\ DOMAIN stack = 1 .. Len(stack)
      /\ stack[1].kind = "done" /\ stack[1].run = c
      /\ \A p \in DOMAIN stack : stack[p] \in Frame
  BY <1>1, <1>2, StackFacts
<1>4. /\ run[c].stage = "done" /\ n \in Nat \ {0}
      /\ d \in DOMAIN setting.wants /\ d \in Caller /\ ~Busy(d)
  BY CalledFacts
<1> HIDE DEF n
<1> HIDE DEF d
<1>5. /\ status'[d] # "idle" /\ \A e \in Caller : e # d => status'[e] = status[e]
  BY <1>1, <1>2, <1>4
<1>6. /\ DOMAIN stack' = DOMAIN stack
      /\ \A p \in DOMAIN stack : stack'[p].kind = stack[p].kind /\ stack'[p].run = stack[p].run
      /\ \A p \in DOMAIN stack : stack'[p] \in Frame
  <2>1. DOMAIN stack' = DOMAIN stack
    BY <1>1
  <2>2. ASSUME NEW p \in DOMAIN stack
        PROVE  stack'[p] = IF p = 1 THEN [stack[1] EXCEPT !.next = n + 1] ELSE stack[p]
    BY <1>1, <1>3, <2>2
  <2>3. \A p \in DOMAIN stack : stack'[p] \in Frame
    BY <1>3, <1>4, <2>2 DEF Frame
  <2>4. ASSUME NEW p \in DOMAIN stack
        PROVE  stack'[p].kind = stack[p].kind /\ stack'[p].run = stack[p].run
    <3>1. stack[1] \in Frame
      BY <1>3
    <3> QED
      BY <2>2, <3>1 DEF Frame
  <2> QED
    BY <2>1, <2>3, <2>4
<1>7. stack' \in Seq(Frame)
  <2>1. stack' \in [1 .. Len(stack) -> Frame]
    BY <1>1, <1>3, <1>6
  <2> QED
    BY <1>3, <2>1, IsASeq
<1>8. RunTypes'
  BY <1>1, <1>2, <1>7 DEF RunTypes
<1>9. StackInv'
  <2>1. \A p \in DOMAIN stack : stack[p].run \in Caller
    BY <1>3 DEF Frame
  <2>2. \A p \in DOMAIN stack : status'[stack[p].run] # "idle"
    BY <1>5, <2>1 DEF StackInv
  <2> QED
    BY <1>1, <1>6, <2>1, <2>2, SameStack
<1>10. AskedInv'
  BY <1>1, <1>4, <1>5 DEF LeaderInv, AskedInv
<1>11. ASSUME NEW e \in Caller, Busy(e)'
       PROVE  status'[e] = "waiting" /\ (Registered(e)' \/ Top("resolve", e)')
  <2>1. Busy(e) /\ e # d
    BY <1>1, <1>4, <1>11 DEF Busy
  <2>2. status[e] = "waiting" /\ (Registered(e) \/ Top("resolve", e))
    BY <2>1 DEF LeaderInv, LeadsInv
  <2>3. ~Top("resolve", e)
    BY <1>1 DEF Top
  <2> QED
    BY <1>1, <1>5, <2>1, <2>2, <2>3 DEF Registered, Wanted
<1>12. ASSUME NEW e \in Caller, Top("resolve", e)' PROVE FALSE
  <2>1. stack'[1].kind = "resolve"
    BY <1>7, <1>12, NextTop
  <2> QED
    BY <1>3, <1>6, <2>1
<1>13. LeadsInv' /\ BeginsInv'
  BY <1>11, <1>12 DEF LeadsInv, BeginsInv
<1>14. JoinedInv'
  BY <1>1 DEF LeaderInv, JoinedInv, Wanted
<1> QED
  BY <1>8, <1>9, <1>10, <1>13, <1>14 DEF LeaderInv

\* All have been called back, and nobody joins any more.
LEMMA EndDoneStep ==
  ASSUME Types, StackInv, LeaderInv, NEW c \in Caller, EndDone(c)
  PROVE  StackInv' /\ LeaderInv' /\ RunTypes'
<1>1. /\ Top("done", c) /\ Move(c, "over", Null) /\ stack' = Tail(stack)
      /\ active' = IF Registered(c) THEN [active EXCEPT ![Wanted(c)] = <<>>] ELSE active
      /\ setting' = setting /\ status' = status
  BY DEF EndDone, world
<1>2. /\ RunTypes /\ stack \in Seq(Frame) /\ active \in [Ident -> Seq(Caller)]
      /\ run \in [Caller -> [stage : Stage, entry : Nat]]
  BY DEF Types, RunTypes
<1>3. 1 \in DOMAIN stack /\ stack # <<>> /\ stack[1].kind = "done" /\ stack[1].run = c
  BY <1>1, <1>2, StackFacts
<1>4. /\ run' = [run EXCEPT ![c] = [stage |-> "over", entry |-> Null]]
      /\ run'[c].stage = "over" /\ \A d \in Caller : d # c => run'[d] = run[d]
  BY <1>1, <1>2 DEF Move
<1>5. run' \in [Caller -> [stage : Stage, entry : Nat]]
  BY <1>2, <1>4 DEF Stage, Null
<1>6. run[c].stage = "done" /\ c \in DOMAIN setting.wants
  <2>1. run[c].stage = "done"
    BY <1>3 DEF StackInv
  <2> QED
    BY <2>1 DEF LeaderInv, AskedInv
<1>7. StackInv' /\ \A p \in DOMAIN stack' : p + 1 \in DOMAIN stack /\ stack'[p] = stack[p + 1]
  <2>1. stack[1].kind = "done" => run'[stack[1].run].stage # "done"
    BY <1>3, <1>4
  <2>2. \A d \in Caller :
           (stack[1].kind = "done" => d # stack[1].run) => (run'[d].stage = "done" <=> run[d].stage = "done")
    BY <1>3, <1>4
  <2>3. UNCHANGED status
    BY <1>1
  <2> QED
    BY <1>1, <1>3, <2>1, <2>2, <2>3, PopKeepsStack
<1>8. stack' \in Seq(Frame)
  BY <1>1, <1>2, <1>3, PopFacts
<1>9. \A i \in Ident : active'[i] = active[i] \/ (i = Wanted(c) /\ Registered(c) /\ active'[i] = <<>>)
  BY <1>1, <1>2
<1>10. active' \in [Ident -> Seq(Caller)]
  <2>1. <<>> \in Seq(Caller)
    BY EmptySeq
  <2> QED
    BY <1>1, <1>2, <2>1
<1>11. RunTypes'
  BY <1>5, <1>8, <1>10 DEF RunTypes
<1>12. AskedInv'
  BY <1>1, <1>4, <1>6 DEF LeaderInv, AskedInv
<1>13. ASSUME NEW d \in Caller, Busy(d)'
       PROVE  status'[d] = "waiting" /\ (Registered(d)' \/ Top("resolve", d)')
  <2>1. d # c /\ Busy(d)
    BY <1>4, <1>13 DEF Busy
  <2>2. status[d] = "waiting" /\ (Registered(d) \/ Top("resolve", d)) /\ d \in DOMAIN setting.wants
    BY <2>1 DEF LeaderInv, LeadsInv, AskedInv
  <2>3. ~Top("resolve", d)
    BY <1>1 DEF Top
  <2>4. Wanted(d) \in Ident
    BY <2>2, SettingFacts DEF Types, WorldTypes
  <2>5. Wanted(d) = Wanted(c) => ~Registered(c)
    BY <2>1, <2>2, <2>3 DEF Registered
  <2>6. active'[Wanted(d)] = active[Wanted(d)]
    BY <1>9, <2>4, <2>5
  <2> QED
    BY <1>1, <2>2, <2>3, <2>6 DEF Registered, Wanted
<1>14. ASSUME NEW d \in Caller, Top("resolve", d)' PROVE run'[d].stage = "over"
  <2>1. 1 \in DOMAIN stack' /\ stack'[1].kind = "resolve" /\ stack'[1].run = d
    BY <1>8, <1>14, NextTop
  <2>2. 1 + 1 \in DOMAIN stack /\ stack'[1] = stack[1 + 1]
    BY <1>7, <2>1
  <2>3. stack[1 + 1].run = c
    BY <1>3, <2>2 DEF StackInv
  <2> QED
    BY <1>4, <2>1, <2>2, <2>3
<1>15. LeadsInv' /\ BeginsInv'
  BY <1>13, <1>14 DEF LeadsInv, BeginsInv
<1>16. JoinedInv'
  <2> SUFFICES ASSUME NEW i \in Ident, NEW p \in DOMAIN active'[i]
               PROVE  active'[i][p] \in DOMAIN setting.wants /\ Wanted(active'[i][p]) = i
    BY <1>1 DEF JoinedInv, Wanted
  <2>1. active'[i] = active[i]
    BY <1>9
  <2> QED
    BY <2>1 DEF LeaderInv, JoinedInv
<1> QED
  BY <1>7, <1>11, <1>12, <1>15, <1>16 DEF LeaderInv

\* The function returns that began a request: others may join from now on.
LEMMA ReturnStep ==
  ASSUME Types, StackInv, LeaderInv, NEW c \in Caller, Return(c)
  PROVE  StackInv' /\ LeaderInv' /\ RunTypes'
<1>1. /\ Top("resolve", c) /\ stack' = Tail(stack)
      /\ active' = IF run[c].stage = "over" THEN active ELSE [active EXCEPT ![Wanted(c)] = <<c>>]
      /\ setting' = setting /\ status' = status /\ run' = run
  BY DEF Return, Register, world
<1>2. /\ RunTypes /\ stack \in Seq(Frame) /\ active \in [Ident -> Seq(Caller)]
      /\ run \in [Caller -> [stage : Stage, entry : Nat]]
  BY DEF Types, RunTypes
<1>3. 1 \in DOMAIN stack /\ stack # <<>> /\ stack[1].kind = "resolve" /\ stack[1].run = c
  BY <1>1, <1>2, StackFacts
<1>4. run[c].stage = "over" \/ (Busy(c) /\ active[Wanted(c)] = <<>>)
  BY <1>1 DEF LeaderInv, BeginsInv
<1>5. c \in DOMAIN setting.wants /\ Wanted(c) \in Ident
  <2>1. c \in DOMAIN setting.wants
    BY <1>4 DEF LeaderInv, AskedInv, Busy
  <2> QED
    BY <2>1, SettingFacts DEF Types, WorldTypes
<1>6. StackInv' /\ \A p \in DOMAIN stack' : p + 1 \in DOMAIN stack /\ stack'[p] = stack[p + 1]
  <2>1. stack[1].kind # "done"
    BY <1>3
  <2>2. UNCHANGED status
    BY <1>1
  <2>3. \A d \in Caller : run'[d].stage = "done" <=> run[d].stage = "done"
    BY <1>1
  <2> QED
    BY <1>1, <1>3, <2>1, <2>2, <2>3, PopKeepsStack
<1>7. stack' \in Seq(Frame)
  BY <1>1, <1>2, <1>3, PopFacts
<1>8. \A i \in Ident : \/ active'[i] = active[i]
                       \/ i = Wanted(c) /\ run[c].stage # "over" /\ active'[i] = <<c>>
  BY <1>1, <1>2
<1>9. active' \in [Ident -> Seq(Caller)]
  <2>1. <<c>> \in Seq(Caller)
    OBVIOUS
  <2> QED
    BY <1>1, <1>2, <2>1
<1>10. RunTypes'
  BY <1>1, <1>2, <1>7, <1>9 DEF RunTypes
<1>11. AskedInv'
  BY <1>1 DEF LeaderInv, AskedInv
<1>12. ASSUME NEW d \in Caller, Busy(d)'
       PROVE  status'[d] = "waiting" /\ (Registered(d)' \/ Top("resolve", d)')
  <2>1. Busy(d)
    BY <1>1, <1>12 DEF Busy
  <2>2. status[d] = "waiting" /\ (Registered(d) \/ Top("resolve", d)) /\ d \in DOMAIN setting.wants
    BY <2>1 DEF LeaderInv, LeadsInv, AskedInv, Busy
  <2>3. CASE d = c
    <3>1. active'[Wanted(c)] = <<c>>
      BY <1>1, <1>2, <1>5, <2>1, <2>3 DEF Busy
    <3>2. Registered(c)'
      BY <1>1, <3>1 DEF Registered, Wanted
    <3> QED
      BY <1>1, <2>2, <2>3, <3>2
  <2>4. CASE d # c
    <3>1. Registered(d)
      BY <1>1, <2>2, <2>4 DEF Top
    <3>2. Wanted(d) \in Ident
      BY <2>2, SettingFacts DEF Types, WorldTypes
    <3>3. active'[Wanted(d)] = active[Wanted(d)]
      BY <1>4, <1>8, <3>1, <3>2 DEF Registered
    <3> QED
      BY <1>1, <2>2, <3>1, <3>3 DEF Registered, Wanted
  <2> QED
    BY <2>3, <2>4
<1>13. ASSUME NEW d \in Caller, Top("resolve", d)' PROVE FALSE
  <2>1. 1 \in DOMAIN stack' /\ stack'[1].kind = "resolve"
    BY <1>7, <1>13, NextTop
  <2>2. 1 + 1 \in DOMAIN stack /\ stack'[1] = stack[1 + 1]
    BY <1>6, <2>1
  <2>3. stack[1 + 1].kind = "done"
    BY <1>3, <2>2 DEF StackInv
  <2> QED
    BY <2>1, <2>2, <2>3
<1>14. LeadsInv' /\ BeginsInv'
  BY <1>12, <1>13 DEF LeadsInv, BeginsInv
<1>15. JoinedInv'
  <2> SUFFICES ASSUME NEW i \in Ident, NEW p \in DOMAIN active'[i]
               PROVE  active'[i][p] \in DOMAIN setting.wants /\ Wanted(active'[i][p]) = i
    BY <1>1 DEF JoinedInv, Wanted
  <2>1. CASE active'[i] = active[i]
    BY <2>1 DEF LeaderInv, JoinedInv
  <2>2. CASE i = Wanted(c) /\ active'[i] = <<c>>
    BY <1>5, <2>2
  <2> QED
    BY <1>8, <2>1, <2>2
<1> QED
  BY <1>6, <1>10, <1>11, <1>14, <1>15 DEF LeaderInv

\* The next compilation: requests that are under way go on.
LEMMA BeginStep ==
  ASSUME Types, StackInv, LeaderInv, BeginCompilation
  PROVE  StackInv' /\ LeaderInv' /\ RunTypes' /\ CallerTypes'
<1>1. /\ stack = <<>> /\ stack' = stack /\ active' = active /\ setting' = setting
      /\ status' = [c \in Caller |-> IF status[c] = "waiting" THEN "waiting" ELSE "idle"]
      /\ run' = [c \in Caller |-> IF run[c].stage = "over" THEN Idle ELSE run[c]]
      /\ result' = [c \in Caller |-> 0]
  BY DEF BeginCompilation
<1>2. /\ RunTypes /\ run \in [Caller -> [stage : Stage, entry : Nat]]
  BY DEF Types, RunTypes
<1>3. run' \in [Caller -> [stage : Stage, entry : Nat]]
  <2>1. Idle \in [stage : Stage, entry : Nat]
    BY DEF Idle, Stage, Null
  <2> QED
    BY <1>1, <1>2, <2>1
<1>4. RunTypes' /\ CallerTypes'
  BY <1>1, <1>2, <1>3 DEF RunTypes, CallerTypes
<1>5. /\ \A c \in Caller : run'[c].stage = run[c].stage \/ run'[c].stage = "none"
      /\ \A c \in Caller : status'[c] # "idle" => status'[c] = "waiting" /\ status[c] = "waiting"
      /\ \A c \in Caller : status[c] = "waiting" => status'[c] = "waiting"
      /\ \A c \in Caller : run'[c].stage # "none" => run'[c] = run[c]
  BY <1>1 DEF Idle
<1>6. DOMAIN stack = {}
  BY <1>1
<1>7. StackInv'
  <2>1. \A c \in Caller : run[c].stage # "done"
    BY <1>6 DEF StackInv
  <2>2. \A c \in Caller : run'[c].stage # "done"
    BY <1>5, <2>1
  <2> QED
    BY <1>1, <1>6, <2>2 DEF StackInv
<1>8. AskedInv'
  BY <1>1, <1>5 DEF LeaderInv, AskedInv
<1>9. ASSUME NEW d \in Caller, Busy(d)'
       PROVE  status'[d] = "waiting" /\ (Registered(d)' \/ Top("resolve", d)')
  <2>1. Busy(d)
    BY <1>5, <1>9 DEF Busy
  <2>2. status[d] = "waiting" /\ (Registered(d) \/ Top("resolve", d))
    BY <2>1 DEF LeaderInv, LeadsInv
  <2> QED
    BY <1>1, <1>5, <2>2 DEF Registered, Wanted, Top
<1>10. LeadsInv' /\ BeginsInv'
  BY <1>1, <1>9 DEF LeadsInv, BeginsInv, Top
<1>11. JoinedInv'
  BY <1>1 DEF LeaderInv, JoinedInv, Wanted
<1> QED
  BY <1>4, <1>7, <1>8, <1>10, <1>11 DEF LeaderInv

(***************************************************************************)
(* What the requests get and tell.                                         *)
(***************************************************************************)

\* What FileSystemInfo sees of the files is what they are, or were.
LEMMA LookFacts ==
  ASSUME Types, CurrentInv, NEW i \in Ident, Look(i), UNCHANGED world
  PROVE  /\ WorldTypes' /\ known'[i] \in during[i]
         /\ \A j \in Ident : files'[j] \in during'[j] /\ known'[j] \in during'[j] \cup {0}
<1>1. /\ known' = [known EXCEPT ![i] = IF @ = 0 THEN files[i] ELSE @]
      /\ setting' = setting /\ files' = files /\ during' = during
  BY DEF Look, world
<1>2. /\ setting \in Settings /\ files \in [Ident -> Nat] /\ during \in [Ident -> SUBSET Nat]
      /\ known \in [Ident -> Nat]
  BY DEF Types, WorldTypes
<1>3. \A j \in Ident : files[j] \in during[j] /\ known[j] \in during[j] \cup {0}
  BY DEF CurrentInv
<1>4. /\ known'[i] = IF known[i] = 0 THEN files[i] ELSE known[i]
      /\ \A j \in Ident : j # i => known'[j] = known[j]
      /\ known' \in [Ident -> Nat]
  BY <1>1, <1>2
<1>5. known'[i] \in during[i]
  BY <1>3, <1>4
<1>6. WorldTypes'
  BY <1>1, <1>2, <1>4 DEF WorldTypes
<1> QED
  BY <1>1, <1>3, <1>4, <1>5, <1>6

\* A request that is going to tell something has it from this compilation.
LEMMA MoveKeepsCurrent ==
  ASSUME Types, CurrentInv, NEW c \in Caller, NEW s \in Stage, NEW e \in Nat, Move(c, s, e),
         ~setting.early /\ s \in {"snapshot", "done"} => e \in during[Wanted(c)] \cup {0},
         \A d \in Caller : status'[d] = "answered" => status[d] = "answered",
         UNCHANGED <<world, result>>,
         known' = known \/ (\E i \in Ident : Look(i))
  PROVE  CurrentInv' /\ WorldTypes'
<1>1. /\ setting' = setting /\ files' = files /\ during' = during /\ result' = result
      /\ run \in [Caller -> [stage : Stage, entry : Nat]] /\ WorldTypes
      /\ \A i \in Ident : files[i] \in during[i] /\ known[i] \in during[i] \cup {0}
  BY DEF Types, RunTypes, world, CurrentInv
<1>2. /\ run'[c].stage = s /\ run'[c].entry = e /\ \A d \in Caller : d # c => run'[d] = run[d]
  BY <1>1 DEF Move
<1>3. WorldTypes' /\ \A i \in Ident : files'[i] \in during'[i] /\ known'[i] \in during'[i] \cup {0}
  <2>1. CASE known' = known
    BY <1>1, <2>1 DEF WorldTypes
  <2>2. CASE \E i \in Ident : Look(i)
    BY <2>2, LookFacts
  <2> QED
    BY <2>1, <2>2
<1>4. ASSUME ~setting.early, NEW d \in Caller, run'[d].stage \in {"snapshot", "done"}
      PROVE  run'[d].entry \in during[Wanted(d)] \cup {0}
  <2>1. CASE d = c
    BY <1>2, <1>4, <2>1
  <2>2. CASE d # c
    BY <1>2, <1>4, <2>2 DEF CurrentInv
  <2> QED
    BY <2>1, <2>2
<1>5. ASSUME ~setting.early, NEW d \in Caller, status'[d] = "answered", result'[d] # 0
      PROVE  result'[d] \in during[Wanted(d)]
  BY <1>1, <1>5 DEF CurrentInv
<1>6. CurrentInv'
  <2>1. \A d : Wanted(d)' = Wanted(d)
    BY <1>1 DEF Wanted
  <2> QED
    BY <1>1, <1>3, <1>4, <1>5, <2>1 DEF CurrentInv
<1> QED
  BY <1>3, <1>6

\* A request that does not ask the disk leaves what others have asked it.
LEMMA MoveKeepsDisk ==
  ASSUME Types, DiskInv, NEW c \in Caller, NEW s \in Stage, NEW e, Move(c, s, e),
         s = "get" => setting.disk /\ e = disk[Wanted(c)],
         UNCHANGED <<setting, disk>>, setting.disk => latest' = latest
  PROVE  DiskInv'
<1>1. run \in [Caller -> [stage : Stage, entry : Nat]] /\ setting' = setting /\ disk' = disk
  BY DEF Types, RunTypes
<1>2. /\ run'[c].stage = s /\ run'[c].entry = e /\ \A d \in Caller : d # c => run'[d] = run[d]
  BY <1>1 DEF Move
<1>3. ASSUME NEW d \in Caller, run'[d].stage = "get" PROVE setting.disk /\ run'[d].entry = disk[Wanted(d)]
  <2>1. CASE d = c
    BY <1>2, <1>3, <2>1
  <2>2. CASE d # c
    BY <1>2, <1>3, <2>2 DEF DiskInv
  <2> QED
    BY <2>1, <2>2
<1>4. setting.disk => disk = latest
  BY DEF DiskInv
<1> QED
  BY <1>1, <1>3, <1>4 DEF DiskInv, Wanted

\* What a request is looking for is an identifier.
LEMMA BusyFacts ==
  ASSUME Types, LeaderInv, NEW c \in Caller, Busy(c)
  PROVE  Wanted(c) \in Ident /\ run[c].entry \in Nat /\ status[c] = "waiting" /\ c \in DOMAIN setting.wants
<1>1. setting \in Settings /\ run \in [Caller -> [stage : Stage, entry : Nat]]
  BY DEF Types, WorldTypes, RunTypes
<1>2. c \in DOMAIN setting.wants /\ status[c] = "waiting"
  BY DEF LeaderInv, LeadsInv, AskedInv, Busy
<1> QED
  BY <1>1, <1>2, SettingFacts

LEMMA RestoreInv ==
  ASSUME IInv, NEW c \in Caller, Restore(c)
  PROVE  IInv'
<1> DEFINE w == Wanted(c)
<1>0. Types /\ StackInv /\ LeaderInv /\ MapInv /\ DiskInv /\ CurrentInv
  BY DEF IInv
<1>1. /\ stack = <<>> /\ run[c].stage = "get" /\ stack' = stack
      /\ UNCHANGED world /\ known' = known /\ oldCache' = oldCache /\ disk' = disk /\ latest' = latest
      /\ active' = active /\ status' = status /\ result' = result /\ setting' = setting
  BY DEF Restore, world
<1>2. PICK e \in {run[c].entry, disk[w]} : Keep(w, e) /\ Process(c, e)
  BY DEF Restore
<1>3. Busy(c) /\ Continues(c)
  BY <1>1 DEF Busy, Continues
<1>4. w \in Ident
  BY <1>0, <1>3, BusyFacts
<1>5. disk \in [Ident -> Nat] /\ latest \in [Ident -> Nat]
  BY <1>0 DEF Types, StoreTypes
<1>6. e = latest[w] /\ e \in Nat
  <2>1. setting.disk /\ run[c].entry = disk[w]
    BY <1>0, <1>1 DEF DiskInv
  <2>2. disk = latest
    BY <1>0, <2>1 DEF DiskInv
  <2> QED
    BY <1>2, <1>4, <1>5, <2>1, <2>2
<1>7. PICK s \in {"resolve", "check"} : Move(c, s, e)
  BY <1>2 DEF Process
<1>8. s \in Stage /\ s \in {"get", "check", "resolve", "snapshot"} /\ s \notin {"get", "snapshot", "done"}
  BY DEF Stage
<1> HIDE DEF w
<1>9. StackInv' /\ LeaderInv' /\ RunTypes'
  <2>1. UNCHANGED <<active, status, setting>>
    BY <1>1
  <2> QED
    BY <1>0, <1>1, <1>3, <1>6, <1>7, <1>8, <2>1, RequestStep
<1>10. MapInv' /\ MemoryTypes' /\ used' \in [Ident -> Never .. setting.last]
  <2>1. latest' = [latest EXCEPT ![w] = e]
    BY <1>1, <1>4, <1>5, <1>6
  <2>2. UNCHANGED setting
    BY <1>1
  <2> QED
    BY <1>0, <1>1, <1>2, <1>4, <1>6, <2>1, <2>2, KeepStep
<1>11. StoreTypes'
  BY <1>1, <1>5, <1>10 DEF StoreTypes
<1>12. CallerTypes'
  BY <1>0, <1>1 DEF Types, CallerTypes
<1>13. DiskInv'
  <2>1. UNCHANGED <<setting, disk>>
    BY <1>1
  <2> QED
    BY <1>0, <1>1, <1>7, <1>8, <2>1, MoveKeepsDisk
<1>14. CurrentInv' /\ WorldTypes'
  <2>1. UNCHANGED <<world, result>>
    BY <1>1
  <2>2. \A d \in Caller : status'[d] = "answered" => status[d] = "answered"
    BY <1>1
  <2> QED
    BY <1>0, <1>1, <1>6, <1>7, <1>8, <2>1, <2>2, MoveKeepsCurrent
<1> QED
  BY <1>9, <1>10, <1>11, <1>12, <1>13, <1>14 DEF IInv, Types

LEMMA SameMemory ==
  ASSUME Types, MapInv, UNCHANGED <<memory, latest, used, setting>>
  PROVE  MapInv' /\ MemoryTypes'
<1>1. /\ cache' = cache /\ oldCache' = oldCache /\ generation' = generation /\ position' = position
      /\ latest' = latest /\ used' = used /\ setting' = setting
  BY DEF memory
<1>2. MemoryTypes'
  BY <1>1 DEF Types, MemoryTypes
<1>3. \A i \in Ident : Held(i)' = Held(i)
  BY <1>1 DEF Held
<1>4. MapInv'
  BY <1>1, <1>3 DEF MapInv
<1> QED
  BY <1>2, <1>4

\* A request that asks FileSystemInfo or the resolver.
LEMMA AskStep ==
  ASSUME IInv, NEW c \in Caller, NEW s \in {"resolve", "snapshot", "done"}, NEW e \in Nat,
         Busy(c), Continues(c), Move(c, s, e),
         (s # "done" /\ stack' = stack) \/ (s = "done" /\ stack' = Push("done", c)),
         ~setting.early /\ s # "resolve" => e \in during[Wanted(c)] \cup {0},
         known' = known \/ (\E i \in Ident : Look(i)),
         UNCHANGED <<world, memory, store, active, status, result>>
  PROVE  IInv'
<1>0. Types /\ StackInv /\ LeaderInv /\ MapInv /\ DiskInv /\ CurrentInv
  BY DEF IInv
<1>1. /\ UNCHANGED world /\ setting' = setting /\ UNCHANGED memory /\ disk' = disk /\ latest' = latest
      /\ used' = used /\ active' = active /\ status' = status /\ result' = result
  BY DEF world, store
<1>2. s \in Stage /\ s # "get" /\ (s # "done" => s \in {"get", "check", "resolve", "snapshot"})
  BY DEF Stage
<1>3. StackInv' /\ LeaderInv' /\ RunTypes'
  <2>1. UNCHANGED <<active, status, setting>>
    BY <1>1
  <2>2. \/ s \in {"get", "check", "resolve", "snapshot"} /\ stack' = stack
        \/ s = "done" /\ stack' = Push("done", c)
    BY <1>2
  <2> QED
    BY <1>0, <1>2, <2>1, <2>2, RequestStep
<1>4. MapInv' /\ MemoryTypes'
  <2>1. UNCHANGED <<memory, latest, used, setting>>
    BY <1>1
  <2> QED
    BY <1>0, <2>1, SameMemory
<1>5. StoreTypes' /\ CallerTypes'
  BY <1>0, <1>1 DEF Types, StoreTypes, CallerTypes
<1>6. DiskInv'
  <2>1. UNCHANGED <<setting, disk>>
    BY <1>1
  <2> QED
    BY <1>0, <1>1, <1>2, <2>1, MoveKeepsDisk
<1>7. CurrentInv' /\ WorldTypes'
  <2>1. UNCHANGED <<world, result>>
    BY <1>1
  <2>2. \A d \in Caller : status'[d] = "answered" => status[d] = "answered"
    BY <1>1
  <2> QED
    BY <1>0, <1>2, <2>1, <2>2, MoveKeepsCurrent
<1> QED
  BY <1>3, <1>4, <1>5, <1>6, <1>7 DEF IInv, Types

LEMMA CheckSnapshotInv ==
  ASSUME IInv, NEW c \in Caller, CheckSnapshot(c)
  PROVE  IInv'
<1> DEFINE w == Wanted(c)
<1>0. Types /\ LeaderInv /\ CurrentInv
  BY DEF IInv
<1>1. /\ Continues(c) /\ run[c].stage = "check" /\ Look(w)
      /\ UNCHANGED <<world, memory, store, active, status, result>> /\ UNCHANGED world
      /\ \/ Valid(w, run[c].entry) /\ Done(c, run[c].entry)
         \/ Move(c, "resolve", Null) /\ UNCHANGED stack
  BY DEF CheckSnapshot, world
<1>2. Busy(c)
  BY <1>1 DEF Busy
<1>3. w \in Ident /\ run[c].entry \in Nat
  BY <1>0, <1>2, BusyFacts
<1>4. known'[w] \in during[w] /\ \E i \in Ident : Look(i)
  BY <1>0, <1>1, <1>3, LookFacts
<1>5. CASE Valid(w, run[c].entry) /\ Done(c, run[c].entry)
  <2>1. Move(c, "done", run[c].entry) /\ stack' = Push("done", c) /\ run[c].entry \in during[w] \cup {0}
    BY <1>4, <1>5 DEF Done, Valid
  <2> QED
    BY <1>1, <1>2, <1>3, <1>4, <2>1, AskStep
<1>6. CASE Move(c, "resolve", Null) /\ UNCHANGED stack
  <2>1. Move(c, "resolve", 0) /\ stack' = stack
    BY <1>6 DEF Null
  <2> QED
    BY <1>1, <1>2, <1>4, <2>1, AskStep
<1> QED
  BY <1>1, <1>5, <1>6

LEMMA RealResolveInv ==
  ASSUME IInv, NEW c \in Caller, RealResolve(c)
  PROVE  IInv'
<1> DEFINE w == Wanted(c)
<1>0. Types /\ LeaderInv
  BY DEF IInv
<1>1. /\ Continues(c) /\ run[c].stage = "resolve" /\ known' = known
      /\ UNCHANGED <<world, memory, store, active, status, result>>
      /\ \/ \E v \in during[w] : Move(c, "snapshot", v) /\ UNCHANGED stack
         \/ Done(c, 0)
  BY DEF RealResolve, world, memory, store
<1>2. Busy(c)
  BY <1>1 DEF Busy
<1>3. w \in Ident
  BY <1>0, <1>2, BusyFacts
<1>4. CASE \E v \in during[w] : Move(c, "snapshot", v) /\ UNCHANGED stack
  <2>1. PICK v \in during[w] : Move(c, "snapshot", v) /\ stack' = stack
    BY <1>4
  <2>2. v \in Nat
    BY <1>0, <1>3 DEF Types, WorldTypes
  <2> QED
    BY <1>1, <1>2, <2>1, <2>2, AskStep
<1>5. CASE Done(c, 0)
  <2>1. Move(c, "done", 0) /\ stack' = Push("done", c)
    BY <1>5 DEF Done
  <2> QED
    BY <1>1, <1>2, <2>1, AskStep
<1> QED
  BY <1>1, <1>4, <1>5

LEMMA SnapshotAndStoreInv ==
  ASSUME IInv, NEW c \in Caller, SnapshotAndStore(c)
  PROVE  IInv'
<1> DEFINE w == Wanted(c)
           e == run[c].entry
<1>0. Types /\ StackInv /\ LeaderInv /\ MapInv /\ DiskInv /\ CurrentInv
  BY DEF IInv
<1>1. /\ Continues(c) /\ run[c].stage = "snapshot" /\ Look(w) /\ UNCHANGED world /\ setting' = setting
      /\ active' = active /\ status' = status /\ result' = result
      /\ StoreEntry(w, e) \/ UNCHANGED <<memory, store>>
  BY DEF SnapshotAndStore, world
<1>2. PICK v \in {e, 0} : Done(c, v)
  BY DEF SnapshotAndStore
<1>3. Move(c, "done", v) /\ stack' = Push("done", c)
  BY <1>2 DEF Done
<1>4. Busy(c)
  BY <1>1 DEF Busy
<1>5. w \in Ident /\ e \in Nat /\ (~setting.early => e \in during[w] \cup {0})
  <2>1. w \in Ident /\ e \in Nat
    BY <1>0, <1>4, BusyFacts
  <2>2. ~setting.early => e \in during[w] \cup {0}
    BY <1>0, <1>1 DEF CurrentInv
  <2> QED
    BY <2>1, <2>2
<1> HIDE DEF w, e
<1>6. v \in Nat /\ (~setting.early => v \in during[w] \cup {0})
  BY <1>2, <1>5
<1>7. UNCHANGED <<active, status, setting>> /\ UNCHANGED <<world, result>> /\ "done" \in Stage
  BY <1>1 DEF Stage
<1>8. StackInv' /\ LeaderInv' /\ RunTypes'
  BY <1>0, <1>1, <1>3, <1>4, <1>6, <1>7, RequestStep
<1>9. CurrentInv' /\ WorldTypes'
  <2>1. \A d \in Caller : status'[d] = "answered" => status[d] = "answered"
    BY <1>1
  <2>2. \E i \in Ident : Look(i)
    BY <1>1, <1>5
  <2>3. ~setting.early => v \in during[Wanted(c)] \cup {0}
    BY <1>6 DEF w
  <2> QED
    BY <1>0, <1>3, <1>6, <1>7, <2>1, <2>2, <2>3, MoveKeepsCurrent
<1>10. CallerTypes'
  BY <1>0, <1>1 DEF Types, CallerTypes
<1>11. CASE UNCHANGED <<memory, store>>
  <2>1. UNCHANGED <<memory, latest, used, setting>> /\ UNCHANGED <<setting, disk>> /\ latest' = latest
        /\ disk' = disk /\ used' = used
    BY <1>1, <1>11 DEF store
  <2>2. MapInv' /\ MemoryTypes'
    BY <1>0, <2>1, SameMemory
  <2>3. DiskInv'
    BY <1>0, <1>3, <1>7, <2>1, MoveKeepsDisk
  <2>4. StoreTypes'
    BY <1>0, <1>1, <2>1 DEF Types, StoreTypes
  <2> QED
    BY <1>8, <1>9, <1>10, <2>2, <2>3, <2>4 DEF IInv, Types
<1>12. CASE StoreEntry(w, e)
  <2>1. /\ Keep(w, e) /\ oldCache' = oldCache /\ latest' = [latest EXCEPT ![w] = e]
        /\ disk' = IF setting.disk THEN [disk EXCEPT ![w] = e] ELSE disk
    BY <1>12 DEF StoreEntry
  <2>2. MapInv' /\ MemoryTypes' /\ used' \in [Ident -> Never .. setting.last] /\ latest' \in [Ident -> Nat]
    <3>1. UNCHANGED setting
      BY <1>1
    <3> QED
      BY <1>0, <1>5, <2>1, <3>1, KeepStep
  <2>3. disk \in [Ident -> Nat] /\ run \in [Caller -> [stage : Stage, entry : Nat]]
        /\ latest \in [Ident -> Nat]
    BY <1>0 DEF Types, StoreTypes, RunTypes
  <2>4. StoreTypes'
    BY <1>1, <1>5, <2>1, <2>2, <2>3 DEF StoreTypes
  <2>5. setting.disk => disk' = latest'
    BY <1>0, <2>1 DEF DiskInv
  <2>6. ASSUME NEW d \in Caller, run'[d].stage = "get"
        PROVE  setting.disk /\ run'[d].entry = disk'[Wanted(d)]
    <3>1. run' = [run EXCEPT ![c] = [stage |-> "done", entry |-> v]]
      BY <1>3 DEF Move
    <3>2. d # c /\ run'[d] = run[d]
      BY <2>3, <2>6, <3>1
    <3>3. run[d].stage = "get" /\ Busy(d)
      BY <2>6, <3>2 DEF Busy
    <3>4. Wanted(d) # w /\ Wanted(d) \in Ident
      BY <1>0, <1>4, <3>2, <3>3, OneLeader, BusyFacts DEF w
    <3>5. disk'[Wanted(d)] = disk[Wanted(d)]
      BY <2>1, <2>3, <3>4
    <3> QED
      BY <1>0, <3>2, <3>3, <3>5 DEF DiskInv
  <2>7. DiskInv'
    BY <1>1, <2>5, <2>6 DEF DiskInv, Wanted
  <2> QED
    BY <1>8, <1>9, <1>10, <2>2, <2>4, <2>7 DEF IInv, Types
<1> QED
  BY <1>1, <1>11, <1>12

LEMMA LeadInv ==
  ASSUME IInv, NEW c \in Caller, stack = <<>> \/ InCallback, c \in DOMAIN setting.wants,
         status[c] = "idle", Lead(c), status' = [status EXCEPT ![c] = "waiting"],
         UNCHANGED <<world, known, disk, result>>
  PROVE  IInv'
<1> DEFINE w == Wanted(c)
           held == Held(w)
<1>0. Types /\ StackInv /\ LeaderInv /\ MapInv /\ DiskInv /\ CurrentInv
  BY DEF IInv
<1>1. /\ active[w] = <<>> /\ stack' = Push("resolve", c) /\ active' = active
      /\ UNCHANGED world /\ setting' = setting /\ known' = known /\ disk' = disk /\ result' = result
      /\ disk \in [Ident -> Nat] /\ latest \in [Ident -> Nat] /\ used \in [Ident -> Never .. setting.last]
      /\ setting \in Settings
  BY <1>0 DEF Lead, world, Types, StoreTypes, WorldTypes
<1>2. w \in Ident
  BY <1>1, SettingFacts
<1>3. /\ status' \in [Caller -> {"idle", "waiting", "answered", "again"}]
      /\ \A d \in Caller : status'[d] = "answered" => status[d] = "answered"
  BY <1>0 DEF Types, CallerTypes
<1>4. CallerTypes'
  BY <1>0, <1>1, <1>3 DEF Types, CallerTypes
\* Whatever the memory has.
<1>5. ASSUME NEW s \in {"get", "check", "resolve"}, NEW e \in Nat, Move(c, s, e),
             s = "get" => setting.disk /\ e = disk[w],
             setting.disk => latest' = latest,
             MapInv', MemoryTypes', used' \in [Ident -> Never .. setting.last], latest' \in [Ident -> Nat]
      PROVE  IInv'
  <2>0. s \in Stage /\ s \notin {"snapshot", "done"}
    BY DEF Stage
  <2>1. UNCHANGED <<active, setting>> /\ UNCHANGED <<setting, disk>> /\ UNCHANGED <<world, result>>
    BY <1>1
  <2>2. StackInv' /\ LeaderInv' /\ RunTypes'
    BY <1>0, <1>1, <1>5, <2>1, LeadStep
  <2>3. DiskInv'
    BY <1>0, <1>5, <2>0, <2>1, MoveKeepsDisk
  <2>4. CurrentInv' /\ WorldTypes'
    BY <1>0, <1>1, <1>3, <1>5, <2>0, <2>1, MoveKeepsCurrent
  <2>5. StoreTypes'
    BY <1>1, <1>5 DEF StoreTypes
  <2> QED
    BY <1>4, <1>5, <2>2, <2>3, <2>4, <2>5 DEF IInv, Types
<1>6. held \in Nat \cup {Undefined} /\ (held # Undefined => latest = [latest EXCEPT ![w] = held])
  BY <1>0, <1>2, HeldFacts
<1>7. UNCHANGED setting
  BY <1>1
<1>8. \/ /\ held # Undefined /\ Keep(w, held) /\ Process(c, held)
         /\ oldCache' = oldCache \/ oldCache' = Without(oldCache, {w})
         /\ latest' = latest
      \/ /\ held = Undefined /\ ~setting.disk /\ Keep(w, Null) /\ Process(c, Null)
         /\ latest' = [latest EXCEPT ![w] = Null] /\ oldCache' = oldCache
      \/ /\ held = Undefined /\ setting.disk /\ Move(c, "get", disk[w])
         /\ UNCHANGED <<memory, used, latest>>
  BY DEF Lead, Get
<1> HIDE DEF w, held
<1>9. ASSUME held # Undefined, Keep(w, held), Process(c, held), latest' = latest,
             oldCache' = oldCache \/ oldCache' = Without(oldCache, {w})
      PROVE  IInv'
  <2>1. held \in Nat /\ latest' = [latest EXCEPT ![w] = held]
    BY <1>6, <1>9
  <2>2. MapInv' /\ MemoryTypes' /\ used' \in [Ident -> Never .. setting.last] /\ latest' \in [Ident -> Nat]
    BY <1>0, <1>2, <1>7, <1>9, <2>1, KeepStep
  <2>3. PICK s \in {"check", "resolve"} : Move(c, s, held)
    BY <1>9 DEF Process
  <2> QED
    BY <1>5, <1>9, <2>1, <2>2, <2>3
<1>10. ASSUME ~setting.disk, Keep(w, Null), Process(c, Null),
              latest' = [latest EXCEPT ![w] = Null], oldCache' = oldCache
       PROVE  IInv'
  <2>1. Null \in Nat
    BY DEF Null
  <2>2. MapInv' /\ MemoryTypes' /\ used' \in [Ident -> Never .. setting.last] /\ latest' \in [Ident -> Nat]
    BY <1>0, <1>2, <1>7, <1>10, <2>1, KeepStep
  <2>3. Move(c, "resolve", Null)
    BY <1>10 DEF Process
  <2> QED
    BY <1>5, <1>10, <2>1, <2>2, <2>3
<1>11. ASSUME setting.disk, Move(c, "get", disk[w]), UNCHANGED <<memory, used, latest>>
       PROVE  IInv'
  <2>1. disk[w] \in Nat
    BY <1>1, <1>2
  <2>2. UNCHANGED <<memory, latest, used, setting>> /\ latest' = latest /\ used' = used
    BY <1>1, <1>11
  <2>3. MapInv' /\ MemoryTypes'
    BY <1>0, <2>2, SameMemory
  <2> QED
    BY <1>1, <1>5, <1>11, <2>1, <2>2, <2>3
<1> QED
  BY <1>8, <1>9, <1>10, <1>11

LEMMA ResolveInv ==
  ASSUME IInv, NEW c \in Caller, Resolve(c)
  PROVE  IInv'
<1>0. Types /\ StackInv /\ LeaderInv /\ MapInv /\ DiskInv /\ CurrentInv
  BY DEF IInv
<1>1. /\ stack = <<>> \/ InCallback
      /\ c \in DOMAIN setting.wants /\ status[c] = "idle"
      /\ status' = [status EXCEPT ![c] = "waiting"]
      /\ Join(c) \/ Lead(c)
      /\ UNCHANGED <<world, known, disk, result>>
  BY DEF Resolve
<1>2. CASE Lead(c)
  BY <1>1, <1>2, LeadInv
<1>3. CASE Join(c)
  <2>1. /\ setting' = setting /\ files' = files /\ during' = during /\ known' = known /\ disk' = disk
        /\ result' = result /\ UNCHANGED memory /\ used' = used /\ latest' = latest /\ run' = run
    BY <1>1, <1>3 DEF Join, world
  <2>2. StackInv' /\ LeaderInv' /\ RunTypes'
    <3>1. UNCHANGED setting
      BY <2>1
    <3> QED
      BY <1>0, <1>1, <1>3, <3>1, JoinStep
  <2>3. MapInv' /\ MemoryTypes'
    <3>1. UNCHANGED <<memory, latest, used, setting>>
      BY <2>1
    <3> QED
      BY <1>0, <3>1, SameMemory
  <2>4. WorldTypes' /\ StoreTypes'
    BY <1>0, <2>1 DEF Types, WorldTypes, StoreTypes
  <2>5. /\ status' \in [Caller -> {"idle", "waiting", "answered", "again"}]
        /\ \A d \in Caller : status'[d] = "answered" => status[d] = "answered"
    BY <1>0, <1>1 DEF Types, CallerTypes
  <2>6. CallerTypes'
    BY <1>0, <2>1, <2>5 DEF Types, CallerTypes
  <2>7. DiskInv'
    BY <1>0, <2>1 DEF DiskInv, Wanted
  <2>8. CurrentInv'
    BY <1>0, <2>1, <2>5 DEF CurrentInv, Wanted
  <2> QED
    BY <2>2, <2>3, <2>4, <2>6, <2>7, <2>8 DEF IInv, Types
<1> QED
  BY <1>1, <1>2, <1>3

\* An action of the loops, which touches neither the files nor what is stored.
LEMMA LoopStep ==
  ASSUME IInv, StackInv', LeaderInv', RunTypes', CallerTypes',
         UNCHANGED <<world, known, memory, store>>,
         \A d \in Caller : run'[d].stage \in {"get", "snapshot", "done"} => run'[d] = run[d],
         \A d \in Caller : ~setting.early /\ status'[d] = "answered" /\ result'[d] # 0 =>
            result'[d] \in during[Wanted(d)]
  PROVE  IInv'
<1>0. Types /\ MapInv /\ DiskInv /\ CurrentInv
  BY DEF IInv
<1>1. /\ setting' = setting /\ files' = files /\ during' = during /\ known' = known
      /\ disk' = disk /\ latest' = latest /\ used' = used
  BY DEF world, store
<1>2. MapInv' /\ MemoryTypes'
  <2>1. UNCHANGED <<memory, latest, used, setting>>
    BY <1>1
  <2> QED
    BY <1>0, <2>1, SameMemory
<1>3. WorldTypes' /\ StoreTypes'
  BY <1>0, <1>1 DEF Types, WorldTypes, StoreTypes
<1>4. \A d : Wanted(d)' = Wanted(d)
  BY <1>1 DEF Wanted
<1>5. DiskInv'
  <2>1. setting.disk => disk = latest
    BY <1>0 DEF DiskInv
  <2>2. \A d \in Caller : run'[d].stage = "get" => setting.disk /\ run'[d].entry = disk[Wanted(d)]
    BY <1>0 DEF DiskInv
  <2> QED
    BY <1>1, <1>4, <2>1, <2>2 DEF DiskInv
<1>6. CurrentInv'
  <2>1. \A i \in Ident : files[i] \in during[i] /\ known[i] \in during[i] \cup {0}
    BY <1>0 DEF CurrentInv
  <2>2. ASSUME ~setting.early, NEW d \in Caller, run'[d].stage \in {"snapshot", "done"}
        PROVE  run'[d].entry \in during[Wanted(d)] \cup {0}
    BY <1>0, <2>2 DEF CurrentInv
  <2> QED
    BY <1>1, <1>4, <2>1, <2>2 DEF CurrentInv
<1> QED
  BY <1>2, <1>3, <1>5, <1>6 DEF IInv, Types

LEMMA CallBackInv ==
  ASSUME IInv, NEW c \in Caller, CallBack(c)
  PROVE  IInv'
<1> DEFINE n == Head(stack).next
           d == Callbacks(c)[n]
<1>0. Types /\ StackInv /\ LeaderInv /\ CurrentInv
  BY DEF IInv
<1>1. /\ Top("done", c) /\ n <= Len(Callbacks(c))
      /\ status' = [status EXCEPT ![d] = IF @ = "waiting" THEN "answered" ELSE "again"]
      /\ result' = [result EXCEPT ![d] = run[c].entry]
      /\ UNCHANGED <<world, known, memory, store>> /\ run' = run
  BY DEF CallBack, memory, store
<1>2. StackInv' /\ LeaderInv' /\ RunTypes'
  BY <1>0, CallBackStep
<1>3. /\ status \in [Caller -> {"idle", "waiting", "answered", "again"}] /\ result \in [Caller -> Nat]
      /\ run \in [Caller -> [stage : Stage, entry : Nat]] /\ RunTypes /\ stack \in Seq(Frame)
  BY <1>0 DEF Types, CallerTypes, RunTypes
<1>4. run[c].stage = "done" /\ d \in Caller /\ Wanted(d) = Wanted(c)
  BY <1>0, CalledFacts
<1> HIDE DEF d
<1>5. CallerTypes'
  BY <1>1, <1>3 DEF CallerTypes
<1>6. ASSUME NEW e \in Caller, ~setting.early, status'[e] = "answered", result'[e] # 0
      PROVE  result'[e] \in during[Wanted(e)]
  <2>1. CASE e = d
    <3>1. run[c].entry \in during[Wanted(c)] \cup {0}
      BY <1>0, <1>4, <1>6 DEF CurrentInv
    <3>2. result'[e] = run[c].entry
      BY <1>1, <1>3, <1>4, <2>1
    <3> QED
      BY <1>4, <1>6, <2>1, <3>1, <3>2
  <2>2. CASE e # d
    <3>1. status'[e] = status[e] /\ result'[e] = result[e]
      BY <1>1, <1>3, <2>2
    <3> QED
      BY <1>0, <1>6, <3>1 DEF CurrentInv
  <2> QED
    BY <2>1, <2>2
<1> QED
  BY <1>1, <1>2, <1>5, <1>6, LoopStep

LEMMA EndDoneInv ==
  ASSUME IInv, NEW c \in Caller, EndDone(c)
  PROVE  IInv'
<1>0. Types /\ StackInv /\ LeaderInv /\ CurrentInv
  BY DEF IInv
<1>1. /\ Move(c, "over", Null) /\ UNCHANGED <<world, known, memory, store>>
      /\ status' = status /\ result' = result
  BY DEF EndDone, memory, store
<1>2. StackInv' /\ LeaderInv' /\ RunTypes'
  BY <1>0, EndDoneStep
<1>3. CallerTypes'
  BY <1>0, <1>1 DEF Types, CallerTypes
<1>4. \A d \in Caller : run'[d].stage \in {"get", "snapshot", "done"} => run'[d] = run[d]
  <2>1. run \in [Caller -> [stage : Stage, entry : Nat]]
    BY <1>0 DEF Types, RunTypes
  <2>2. run'[c].stage = "over" /\ \A d \in Caller : d # c => run'[d] = run[d]
    BY <1>1, <2>1 DEF Move
  <2> QED
    BY <2>2
<1>5. \A d \in Caller : ~setting.early /\ status'[d] = "answered" /\ result'[d] # 0 =>
         result'[d] \in during[Wanted(d)]
  BY <1>0, <1>1 DEF CurrentInv
<1> QED
  BY <1>1, <1>2, <1>3, <1>4, <1>5, LoopStep

LEMMA ReturnInv ==
  ASSUME IInv, NEW c \in Caller, Return(c)
  PROVE  IInv'
<1>0. Types /\ StackInv /\ LeaderInv /\ CurrentInv
  BY DEF IInv
<1>1. UNCHANGED <<world, known, memory, store>> /\ status' = status /\ result' = result /\ run' = run
  BY DEF Return, memory, store
<1>2. StackInv' /\ LeaderInv' /\ RunTypes'
  BY <1>0, ReturnStep
<1>3. CallerTypes'
  BY <1>0, <1>1 DEF Types, CallerTypes
<1>4. \A d \in Caller : ~setting.early /\ status'[d] = "answered" /\ result'[d] # 0 =>
         result'[d] \in during[Wanted(d)]
  BY <1>0, <1>1 DEF CurrentInv
<1> QED
  BY <1>1, <1>2, <1>3, <1>4, LoopStep

LEMMA EditInv ==
  ASSUME IInv, NEW i \in Ident, Edit(i)
  PROVE  IInv'
<1>0. Types /\ StackInv /\ LeaderInv /\ MapInv /\ DiskInv /\ CurrentInv
  BY DEF IInv
<1>1. /\ files' = [files EXCEPT ![i] = @ + 1] /\ during' = [during EXCEPT ![i] = @ \cup {files'[i]}]
      /\ setting' = setting /\ known' = known /\ UNCHANGED memory /\ disk' = disk /\ latest' = latest
      /\ used' = used /\ active' = active /\ run' = run /\ stack' = stack /\ status' = status
      /\ result' = result
  BY DEF Edit, store
<1>2. /\ files \in [Ident -> Nat] /\ during \in [Ident -> SUBSET Nat]
  BY <1>0 DEF Types, WorldTypes
<1>3. /\ files' \in [Ident -> Nat] /\ during' \in [Ident -> SUBSET Nat]
      /\ \A j \in Ident : during[j] \in SUBSET during'[j]
      /\ files'[i] \in during'[i] /\ \A j \in Ident : j # i => files'[j] = files[j]
  <2>1. files' \in [Ident -> Nat] /\ \A j \in Ident : j # i => files'[j] = files[j]
    BY <1>1, <1>2
  <2>2. files'[i] \in Nat
    BY <2>1
  <2>3. during'[i] = during[i] \cup {files'[i]} /\ \A j \in Ident : j # i => during'[j] = during[j]
    BY <1>1, <1>2
  <2>4. during' \in [Ident -> SUBSET Nat]
    BY <1>1, <1>2, <2>2
  <2> QED
    BY <2>1, <2>3, <2>4
<1>4. \A d : Wanted(d)' = Wanted(d)
  BY <1>1 DEF Wanted
<1>5. MapInv' /\ MemoryTypes'
  <2>1. UNCHANGED <<memory, latest, used, setting>>
    BY <1>1
  <2> QED
    BY <1>0, <2>1, SameMemory
<1>6. Types'
  BY <1>0, <1>1, <1>3, <1>5 DEF Types, WorldTypes, StoreTypes, RunTypes, CallerTypes
<1>7. StackInv' /\ DiskInv'
  <2>1. StackInv'
    BY <1>0, <1>1 DEF StackInv
  <2> QED
    BY <1>0, <1>1, <1>4, <2>1 DEF DiskInv
<1>8. LeaderInv'
  <2>1. AskedInv' /\ JoinedInv'
    BY <1>0, <1>1, <1>4 DEF LeaderInv, AskedInv, JoinedInv
  <2>2. LeadsInv' /\ BeginsInv'
    BY <1>0, <1>1, <1>4 DEF LeaderInv, LeadsInv, BeginsInv, Busy, Top, Registered
  <2> QED
    BY <2>1, <2>2 DEF LeaderInv
<1>9. CurrentInv'
  <2>1. ASSUME NEW j \in Ident PROVE files'[j] \in during'[j] /\ known'[j] \in during'[j] \cup {0}
    BY <1>0, <1>1, <1>3 DEF CurrentInv
  <2>2. ASSUME ~setting.early, NEW d \in Caller, run[d].stage \in {"snapshot", "done"}
        PROVE  run[d].entry \in during'[Wanted(d)] \cup {0}
    <3>1. Wanted(d) \in Ident
      BY <1>0, <2>2, SettingFacts DEF LeaderInv, AskedInv, Types, WorldTypes
    <3> QED
      BY <1>0, <1>3, <2>2, <3>1 DEF CurrentInv
  <2>3. ASSUME ~setting.early, NEW d \in Caller, status[d] = "answered", result[d] # 0
        PROVE  result[d] \in during'[Wanted(d)]
    <3>1. Wanted(d) \in Ident
      BY <1>0, <2>3, SettingFacts DEF LeaderInv, AskedInv, Types, WorldTypes
    <3> QED
      BY <1>0, <1>3, <2>3, <3>1 DEF CurrentInv
  <2> QED
    BY <1>1, <1>4, <2>1, <2>2, <2>3 DEF CurrentInv
<1> QED
  BY <1>5, <1>6, <1>7, <1>8, <1>9 DEF IInv

\* Unless it is cut short, a compilation ends when no request is under way.
LEMMA BeginInv ==
  ASSUME IInv, BeginCompilation, Answered \/ setting.early, MapInv', MemoryTypes'
  PROVE  IInv'
<1>0. Types /\ StackInv /\ LeaderInv /\ MapInv /\ DiskInv /\ CurrentInv
  BY DEF IInv
<1>1. /\ stack = <<>> /\ setting' = setting /\ files' = files
      /\ during' = [i \in Ident |-> {files[i]}] /\ known' = [i \in Ident |-> 0]
      /\ status' = [c \in Caller |-> IF status[c] = "waiting" THEN "waiting" ELSE "idle"]
      /\ run' = [c \in Caller |-> IF run[c].stage = "over" THEN Idle ELSE run[c]]
      /\ disk' = disk /\ latest' = latest /\ used' = used
  BY DEF BeginCompilation, store
<1>2. StackInv' /\ LeaderInv' /\ RunTypes' /\ CallerTypes'
  BY <1>0, BeginStep
<1>3. files \in [Ident -> Nat] /\ setting \in Settings
  BY <1>0 DEF Types, WorldTypes
<1>4. WorldTypes' /\ StoreTypes'
  <2>1. during' \in [Ident -> SUBSET Nat] /\ known' \in [Ident -> Nat]
    BY <1>1, <1>3
  <2> QED
    BY <1>0, <1>1, <1>3, <2>1 DEF Types, WorldTypes, StoreTypes
<1>5. \A d : Wanted(d)' = Wanted(d)
  BY <1>1 DEF Wanted
<1>6. \A d \in Caller : run'[d].stage # "none" => run'[d] = run[d]
  BY <1>1 DEF Idle
<1>7. DiskInv'
  <2>1. \A d \in Caller : run'[d].stage = "get" => setting.disk /\ run'[d].entry = disk[Wanted(d)]
    BY <1>0, <1>6 DEF DiskInv
  <2>2. setting.disk => disk = latest
    BY <1>0 DEF DiskInv
  <2> QED
    BY <1>1, <1>5, <2>1, <2>2 DEF DiskInv
<1>8. ASSUME ~setting.early, NEW d \in Caller, run'[d].stage \in {"snapshot", "done"} PROVE FALSE
  <2>1. run[d].stage \in {"snapshot", "done"} /\ status[d] # "waiting"
    BY <1>6, <1>8 DEF Answered
  <2>2. run[d].stage # "snapshot"
    BY <1>0, <2>1 DEF LeaderInv, LeadsInv, Busy
  <2>3. DOMAIN stack = {}
    BY <1>1
  <2>4. run[d].stage # "done"
    BY <1>0, <2>3 DEF StackInv
  <2> QED
    BY <2>1, <2>2, <2>4
<1>9. \A d \in Caller : status'[d] # "answered"
  BY <1>1
<1>10. \A i \in Ident : files'[i] \in during'[i] /\ known'[i] \in during'[i] \cup {0}
  BY <1>1
<1>11. CurrentInv'
  BY <1>1, <1>8, <1>9, <1>10 DEF CurrentInv
<1> QED
  BY <1>2, <1>4, <1>7, <1>11 DEF IInv, Types

LEMMA InitInv ==
  ASSUME Init
  PROVE  IInv
<1>1. /\ setting \in Settings /\ files = [i \in Ident |-> 2] /\ during = [i \in Ident |-> {2}]
      /\ known = [i \in Ident |-> 0] /\ cache = <<>> /\ oldCache = <<>> /\ generation = 0 /\ position = 0
      /\ latest = disk /\ used = [i \in Ident |-> Never]
      /\ active = [i \in Ident |-> <<>>] /\ run = [c \in Caller |-> Idle] /\ stack = <<>>
      /\ status = [c \in Caller |-> "idle"] /\ result = [c \in Caller |-> 0]
  BY DEF Init
<1>2. PICK e \in 0 .. 2 : disk = [i \in Ident |-> e]
  BY DEF Init, Null
<1>3. setting.last \in Nat
  BY <1>1, SettingFacts
<1>4. <<>> \in Seq(Slot) /\ <<>> \in Seq(OldSlot) /\ <<>> \in Seq(Caller) /\ <<>> \in Seq(Frame)
  BY EmptySeq
<1>5. Idle \in [stage : Stage, entry : Nat] /\ Idle.stage = "none"
  BY DEF Idle, Stage, Null
<1>6. WorldTypes
  <2>1. files \in [Ident -> Nat] /\ known \in [Ident -> Nat] /\ during \in [Ident -> SUBSET Nat]
    BY <1>1
  <2> QED
    BY <1>1, <2>1 DEF WorldTypes
<1>7. MemoryTypes
  BY <1>1, <1>3, <1>4 DEF MemoryTypes
<1>8. StoreTypes
  <2>1. Never \in Never .. setting.last
    BY <1>3 DEF Never
  <2>2. used \in [Ident -> Never .. setting.last]
    BY <1>1, <2>1
  <2>3. disk \in [Ident -> Nat]
    BY <1>2
  <2> QED
    BY <1>1, <2>2, <2>3 DEF StoreTypes
<1>9. RunTypes
  <2>1. active \in [Ident -> Seq(Caller)] /\ run \in [Caller -> [stage : Stage, entry : Nat]]
    BY <1>1, <1>4, <1>5
  <2> QED
    BY <1>1, <1>4, <2>1 DEF RunTypes
<1>10. CallerTypes
  BY <1>1 DEF CallerTypes
<1>11. DOMAIN stack = {} /\ DOMAIN cache = {} /\ DOMAIN oldCache = {} /\ \A i \in Ident : DOMAIN active[i] = {}
  BY <1>1
<1>12. \A c \in Caller : run[c].stage = "none" /\ status[c] = "idle"
  BY <1>1, <1>5
<1>13. StackInv
  BY <1>11, <1>12 DEF StackInv
<1>14. LeaderInv
  <2>1. AskedInv /\ LeadsInv
    BY <1>12 DEF AskedInv, LeadsInv, Busy
  <2>2. BeginsInv
    BY <1>1 DEF BeginsInv, Top
  <2>3. JoinedInv
    BY <1>11 DEF JoinedInv
  <2> QED
    BY <2>1, <2>2, <2>3 DEF LeaderInv
<1>15. MapInv
  <2>1. \A i \in Ident : At(cache, i) = Undefined /\ At(oldCache, i) = Undefined
    BY <1>11, AtNone
  <2>2. \A i \in Ident : Held(i) = Undefined
    BY <2>1 DEF Held
  <2>3. \A i \in Ident : used[i] = Never /\ used[i] <= generation
    BY <1>1 DEF Never
  <2>4. Unique(cache) /\ Unique(oldCache)
    BY <1>11 DEF Unique
  <2> QED
    BY <2>2, <2>3, <2>4 DEF MapInv
<1>16. DiskInv
  BY <1>1, <1>12 DEF DiskInv
<1>17. CurrentInv
  <2>1. \A i \in Ident : files[i] \in during[i] /\ known[i] \in during[i] \cup {0}
    BY <1>1
  <2> QED
    BY <1>12, <2>1 DEF CurrentInv
<1> QED
  BY <1>6, <1>7, <1>8, <1>9, <1>10, <1>13, <1>14, <1>15, <1>16, <1>17 DEF IInv, Types

(***************************************************************************)
(* The theorems.                                                           *)
(***************************************************************************)

\* Every step keeps the invariant.
THEOREM Invariance == Spec => []IInv
<1>1. Init => IInv
  BY InitInv
<1>2. ASSUME IInv, [Next]_vars PROVE IInv'
  <2>0. Types /\ StackInv /\ LeaderInv /\ MapInv /\ DiskInv /\ CurrentInv
    BY <1>2 DEF IInv
  <2>1. ASSUME NEW c \in Caller, \/ Restore(c) \/ CheckSnapshot(c) \/ RealResolve(c) \/ SnapshotAndStore(c)
                                 \/ CallBack(c) \/ EndDone(c) \/ Return(c)
        PROVE  IInv'
    BY <1>2, <2>1, RestoreInv, CheckSnapshotInv, RealResolveInv, SnapshotAndStoreInv,
       CallBackInv, EndDoneInv, ReturnInv
  <2>2. ASSUME NEW c \in Caller, Resolve(c) PROVE IInv'
    BY <1>2, <2>2, ResolveInv
  <2>3. ASSUME NEW i \in Ident, Edit(i) PROVE IInv'
    BY <1>2, <2>3, EditInv
  <2>4. CASE NextCompilation
    <3>1. /\ Answered /\ AfterDone /\ BeginCompilation /\ generation < setting.last
          /\ UNCHANGED <<setting, used, latest>> /\ UNCHANGED setting
      BY <2>4 DEF NextCompilation, BeginCompilation, store
    <3>2. MapInv' /\ MemoryTypes'
      BY <2>0, <3>1, SweepStep
    <3> QED
      BY <1>2, <3>1, <3>2, BeginInv
  <2>5. CASE CutShort
    <3>1. /\ Answered \/ setting.early
          /\ BeginCompilation /\ UNCHANGED <<memory, latest, used, setting>>
      BY <2>5 DEF CutShort, BeginCompilation, store
    <3>2. MapInv' /\ MemoryTypes'
      BY <2>0, <3>1, SameMemory
    <3> QED
      BY <1>2, <3>1, <3>2, BeginInv
  <2>6. CASE UNCHANGED vars
    <3>1. /\ UNCHANGED <<world, known, memory, store>> /\ active' = active /\ run' = run /\ stack' = stack
          /\ status' = status /\ result' = result /\ setting' = setting
      BY <2>6 DEF vars, world
    <3>2. StackInv' /\ RunTypes' /\ CallerTypes'
      BY <2>0, <3>1 DEF StackInv, Types, RunTypes, CallerTypes
    <3>3. \A d : Wanted(d)' = Wanted(d)
      BY <3>1 DEF Wanted
    <3>4. AskedInv' /\ JoinedInv'
      BY <2>0, <3>1, <3>3 DEF LeaderInv, AskedInv, JoinedInv
    <3>5. LeadsInv' /\ BeginsInv'
      BY <2>0, <3>1, <3>3 DEF LeaderInv, LeadsInv, BeginsInv, Busy, Top, Registered
    <3>6. LeaderInv'
      BY <3>4, <3>5 DEF LeaderInv
    <3>7. \A d \in Caller : ~setting.early /\ status'[d] = "answered" /\ result'[d] # 0 =>
             result'[d] \in during[Wanted(d)]
      BY <2>0, <3>1 DEF CurrentInv
    <3> QED
      BY <1>2, <3>1, <3>2, <3>6, <3>7, LoopStep
  <2> QED
    BY <1>2, <2>1, <2>2, <2>3, <2>4, <2>5, <2>6 DEF Next, Progress
<1> QED
  BY <1>1, <1>2, PTL DEF Spec

\* What a caller is told is what its files were some time in this compilation:
\* from the memory, from the disk or from the request of another, which has had its
\* snapshot checked, or a resolve of its own, since the compilation began.
LEMMA WhatIsTold == IInv => TypeOK /\ ResultIsCurrent
<1> SUFFICES ASSUME IInv PROVE TypeOK /\ ResultIsCurrent
  OBVIOUS
<1>1. TypeOK
  BY DEF IInv, Types, WorldTypes, MemoryTypes, StoreTypes, RunTypes, CallerTypes,
         Slot, OldSlot, Stage, Frame, TypeOK
<1>2. ResultIsCurrent
  BY DEF IInv, CurrentInv, ResultIsCurrent
<1> QED
  BY <1>1, <1>2

\* The entry that was stored last stays in memory for maxGenerations compilations
\* after the last that used it: the sweep gives it that time, and drops none before.
THEOREM MemoryIsKeptCorrect == Spec => []MemoryIsKept
<1>1. ASSUME IInv PROVE MemoryIsKept
  <2>1. Types /\ MapInv
    BY <1>1 DEF IInv
  <2> SUFFICES ASSUME NEW i \in Ident, used[i] # Never, generation - used[i] <= setting.maxGenerations
               PROVE  Held(i) = latest[i]
    BY DEF MemoryIsKept
  <2>2. Held(i) # Undefined
    <3>1. CASE At(cache, i) # Undefined
      BY <3>1 DEF Held
    <3>2. CASE At(cache, i) = Undefined
      <4>1. generation \in Int /\ used[i] \in Int /\ setting.maxGenerations \in Int
        <5>1. setting \in Settings
          BY <2>1 DEF Types, WorldTypes
        <5>2. setting.maxGenerations \in Nat /\ setting.last \in Nat
          BY <5>1, SettingFacts
        <5> QED
          BY <2>1, <5>2 DEF Types, MemoryTypes, StoreTypes, Never
      <4>2. generation <= used[i] + setting.maxGenerations
        BY <4>1
      <4>3. PICK p \in DOMAIN oldCache : oldCache[p].ident = i
        BY <2>1, <3>2, <4>2 DEF MapInv
      <4>4. At(oldCache, oldCache[p].ident) = oldCache[p].entry
        BY <2>1, AtOne DEF MapInv
      <4>5. oldCache[p] \in OldSlot
        BY <2>1, ElementOfSeq, LenProperties DEF Types, MemoryTypes
      <4>6. oldCache[p].entry # Undefined
        BY <4>5 DEF OldSlot, Undefined
      <4> QED
        BY <3>2, <4>3, <4>4, <4>6 DEF Held
    <3> QED
      BY <3>1, <3>2
  <2> QED
    BY <2>1, <2>2 DEF MapInv
<1> QED
  BY <1>1, Invariance, PTL

(***************************************************************************)
(* Nobody is called back twice.                                            *)
(***************************************************************************)

LEMMA MemberFacts ==
  ASSUME Types, LeaderInv, NEW i \in Ident, NEW p \in DOMAIN active[i]
  PROVE  /\ active[i] \in Seq(Caller) /\ active[i] # <<>> /\ 1 \in DOMAIN active[i]
         /\ Head(active[i]) = active[i][1]
         /\ active[i][p] \in Caller /\ active[i][p] \in DOMAIN setting.wants /\ Wanted(active[i][p]) = i
         /\ active[i][1] \in Caller /\ Wanted(active[i][1]) = i
<1>1. active[i] \in Seq(Caller)
  BY DEF Types, RunTypes
<1>2. Len(active[i]) \in Nat /\ DOMAIN active[i] = 1 .. Len(active[i])
  BY <1>1, LenProperties
<1>3. 1 \in DOMAIN active[i] /\ active[i] # <<>>
  BY <1>2
<1>4. Head(active[i]) = active[i][1]
  BY <1>1, <1>3
<1>5. \A q \in DOMAIN active[i] :
         active[i][q] \in Caller /\ active[i][q] \in DOMAIN setting.wants /\ Wanted(active[i][q]) = i
  BY <1>1, <1>2, ElementOfSeq DEF LeaderInv, JoinedInv
<1> QED
  BY <1>1, <1>3, <1>4, <1>5

\* Who has begun a request is nowhere but at the head of the list of its own.
LEMMA LeaderIsFirst ==
  ASSUME Types, LeaderInv, ListInv, NEW i \in Ident, NEW p \in DOMAIN active[i],
         run[active[i][p]].stage # "none"
  PROVE  p = 1 /\ Registered(active[i][p])
<1>1. p = 1
  BY DEF ListInv
<1>2. active[i] # <<>> /\ Head(active[i]) = active[i][1] /\ Wanted(active[i][1]) = i
  BY MemberFacts
<1> QED
  BY <1>1, <1>2 DEF Registered

LEMMA CallbacksFacts ==
  ASSUME Types, LeaderInv, NEW c \in Caller, c \in DOMAIN setting.wants
  PROVE  /\ Wanted(c) \in Ident
         /\ Registered(c) => Callbacks(c) = active[Wanted(c)]
         /\ ~Registered(c) => DOMAIN Callbacks(c) = {1} /\ Callbacks(c)[1] = c
<1>1. Wanted(c) \in Ident
  BY SettingFacts DEF Types, WorldTypes
<1>2. ASSUME ~Registered(c) PROVE DOMAIN Callbacks(c) = {1} /\ Callbacks(c)[1] = c
  <2>1. Callbacks(c) = <<c>>
    BY <1>2 DEF Callbacks
  <2>2. DOMAIN <<c>> = {1} /\ <<c>>[1] = c
    OBVIOUS
  <2> QED
    BY <2>1, <2>2
<1> QED
  BY <1>1, <1>2 DEF Callbacks

\* Two loops of done() call back different callers.
LEMMA LoopsAreApart ==
  ASSUME Types, LeaderInv, ListInv, NEW c \in Caller, NEW d \in Caller,
         run[c].stage = "done", run[d].stage = "done",
         NEW p \in DOMAIN Callbacks(c), NEW q \in DOMAIN Callbacks(d), Callbacks(c)[p] = Callbacks(d)[q]
  PROVE  c = d /\ p = q
<1>1. c \in DOMAIN setting.wants /\ d \in DOMAIN setting.wants
  BY DEF LeaderInv, AskedInv
<1>2. Wanted(c) \in Ident /\ Wanted(d) \in Ident
  BY <1>1, CallbacksFacts
<1>3. CASE Registered(c) /\ Registered(d)
  <2>1. Callbacks(c) = active[Wanted(c)] /\ Callbacks(d) = active[Wanted(d)]
    BY <1>3 DEF Callbacks
  <2>2. Wanted(Callbacks(c)[p]) = Wanted(c) /\ Wanted(Callbacks(d)[q]) = Wanted(d)
    BY <1>2, <2>1, MemberFacts
  <2>3. Wanted(c) = Wanted(d)
    BY <2>2
  <2>4. c = d
    BY <1>3, <2>3 DEF Registered
  <2>5. p = q
    BY <1>2, <2>1, <2>4 DEF ListInv
  <2> QED
    BY <2>4, <2>5
<1>4. ASSUME NEW a \in Caller, NEW b \in Caller, a \in DOMAIN setting.wants, b \in DOMAIN setting.wants,
             run[b].stage = "done", Registered(a), ~Registered(b), NEW r \in DOMAIN Callbacks(a)
      PROVE  Callbacks(a)[r] # b
  <2>1. Callbacks(a) = active[Wanted(a)] /\ Wanted(a) \in Ident
    BY <1>4, CallbacksFacts
  <2> SUFFICES ASSUME active[Wanted(a)][r] = b PROVE FALSE
    BY <2>1
  <2>2. r \in DOMAIN active[Wanted(a)]
    BY <2>1
  <2>3. Registered(b)
    BY <1>4, <2>1, <2>2, LeaderIsFirst
  <2> QED
    BY <1>4, <2>3
<1>5. CASE Registered(c) /\ ~Registered(d)
  <2>1. Callbacks(d)[q] = d
    BY <1>1, <1>5, CallbacksFacts
  <2> QED
    BY <1>1, <1>4, <1>5, <2>1
<1>6. CASE ~Registered(c) /\ Registered(d)
  <2>1. Callbacks(c)[p] = c
    BY <1>1, <1>6, CallbacksFacts
  <2> QED
    BY <1>1, <1>4, <1>6, <2>1
<1>7. CASE ~Registered(c) /\ ~Registered(d)
  <2>1. Callbacks(c)[p] = c /\ p = 1 /\ Callbacks(d)[q] = d /\ q = 1
    BY <1>1, <1>7, CallbacksFacts
  <2> QED
    BY <2>1
<1> QED
  BY <1>3, <1>5, <1>6, <1>7

\* A request that is under way goes on, or calls back.
LEMMA RequestOnce ==
  ASSUME IInv, OnceInv, NEW c \in Caller, NEW s \in Stage, NEW e, Busy(c), Move(c, s, e),
         UNCHANGED <<active, status, setting>>,
         \/ s \in {"get", "check", "resolve", "snapshot"} /\ stack' = stack
         \/ s = "done" /\ stack' = Push("done", c)
  PROVE  OnceInv'
<1>0. Types /\ StackInv /\ LeaderInv /\ ListInv /\ LoopInv /\ FreshInv /\ CalledOnce
  BY DEF IInv, OnceInv
<1>1. /\ active' = active /\ status' = status /\ setting' = setting /\ RunTypes
      /\ run \in [Caller -> [stage : Stage, entry : Nat]]
  BY <1>0 DEF Types, RunTypes
<1>2. run'[c].stage = s /\ \A d \in Caller : d # c => run'[d] = run[d]
  BY <1>1 DEF Move
<1>3. run[c].stage # "none" /\ run[c].stage # "done"
  BY DEF Busy
<1>4. c \in DOMAIN setting.wants /\ status[c] = "waiting"
  BY <1>0, BusyFacts
<1>5. ListInv'
  <2> SUFFICES ASSUME NEW i \in Ident, NEW p \in DOMAIN active[i]
               PROVE  /\ IF p = 1 THEN Busy(active[i][p])' \/ run'[active[i][p]].stage = "done"
                                  ELSE run'[active[i][p]].stage = "none"
                      /\ run'[active[i][1]].stage # "done" => status[active[i][p]] = "waiting"
    BY <1>0, <1>1 DEF ListInv, Busy
  <2>1. active[i][p] \in Caller /\ active[i][1] \in Caller /\ 1 \in DOMAIN active[i]
    BY <1>0, MemberFacts
  <2>2. active[i][p] = c => p = 1
    BY <1>0, <1>3, LeaderIsFirst
  <2>3. IF p = 1 THEN Busy(active[i][p])' \/ run'[active[i][p]].stage = "done"
                 ELSE run'[active[i][p]].stage = "none"
    <3>1. CASE active[i][p] = c
      BY <1>1, <1>2, <2>2, <3>1 DEF Busy
    <3>2. CASE active[i][p] # c
      BY <1>0, <1>1, <1>2, <2>1, <3>2 DEF ListInv, Busy
    <3> QED
      BY <3>1, <3>2
  <2>4. run'[active[i][1]].stage # "done" => run[active[i][1]].stage # "done"
    BY <1>2, <1>3, <2>1
  <2> QED
    BY <1>0, <2>3, <2>4 DEF ListInv
<1>6. \A f : Pending(f)' <=> Pending(f)
  BY <1>1 DEF Pending, Callbacks, Registered, Wanted
<1>7. LoopInv'
  <2>1. CASE stack' = stack
    BY <1>0, <1>6, <2>1 DEF LoopInv
  <2>2. CASE stack' = Push("done", c)
    <3>1. /\ DOMAIN stack' = 1 .. Len(stack) + 1 /\ Len(stack) \in Nat /\ DOMAIN stack = 1 .. Len(stack)
          /\ stack'[1].run = c
          /\ \A p \in 1 .. Len(stack) : stack'[p + 1] = stack[p]
      BY <1>1, <2>2, PushFacts, StackFacts
    <3>2. \A p \in DOMAIN Callbacks(c) : status[Callbacks(c)[p]] = "waiting"
      <4>1. CASE Registered(c)
        <5> SUFFICES ASSUME NEW p \in DOMAIN active[Wanted(c)]
                     PROVE  status[active[Wanted(c)][p]] = "waiting"
          BY <4>1 DEF Callbacks
        <5>1. Wanted(c) \in Ident
          BY <1>0, <1>4, CallbacksFacts
        <5>2. active[Wanted(c)][1] = c
          BY <1>0, <4>1, <5>1, MemberFacts DEF Registered
        <5> QED
          BY <1>0, <1>3, <5>1, <5>2 DEF ListInv
      <4>2. CASE ~Registered(c)
        BY <1>0, <1>4, <4>2, CallbacksFacts
      <4> QED
        BY <4>1, <4>2
    <3>3. Pending(stack'[1])
      BY <3>1, <3>2 DEF Pending
    <3> SUFFICES ASSUME NEW r \in DOMAIN stack', stack'[r].kind = "done" PROVE Pending(stack'[r])
      BY <1>6 DEF LoopInv
    <3>4. CASE r = 1
      BY <3>3, <3>4
    <3>5. CASE r # 1
      <4> DEFINE q == r - 1
      <4>1. q \in DOMAIN stack /\ q + 1 = r
        BY <3>1, <3>5
      <4> HIDE DEF q
      <4>2. stack'[r] = stack[q]
        BY <3>1, <4>1
      <4> QED
        BY <1>0, <4>1, <4>2 DEF LoopInv
    <3> QED
      BY <3>4, <3>5
  <2> QED
    BY <2>1, <2>2
<1>8. FreshInv' /\ CalledOnce'
  BY <1>0, <1>1, <1>2, <1>4 DEF FreshInv, CalledOnce
<1> QED
  BY <1>5, <1>7, <1>8 DEF OnceInv

\* Who asks is in no list.
LEMMA WhoAsks ==
  ASSUME Types, StackInv, LeaderInv, OnceInv, NEW c \in Caller, status[c] = "idle"
  PROVE  /\ run[c].stage = "none"
         /\ \A i \in Ident : \A p \in DOMAIN active[i] : active[i][p] # c
         /\ \A r \in DOMAIN stack : stack[r].run # c
<1>1. run[c].stage = "none"
  BY DEF OnceInv, FreshInv
<1>2. \A i \in Ident : \A p \in DOMAIN active[i] : active[i][p] # c
  BY DEF OnceInv, ListInv
<1>3. \A r \in DOMAIN stack : stack[r].run # c
  BY DEF StackInv
<1> QED
  BY <1>1, <1>2, <1>3

LEMMA LeadOnce ==
  ASSUME IInv, OnceInv, NEW c \in Caller, NEW s \in {"get", "check", "resolve"}, NEW e, Move(c, s, e),
         status[c] = "idle", status' = [status EXCEPT ![c] = "waiting"],
         stack' = Push("resolve", c), UNCHANGED <<active, setting>>
  PROVE  OnceInv'
<1>0. Types /\ StackInv /\ LeaderInv /\ ListInv /\ LoopInv /\ FreshInv /\ CalledOnce
  BY DEF IInv, OnceInv
<1>1. /\ active' = active /\ setting' = setting /\ RunTypes
      /\ run \in [Caller -> [stage : Stage, entry : Nat]]
      /\ status \in [Caller -> {"idle", "waiting", "answered", "again"}]
  BY <1>0 DEF Types, RunTypes, CallerTypes
<1>2. /\ run'[c].stage = s /\ \A d \in Caller : d # c => run'[d] = run[d]
      /\ status'[c] = "waiting" /\ \A d \in Caller : d # c => status'[d] = status[d]
  BY <1>1 DEF Move
<1>3. /\ run[c].stage = "none"
      /\ \A i \in Ident : \A p \in DOMAIN active[i] : active[i][p] # c
      /\ \A r \in DOMAIN stack : stack[r].run # c
  BY <1>0, WhoAsks
<1>4. ListInv'
  <2> SUFFICES ASSUME NEW i \in Ident, NEW p \in DOMAIN active[i]
               PROVE  /\ status'[active[i][p]] # "idle"
                      /\ \A q \in DOMAIN active[i] : active[i][p] = active[i][q] => p = q
                      /\ IF p = 1 THEN Busy(active[i][p])' \/ run'[active[i][p]].stage = "done"
                                  ELSE run'[active[i][p]].stage = "none"
                      /\ run'[active[i][1]].stage # "done" => status'[active[i][p]] = "waiting"
    BY <1>1 DEF ListInv, Busy
  <2>1. active[i][p] \in Caller /\ active[i][1] \in Caller /\ 1 \in DOMAIN active[i]
    BY <1>0, MemberFacts
  <2>2. /\ run'[active[i][p]] = run[active[i][p]] /\ run'[active[i][1]] = run[active[i][1]]
        /\ status'[active[i][p]] = status[active[i][p]]
    BY <1>2, <1>3, <2>1
  <2> QED
    BY <1>0, <2>2 DEF ListInv, Busy
<1>5. \A f : Pending(f) => Pending(f)'
  <2>1. \A d \in Caller : status[d] = "waiting" => status'[d] = "waiting"
    BY <1>2
  <2>2. \A d : Callbacks(d)' = Callbacks(d)
    BY <1>1 DEF Callbacks, Registered, Wanted
  <2>3. \A d : status[d] = "waiting" => status'[d] = "waiting"
    BY <1>1, <2>1
  <2> QED
    BY <2>2, <2>3 DEF Pending
<1>6. LoopInv'
  <2>1. /\ DOMAIN stack' = 1 .. Len(stack) + 1 /\ Len(stack) \in Nat /\ DOMAIN stack = 1 .. Len(stack)
        /\ stack'[1].kind = "resolve"
        /\ \A p \in 1 .. Len(stack) : stack'[p + 1] = stack[p]
    BY <1>1, PushFacts, StackFacts
  <2> SUFFICES ASSUME NEW r \in DOMAIN stack', stack'[r].kind = "done" PROVE Pending(stack'[r])
    BY <1>5 DEF LoopInv
  <2> DEFINE q == r - 1
  <2>0. r # 1
    BY <2>1
  <2>2. q \in DOMAIN stack /\ q + 1 = r
    BY <2>0, <2>1
  <2> HIDE DEF q
  <2>3. stack'[r] = stack[q]
    BY <2>1, <2>2
  <2> QED
    BY <1>0, <2>2, <2>3 DEF LoopInv
<1>7. FreshInv' /\ CalledOnce'
  BY <1>0, <1>2 DEF FreshInv, CalledOnce
<1> QED
  BY <1>4, <1>6, <1>7 DEF OnceInv

LEMMA JoinOnce ==
  ASSUME IInv, OnceInv, NEW c \in Caller, c \in DOMAIN setting.wants, status[c] = "idle", Join(c),
         status' = [status EXCEPT ![c] = "waiting"], UNCHANGED setting
  PROVE  OnceInv'
<1> DEFINE w == Wanted(c)
<1>0. Types /\ StackInv /\ LeaderInv /\ ListInv /\ LoopInv /\ FreshInv /\ CalledOnce
  BY DEF IInv, OnceInv
<1>1. /\ run' = run /\ stack' = stack /\ setting' = setting /\ active \in [Ident -> Seq(Caller)]
      /\ status \in [Caller -> {"idle", "waiting", "answered", "again"}]
      /\ active[w] # <<>> /\ active' = [active EXCEPT ![w] = Append(@, c)] /\ w \in Ident
  <2>1. setting \in Settings
    BY <1>0 DEF Types, WorldTypes
  <2> QED
    BY <1>0, <2>1, SettingFacts DEF Types, RunTypes, CallerTypes, Join
<1>2. /\ status'[c] = "waiting" /\ \A d \in Caller : d # c => status'[d] = status[d]
      /\ \A d : status[d] = "waiting" => status'[d] = "waiting"
      /\ \A d : status[d] # "idle" => status'[d] # "idle"
  BY <1>1
<1>3. /\ run[c].stage = "none"
      /\ \A i \in Ident : \A p \in DOMAIN active[i] : active[i][p] # c
      /\ \A r \in DOMAIN stack : stack[r].run # c
  BY <1>0, WhoAsks
<1> HIDE DEF w
<1>4. /\ active[w] \in Seq(Caller) /\ Len(active[w]) \in Nat /\ DOMAIN active[w] = 1 .. Len(active[w])
      /\ 1 \in DOMAIN active[w]
  <2>1. active[w] \in Seq(Caller)
    BY <1>1
  <2>2. Len(active[w]) \in Nat /\ DOMAIN active[w] = 1 .. Len(active[w]) /\ Len(active[w]) # 0
    BY <1>1, <2>1, LenProperties, EmptySeq
  <2> QED
    BY <2>1, <2>2
<1>5. /\ active'[w] \in Seq(Caller) /\ DOMAIN active'[w] = 1 .. Len(active[w]) + 1
      /\ active'[w][Len(active[w]) + 1] = c
      /\ \A p \in DOMAIN active[w] : active'[w][p] = active[w][p]
      /\ \A i \in Ident : i # w => active'[i] = active[i]
  <2>1. active'[w] = Append(active[w], c) /\ \A i \in Ident : i # w => active'[i] = active[i]
    BY <1>1
  <2>2. /\ active'[w] \in Seq(Caller) /\ Len(active'[w]) = Len(active[w]) + 1
        /\ active'[w][Len(active[w]) + 1] = c
        /\ \A p \in 1 .. Len(active[w]) : active'[w][p] = active[w][p]
    BY <1>4, <2>1, AppendProperties
  <2>3. DOMAIN active'[w] = 1 .. Len(active[w]) + 1
    BY <2>2, LenProperties
  <2> QED
    BY <1>4, <2>1, <2>2, <2>3
<1>6. \A p \in DOMAIN active'[w] : p \in DOMAIN active[w] \/ p = Len(active[w]) + 1
  BY <1>4, <1>5
<1>7. Len(active[w]) + 1 \notin DOMAIN active[w] /\ Len(active[w]) + 1 # 1
  BY <1>4
<1> DEFINE last == Len(active[w]) + 1
<1> HIDE DEF last
<1>8. /\ active'[w][last] = c /\ last \notin DOMAIN active[w] /\ last # 1
      /\ \A p \in DOMAIN active'[w] : p \in DOMAIN active[w] \/ p = last
  BY <1>5, <1>6, <1>7 DEF last
<1>9. ListInv'
  <2> SUFFICES ASSUME NEW i \in Ident, NEW p \in DOMAIN active'[i]
               PROVE  /\ status'[active'[i][p]] # "idle"
                      /\ \A q \in DOMAIN active'[i] : active'[i][p] = active'[i][q] => p = q
                      /\ IF p = 1 THEN Busy(active'[i][p]) \/ run[active'[i][p]].stage = "done"
                                  ELSE run[active'[i][p]].stage = "none"
                      /\ run[active'[i][1]].stage # "done" => status'[active'[i][p]] = "waiting"
    BY <1>1 DEF ListInv, Busy
  <2>1. CASE i # w
    BY <1>0, <1>2, <1>5, <2>1 DEF ListInv
  <2>2. CASE i = w /\ p \in DOMAIN active[w]
    <3>1. active'[w][p] = active[w][p] /\ active'[w][1] = active[w][1] /\ active[w][p] # c
      BY <1>1, <1>3, <1>4, <1>5, <2>2
    <3>2. \A q \in DOMAIN active'[w] : active'[w][p] = active'[w][q] => p = q
      BY <1>0, <1>1, <1>5, <1>8, <2>2, <3>1 DEF ListInv
    <3> QED
      BY <1>0, <1>1, <1>2, <2>2, <3>1, <3>2 DEF ListInv
  <2>3. CASE i = w /\ p = last
    <3>1. \A q \in DOMAIN active'[w] : active'[w][q] = c => q = last
      BY <1>1, <1>3, <1>5, <1>8
    <3> QED
      BY <1>2, <1>3, <1>8, <2>3, <3>1
  <2> QED
    BY <1>8, <2>1, <2>2, <2>3
<1>10. ASSUME NEW f, f.run \in Caller, run[f.run].stage = "done", Pending(f),
              NEW p \in DOMAIN Callbacks(f.run)', p >= f.next
       PROVE  status'[Callbacks(f.run)'[p]] = "waiting"
  <2> DEFINE d == f.run
  <2>3. d \in Caller /\ d \in DOMAIN setting.wants
    BY <1>0, <1>10 DEF LeaderInv, AskedInv
  <2>4. Wanted(d) \in Ident
    BY <1>0, <2>3, CallbacksFacts
  <2>5. Pending(f)
    BY <1>10
  <2>6. CASE Callbacks(d)' = Callbacks(d)
    BY <1>2, <1>10, <2>5, <2>6 DEF Pending
  <2>7. CASE Wanted(d) = w /\ Registered(d)
    <3>1. Callbacks(d) = active[w]
      BY <2>7 DEF Callbacks
    <3>2. Registered(d)'
      <4>1. Head(active[w]) = active[w][1]
        BY <1>0, <1>1, <1>4, MemberFacts
      <4>2. active'[w] # <<>> /\ Head(active'[w]) = active'[w][1]
        BY <1>4, <1>5
      <4>3. active'[w][1] = active[w][1]
        BY <1>4, <1>5
      <4>4. Wanted(d)' = w
        BY <1>1, <2>7 DEF Wanted
      <4> QED
        BY <2>7, <4>1, <4>2, <4>3, <4>4 DEF Registered
    <3>3. Callbacks(d)' = active'[w]
      BY <1>1, <2>7, <3>2 DEF Callbacks, Wanted
    <3>4. CASE p \in DOMAIN active[w]
      <4>1. status[active[w][p]] = "waiting"
        BY <1>10, <2>5, <3>1, <3>4 DEF Pending
      <4> QED
        BY <1>1, <1>2, <1>5, <3>3, <3>4, <4>1
    <3>5. CASE p = last
      BY <1>1, <1>2, <1>8, <3>3, <3>5
    <3> QED
      BY <1>1, <1>8, <3>3, <3>4, <3>5
  <2>8. CASE Wanted(d) # w
    <3>1. active'[Wanted(d)] = active[Wanted(d)] /\ Wanted(d)' = Wanted(d)
      BY <1>1, <1>5, <2>4, <2>8 DEF Wanted
    <3>2. Registered(d)' <=> Registered(d)
      BY <3>1 DEF Registered
    <3>3. Callbacks(d)' = Callbacks(d)
      BY <3>1, <3>2 DEF Callbacks
    <3> QED
      BY <2>6, <3>3
  <2>9. CASE Wanted(d) = w /\ ~Registered(d)
    <3>1. Head(active[w]) = active[w][1] /\ active[w][1] # d
      <4>1. Head(active[w]) = active[w][1]
        BY <1>0, <1>1, <1>4, MemberFacts
      <4> QED
        BY <1>1, <2>9, <4>1 DEF Registered
    <3>2. active'[w] # <<>> /\ Head(active'[w]) = active'[w][1] /\ active'[w][1] = active[w][1]
      BY <1>4, <1>5
    <3>3. Wanted(d)' = w
      BY <1>1, <2>9 DEF Wanted
    <3>4. ~Registered(d)'
      BY <3>1, <3>2, <3>3 DEF Registered
    <3>5. Callbacks(d)' = Callbacks(d)
      BY <2>9, <3>4 DEF Callbacks
    <3> QED
      BY <2>6, <3>5
  <2> QED
    BY <2>7, <2>8, <2>9
<1>11. ASSUME NEW f, f.run \in Caller, run[f.run].stage = "done", Pending(f) PROVE Pending(f)'
  BY <1>10, <1>11 DEF Pending
<1>12. LoopInv'
  <2>1. \A r \in DOMAIN stack : stack[r].run \in Caller
    <3>1. \A r \in DOMAIN stack : stack[r] \in Frame
      BY <1>0, StackFacts DEF Types
    <3> QED
      BY <3>1 DEF Frame
  <2>2. \A r \in DOMAIN stack : stack[r].kind = "done" => run[stack[r].run].stage = "done" /\ Pending(stack[r])
    BY <1>0 DEF StackInv, LoopInv
  <2> QED
    BY <1>1, <1>11, <2>1, <2>2 DEF LoopInv
<1>13. FreshInv' /\ CalledOnce'
  BY <1>0, <1>1, <1>2 DEF FreshInv, CalledOnce
<1> QED
  BY <1>9, <1>12, <1>13 DEF OnceInv

LEMMA CallbacksAreCallers ==
  ASSUME Types, LeaderInv, NEW c \in Caller, c \in DOMAIN setting.wants
  PROVE  /\ Callbacks(c) \in Seq(Caller)
         /\ \A p \in DOMAIN Callbacks(c) : p \in Int /\ Callbacks(c)[p] \in Caller
<1>1. Wanted(c) \in Ident
  BY CallbacksFacts
<1>2. active[Wanted(c)] \in Seq(Caller) /\ <<c>> \in Seq(Caller)
  BY <1>1 DEF Types, RunTypes
<1>3. Callbacks(c) \in Seq(Caller)
  BY <1>2 DEF Callbacks
<1>4. DOMAIN Callbacks(c) = 1 .. Len(Callbacks(c)) /\ Len(Callbacks(c)) \in Nat
  BY <1>3, LenProperties
<1>5. \A p \in DOMAIN Callbacks(c) : Callbacks(c)[p] \in Caller
  BY <1>3, <1>4, ElementOfSeq
<1> QED
  BY <1>3, <1>4, <1>5

LEMMA CallBackOnce ==
  ASSUME IInv, OnceInv, NEW c \in Caller, CallBack(c)
  PROVE  OnceInv'
<1> DEFINE n == Head(stack).next
           d == Callbacks(c)[n]
<1>0. Types /\ StackInv /\ LeaderInv /\ ListInv /\ LoopInv /\ FreshInv /\ CalledOnce
  BY DEF IInv, OnceInv
<1>1. /\ Top("done", c) /\ stack' = [stack EXCEPT ![1].next = n + 1]
      /\ status' = [status EXCEPT ![d] = IF @ = "waiting" THEN "answered" ELSE "again"]
      /\ setting' = setting /\ active' = active /\ run' = run
  BY DEF CallBack, world
<1>2. /\ RunTypes /\ stack \in Seq(Frame)
      /\ status \in [Caller -> {"idle", "waiting", "answered", "again"}]
  BY <1>0 DEF Types, RunTypes, CallerTypes
<1>3. /\ run[c].stage = "done" /\ n \in Nat \ {0} /\ n \in DOMAIN Callbacks(c)
      /\ d \in DOMAIN setting.wants /\ d \in Caller /\ Wanted(d) = Wanted(c)
  BY <1>0, CalledFacts
<1>4. /\ 1 \in DOMAIN stack /\ stack[1].kind = "done" /\ stack[1].run = c /\ n = stack[1].next
      /\ \A r \in DOMAIN stack : stack[r] \in Frame
  <2>1. 1 \in DOMAIN stack /\ stack # <<>> /\ stack[1].kind = "done" /\ stack[1].run = c
    BY <1>1, <1>2, StackFacts
  <2>2. \A r \in DOMAIN stack : stack[r] \in Frame
    BY <1>2, StackFacts
  <2>3. Head(stack) = stack[1]
    BY <1>2, <2>1
  <2> QED
    BY <2>1, <2>2, <2>3
<1> HIDE DEF n
<1>5. status[d] = "waiting"
  <2>1. Pending(stack[1])
    BY <1>0, <1>4 DEF LoopInv
  <2> QED
    BY <1>3, <1>4, <2>1 DEF Pending
<1>6. Registered(c) \/ d = c
  BY <1>0, <1>3, CallbacksFacts DEF LeaderInv, AskedInv
<1>7. ASSUME NEW e \in Caller, run[e].stage = "done", NEW q \in DOMAIN Callbacks(e), Callbacks(e)[q] = d
      PROVE  e = c /\ q = n
  BY <1>0, <1>3, <1>7, LoopsAreApart
<1>8. ASSUME NEW i \in Ident, NEW p \in DOMAIN active[i], active[i][p] = d
      PROVE  run[active[i][1]].stage = "done"
  <2>0. active[i] # <<>> /\ Head(active[i]) = active[i][1] /\ Wanted(d) = i
    BY <1>0, <1>8, MemberFacts
  <2>1. Registered(c)
    <3>1. CASE d = c
      BY <1>0, <1>3, <1>8, <3>1, LeaderIsFirst
    <3> QED
      BY <1>6, <3>1
  <2> QED
    BY <1>3, <2>0, <2>1 DEF Registered
<1> HIDE DEF d
<1>9. status'[d] = "answered" /\ \A e \in Caller : e # d => status'[e] = status[e]
  BY <1>1, <1>2, <1>3, <1>5
<1>10. ListInv'
  <2> SUFFICES ASSUME NEW i \in Ident, NEW p \in DOMAIN active[i]
               PROVE  /\ status'[active[i][p]] # "idle"
                      /\ run[active[i][1]].stage # "done" => status'[active[i][p]] = "waiting"
    BY <1>0, <1>1 DEF ListInv, Busy
  <2>1. active[i][p] \in Caller
    BY <1>0, MemberFacts
  <2>2. CASE active[i][p] = d
    BY <1>8, <1>9, <2>2
  <2>3. CASE active[i][p] # d
    BY <1>0, <1>9, <2>1, <2>3 DEF ListInv
  <2> QED
    BY <2>2, <2>3
<1>11. \A e : Callbacks(e)' = Callbacks(e)
  BY <1>1 DEF Callbacks, Registered, Wanted
<1>12. ASSUME NEW r \in DOMAIN stack
       PROVE  /\ stack'[r].kind = stack[r].kind /\ stack'[r].run = stack[r].run
              /\ stack'[r].next = IF r = 1 THEN n + 1 ELSE stack[r].next
  <2>1. stack'[r] = IF r = 1 THEN [stack[1] EXCEPT !.next = n + 1] ELSE stack[r]
    BY <1>1, <1>4
  <2>2. stack[1] \in Frame
    BY <1>4
  <2> QED
    BY <2>1, <2>2 DEF Frame
<1>13. ASSUME NEW r \in DOMAIN stack, stack[r].kind = "done",
              NEW p \in DOMAIN Callbacks(stack[r].run), p >= stack'[r].next
       PROVE  status'[Callbacks(stack[r].run)[p]] = "waiting"
  <2> DEFINE e == stack[r].run
             f == Callbacks(e)[p]
  <2>1. e \in Caller /\ run[e].stage = "done"
    BY <1>0, <1>4, <1>13 DEF Frame, StackInv
  <2>2. Pending(stack[r])
    BY <1>0, <1>13 DEF LoopInv
  <2>3. p \in Int /\ stack[r].next \in Nat /\ f \in Caller
    <3>1. e \in DOMAIN setting.wants
      BY <1>0, <2>1 DEF LeaderInv, AskedInv
    <3>2. p \in Int /\ f \in Caller
      BY <1>0, <2>1, <3>1, CallbacksAreCallers
    <3>3. stack[r] \in Frame
      BY <1>4
    <3> QED
      BY <3>2, <3>3 DEF Frame
  <2>4. p >= stack[r].next
    BY <1>3, <1>4, <1>12, <1>13, <2>3
  <2>5. status[f] = "waiting"
    BY <2>2, <2>4 DEF Pending
  <2>6. f # d
    <3> SUFFICES ASSUME f = d PROVE FALSE
      OBVIOUS
    <3>1. e = c /\ p = n
      BY <1>7, <2>1
    <3>2. r = 1
      BY <1>0, <1>4, <1>13, <3>1 DEF StackInv
    <3> QED
      BY <1>3, <1>12, <1>13, <3>1, <3>2
  <2> QED
    BY <1>9, <2>3, <2>5, <2>6
<1>14. LoopInv'
  <2>1. DOMAIN stack' = DOMAIN stack
    BY <1>1
  <2> QED
    BY <1>11, <1>12, <1>13, <2>1 DEF LoopInv, Pending
<1>15. FreshInv' /\ CalledOnce'
  BY <1>0, <1>1, <1>3, <1>9 DEF FreshInv, CalledOnce
<1> QED
  BY <1>10, <1>14, <1>15 DEF OnceInv

\* What is below on the stack is another loop.
LEMMA BelowFacts ==
  ASSUME Types, StackInv, stack # <<>>, stack' = Tail(stack), NEW r \in DOMAIN stack', stack'[r].kind = "done"
  PROVE  /\ \E q \in DOMAIN stack : q # 1 /\ stack'[r] = stack[q]
         /\ stack'[r].run \in Caller /\ run[stack'[r].run].stage = "done"
         /\ stack[1].kind = "done" => stack'[r].run # stack[1].run
<1>1. RunTypes
  BY DEF Types
<1>2. /\ Len(stack) \in Nat /\ DOMAIN stack = 1 .. Len(stack) /\ 1 \in DOMAIN stack
      /\ \A p \in DOMAIN stack : stack[p] \in Frame
  BY <1>1, StackFacts
<1>3. /\ DOMAIN stack' = 1 .. Len(stack) - 1
      /\ \A p \in 1 .. Len(stack) - 1 : stack'[p] = stack[p + 1]
  BY <1>1, PopFacts
<1> DEFINE q == r + 1
<1>4. q \in DOMAIN stack /\ q # 1 /\ stack'[r] = stack[q]
  BY <1>2, <1>3
<1> HIDE DEF q
<1>5. stack[q].run \in Caller
  BY <1>2, <1>4 DEF Frame
<1>6. run[stack[q].run].stage = "done" /\ (stack[1].kind = "done" => stack[q].run # stack[1].run)
  BY <1>2, <1>4 DEF StackInv
<1> QED
  BY <1>4, <1>5, <1>6

LEMMA EndDoneOnce ==
  ASSUME IInv, OnceInv, NEW c \in Caller, EndDone(c)
  PROVE  OnceInv'
<1>0. Types /\ StackInv /\ LeaderInv /\ ListInv /\ LoopInv /\ FreshInv /\ CalledOnce
  BY DEF IInv, OnceInv
<1>1. /\ Top("done", c) /\ Move(c, "over", Null) /\ stack' = Tail(stack)
      /\ active' = IF Registered(c) THEN [active EXCEPT ![Wanted(c)] = <<>>] ELSE active
      /\ setting' = setting /\ status' = status
  BY DEF EndDone, world
<1>2. /\ RunTypes /\ active \in [Ident -> Seq(Caller)] /\ run \in [Caller -> [stage : Stage, entry : Nat]]
  BY <1>0 DEF Types, RunTypes
<1>3. 1 \in DOMAIN stack /\ stack # <<>> /\ stack[1].kind = "done" /\ stack[1].run = c
  BY <1>1, <1>2, StackFacts
<1>4. run'[c].stage = "over" /\ \A d \in Caller : d # c => run'[d] = run[d]
  BY <1>1, <1>2 DEF Move
<1>5. run[c].stage = "done" /\ status[c] # "idle"
  BY <1>0, <1>3 DEF StackInv
<1>6. \A i \in Ident : \/ active'[i] = active[i] /\ ~(i = Wanted(c) /\ Registered(c))
                       \/ i = Wanted(c) /\ Registered(c) /\ active'[i] = <<>>
  BY <1>1, <1>2
<1>7. ListInv'
  <2> SUFFICES ASSUME NEW i \in Ident, NEW p \in DOMAIN active'[i]
               PROVE  /\ status[active'[i][p]] # "idle"
                      /\ \A q \in DOMAIN active'[i] : active'[i][p] = active'[i][q] => p = q
                      /\ IF p = 1 THEN run'[active'[i][p]].stage \in {"get", "check", "resolve", "snapshot", "done"}
                                  ELSE run'[active'[i][p]].stage = "none"
                      /\ run'[active'[i][1]].stage # "done" => status[active'[i][p]] = "waiting"
    BY <1>1 DEF ListInv, Busy
  <2>1. active'[i] = active[i] /\ ~(i = Wanted(c) /\ Registered(c))
    BY <1>6
  <2>2. /\ p \in DOMAIN active[i] /\ active[i][p] \in Caller /\ Wanted(active[i][p]) = i
        /\ 1 \in DOMAIN active[i] /\ active[i][1] \in Caller /\ Wanted(active[i][1]) = i
    BY <1>0, <2>1, MemberFacts
  <2>3. active[i][p] # c /\ active[i][1] # c
    BY <1>0, <1>5, <2>1, <2>2, LeaderIsFirst
  <2>4. run'[active[i][p]] = run[active[i][p]] /\ run'[active[i][1]] = run[active[i][1]]
    BY <1>4, <2>2, <2>3
  <2>5. /\ status[active[i][p]] # "idle"
        /\ run[active[i][1]].stage # "done" => status[active[i][p]] = "waiting"
    BY <1>0, <2>2 DEF ListInv
  <2>6. \A q \in DOMAIN active[i] : active[i][p] = active[i][q] => p = q
    BY <1>0, <2>2 DEF ListInv
  <2>7. IF p = 1 THEN run[active[i][p]].stage \in {"get", "check", "resolve", "snapshot", "done"}
                 ELSE run[active[i][p]].stage = "none"
    BY <1>0, <2>2 DEF ListInv, Busy
  <2> QED
    BY <2>1, <2>4, <2>5, <2>6, <2>7
<1>8. ASSUME NEW f, f.run \in Caller, f.run # c, run[f.run].stage = "done", Pending(f)
      PROVE  Pending(f)'
  <2> DEFINE d == f.run
  <2>1. d \in DOMAIN setting.wants
    BY <1>0, <1>8 DEF LeaderInv, AskedInv
  <2>2. Wanted(d) \in Ident /\ Wanted(d)' = Wanted(d)
    BY <1>0, <1>1, <1>8, <2>1, CallbacksFacts DEF Wanted
  <2>3. Callbacks(d)' = Callbacks(d)
    <3>1. CASE active'[Wanted(d)] = active[Wanted(d)]
      BY <2>2, <3>1 DEF Callbacks, Registered
    <3>2. CASE Wanted(d) = Wanted(c) /\ Registered(c) /\ active'[Wanted(d)] = <<>>
      <4>1. ~Registered(d) /\ ~Registered(d)'
        BY <1>8, <2>2, <3>2 DEF Registered
      <4> QED
        BY <4>1 DEF Callbacks
    <3> QED
      BY <1>6, <2>2, <3>1, <3>2
  <2> QED
    BY <1>1, <1>8, <2>3 DEF Pending
<1>9. LoopInv'
  <2> SUFFICES ASSUME NEW r \in DOMAIN stack', stack'[r].kind = "done" PROVE Pending(stack[r])'
    BY DEF LoopInv
  <2>1. PICK q \in DOMAIN stack : q # 1 /\ stack'[r] = stack[q]
    BY <1>0, <1>1, <1>3, BelowFacts
  <2>2. stack[q].run \in Caller /\ run[stack[q].run].stage = "done" /\ stack[q].run # c
    BY <1>0, <1>1, <1>3, <2>1, BelowFacts
  <2>3. Pending(stack[q])
    BY <1>0, <2>1 DEF LoopInv
  <2> QED
    BY <1>8, <2>1, <2>2, <2>3
<1>10. FreshInv' /\ CalledOnce'
  BY <1>0, <1>1, <1>4, <1>5 DEF FreshInv, CalledOnce
<1> QED
  BY <1>7, <1>9, <1>10 DEF OnceInv

LEMMA ReturnOnce ==
  ASSUME IInv, OnceInv, NEW c \in Caller, Return(c)
  PROVE  OnceInv'
<1>0. Types /\ StackInv /\ LeaderInv /\ ListInv /\ LoopInv /\ FreshInv /\ CalledOnce
  BY DEF IInv, OnceInv
<1>1. /\ Top("resolve", c) /\ stack' = Tail(stack)
      /\ active' = IF run[c].stage = "over" THEN active ELSE [active EXCEPT ![Wanted(c)] = <<c>>]
      /\ setting' = setting /\ status' = status /\ run' = run
  BY DEF Return, Register, world
<1>2. RunTypes /\ active \in [Ident -> Seq(Caller)]
  BY <1>0 DEF Types, RunTypes
<1>3. stack # <<>> /\ run[c].stage # "done"
  <2>1. stack # <<>>
    BY <1>1 DEF Top
  <2> QED
    BY <1>0, <1>1, <2>1 DEF LeaderInv, BeginsInv, Busy
<1>4. run[c].stage = "over" \/ (Busy(c) /\ active[Wanted(c)] = <<>> /\ status[c] = "waiting")
  BY <1>0, <1>1 DEF LeaderInv, BeginsInv, LeadsInv
<1>5. \A i \in Ident : \/ active'[i] = active[i]
                       \/ /\ i = Wanted(c) /\ active[i] = <<>> /\ active'[i] = <<c>>
                          /\ Busy(c) /\ status[c] = "waiting"
  BY <1>1, <1>2, <1>4
<1>6. ListInv'
  <2> SUFFICES ASSUME NEW i \in Ident, NEW p \in DOMAIN active'[i]
               PROVE  /\ status[active'[i][p]] # "idle"
                      /\ \A q \in DOMAIN active'[i] : active'[i][p] = active'[i][q] => p = q
                      /\ IF p = 1 THEN Busy(active'[i][p]) \/ run[active'[i][p]].stage = "done"
                                  ELSE run[active'[i][p]].stage = "none"
                      /\ run[active'[i][1]].stage # "done" => status[active'[i][p]] = "waiting"
    BY <1>1 DEF ListInv, Busy
  <2>1. CASE active'[i] = active[i]
    BY <1>0, <2>1 DEF ListInv
  <2>2. CASE active'[i] = <<c>> /\ Busy(c) /\ status[c] = "waiting"
    <3>1. \A q \in DOMAIN active'[i] : q = 1 /\ active'[i][q] = c
      BY <2>2
    <3> QED
      BY <2>2, <3>1
  <2> QED
    BY <1>5, <2>1, <2>2
<1>7. ASSUME NEW f, f.run \in Caller, run[f.run].stage = "done", Pending(f)
      PROVE  Pending(f)'
  <2> DEFINE d == f.run
  <2>1. d \in DOMAIN setting.wants
    BY <1>0, <1>7 DEF LeaderInv, AskedInv
  <2>2. Wanted(d) \in Ident /\ Wanted(d)' = Wanted(d)
    BY <1>0, <1>1, <1>7, <2>1, CallbacksFacts DEF Wanted
  <2>3. Callbacks(d)' = Callbacks(d)
    <3>1. CASE active'[Wanted(d)] = active[Wanted(d)]
      BY <2>2, <3>1 DEF Callbacks, Registered
    <3>2. CASE active[Wanted(d)] = <<>> /\ active'[Wanted(d)] = <<c>>
      <4>1. d # c
        BY <1>3, <1>7
      <4>2. Head(<<c>>) = c
        OBVIOUS
      <4>3. ~Registered(d) /\ ~Registered(d)'
        BY <2>2, <3>2, <4>1, <4>2 DEF Registered
      <4> QED
        BY <4>3 DEF Callbacks
    <3> QED
      BY <1>5, <2>2, <3>1, <3>2
  <2> QED
    BY <1>1, <1>7, <2>3 DEF Pending
<1>8. LoopInv'
  <2> SUFFICES ASSUME NEW r \in DOMAIN stack', stack'[r].kind = "done" PROVE Pending(stack[r])'
    BY DEF LoopInv
  <2>1. PICK q \in DOMAIN stack : q # 1 /\ stack'[r] = stack[q]
    BY <1>0, <1>1, <1>3, BelowFacts
  <2>2. stack[q].run \in Caller /\ run[stack[q].run].stage = "done"
    BY <1>0, <1>1, <1>3, <2>1, BelowFacts
  <2>3. Pending(stack[q])
    BY <1>0, <2>1 DEF LoopInv
  <2> QED
    BY <1>7, <2>1, <2>2, <2>3
<1>9. FreshInv' /\ CalledOnce'
  BY <1>0, <1>1 DEF FreshInv, CalledOnce
<1> QED
  BY <1>6, <1>8, <1>9 DEF OnceInv

LEMMA BeginOnce ==
  ASSUME IInv, OnceInv, BeginCompilation
  PROVE  OnceInv'
<1>0. Types /\ StackInv /\ LeaderInv /\ ListInv /\ LoopInv /\ FreshInv /\ CalledOnce
  BY DEF IInv, OnceInv
<1>1. /\ stack = <<>> /\ stack' = stack /\ active' = active /\ setting' = setting
      /\ status' = [c \in Caller |-> IF status[c] = "waiting" THEN "waiting" ELSE "idle"]
      /\ run' = [c \in Caller |-> IF run[c].stage = "over" THEN Idle ELSE run[c]]
  BY DEF BeginCompilation
<1>2. \A c \in Caller : run[c].stage # "done"
  <2>1. DOMAIN stack = {}
    BY <1>1
  <2> QED
    BY <1>0, <2>1 DEF StackInv
<1>3. /\ \A c \in Caller : run[c].stage # "over" => run'[c] = run[c]
      /\ \A c \in Caller : run[c].stage = "over" => run'[c].stage = "none"
      /\ \A c \in Caller : status[c] = "waiting" => status'[c] = "waiting"
      /\ \A c \in Caller : status'[c] \in {"waiting", "idle"} /\ (status'[c] = "idle" => status[c] # "waiting")
  BY <1>1 DEF Idle
<1>4. ListInv'
  <2> SUFFICES ASSUME NEW i \in Ident, NEW p \in DOMAIN active'[i]
               PROVE  /\ status'[active'[i][p]] # "idle"
                      /\ \A q \in DOMAIN active'[i] : active'[i][p] = active'[i][q] => p = q
                      /\ IF p = 1 THEN run'[active'[i][p]].stage \in {"get", "check", "resolve", "snapshot", "done"}
                                  ELSE run'[active'[i][p]].stage = "none"
                      /\ run'[active'[i][1]].stage # "done" => status'[active'[i][p]] = "waiting"
    BY DEF ListInv, Busy
  <2>0. p \in DOMAIN active[i]
    BY <1>1
  <2>1. active[i][p] \in Caller /\ active[i][1] \in Caller
    BY <1>0, <2>0, MemberFacts
  <2>2. status[active[i][p]] = "waiting"
    BY <1>0, <1>2, <2>0, <2>1 DEF ListInv
  <2>3. run[active[i][p]].stage # "over"
    BY <1>0, <2>0, <2>1 DEF ListInv, Busy
  <2>4. run'[active[i][p]] = run[active[i][p]]
    BY <1>3, <2>1, <2>3
  <2>5. status'[active[i][p]] = "waiting"
    BY <1>3, <2>1, <2>2
  <2>6. \A q \in DOMAIN active[i] : active[i][p] = active[i][q] => p = q
    BY <1>0, <2>0 DEF ListInv
  <2>7. IF p = 1 THEN run[active[i][p]].stage \in {"get", "check", "resolve", "snapshot", "done"}
                 ELSE run[active[i][p]].stage = "none"
    BY <1>0, <2>0 DEF ListInv, Busy
  <2> QED
    BY <1>1, <2>4, <2>5, <2>6, <2>7
<1>5. LoopInv'
  BY <1>1 DEF LoopInv
<1>6. FreshInv'
  <2> SUFFICES ASSUME NEW c \in Caller, status'[c] = "idle" PROVE run'[c].stage = "none"
    BY DEF FreshInv
  <2>1. status[c] # "waiting"
    BY <1>3
  <2>2. ~Busy(c)
    BY <1>0, <2>1 DEF LeaderInv, LeadsInv
  <2>3. run[c].stage \in {"none", "over"}
    <3>1. run[c].stage \in Stage
      BY <1>0 DEF Types, RunTypes
    <3> QED
      BY <1>2, <2>2, <3>1 DEF Busy, Stage
  <2> QED
    BY <1>3, <2>3
<1>7. CalledOnce'
  BY <1>3 DEF CalledOnce
<1> QED
  BY <1>4, <1>5, <1>6, <1>7 DEF OnceInv

LEMMA SameOnce ==
  ASSUME OnceInv, UNCHANGED <<active, run, stack, status, setting>>
  PROVE  OnceInv'
<1>1. active' = active /\ run' = run /\ stack' = stack /\ status' = status /\ setting' = setting
  OBVIOUS
<1>2. \A f : Pending(f)' <=> Pending(f)
  BY <1>1 DEF Pending, Callbacks, Registered, Wanted
<1>3. LoopInv'
  BY <1>1, <1>2 DEF OnceInv, LoopInv
<1>4. ListInv'
  BY <1>1 DEF OnceInv, ListInv, Busy
<1>5. FreshInv' /\ CalledOnce'
  BY <1>1 DEF OnceInv, FreshInv, CalledOnce
<1> QED
  BY <1>3, <1>4, <1>5 DEF OnceInv

\* Nobody is called back twice: who waits is in one list, and the list is that of a
\* request that is under way, or what a done() has yet to go through.  And what
\* everybody is told was true in this compilation.
THEOREM AnsweredRightCorrect == Spec => []AnsweredRight
<1>1. Init => OnceInv
  <2> SUFFICES ASSUME Init PROVE OnceInv
    OBVIOUS
  <2>1. /\ active = [i \in Ident |-> <<>>] /\ run = [c \in Caller |-> Idle] /\ stack = <<>>
        /\ status = [c \in Caller |-> "idle"]
    BY DEF Init
  <2>2. ListInv /\ LoopInv
    BY <2>1 DEF ListInv, LoopInv
  <2>3. FreshInv /\ CalledOnce
    BY <2>1 DEF FreshInv, CalledOnce, Idle
  <2> QED
    BY <2>2, <2>3 DEF OnceInv
<1>2. ASSUME IInv, OnceInv, [Next]_vars PROVE OnceInv'
  <2>1. ASSUME NEW c \in Caller, Restore(c) PROVE OnceInv'
    <3>1. /\ stack = <<>> /\ run[c].stage = "get" /\ stack' = stack
          /\ UNCHANGED <<active, status, setting>>
          /\ \E e : Process(c, e)
      BY <2>1 DEF Restore, world
    <3>2. PICK s, e : s \in {"check", "resolve"} /\ Move(c, s, e)
      BY <3>1 DEF Process
    <3>3. Busy(c) /\ s \in Stage /\ s \in {"get", "check", "resolve", "snapshot"}
      BY <3>1, <3>2 DEF Busy, Stage
    <3> QED
      BY <1>2, <3>1, <3>2, <3>3, RequestOnce
  <2>2. ASSUME NEW c \in Caller, CheckSnapshot(c) \/ RealResolve(c) \/ SnapshotAndStore(c) PROVE OnceInv'
    <3>1. /\ run[c].stage \in {"check", "resolve", "snapshot"} /\ UNCHANGED <<active, status, setting>>
          /\ \/ \E e : Done(c, e)
             \/ \E s, e : s \in {"resolve", "snapshot"} /\ Move(c, s, e) /\ stack' = stack
      BY <2>2 DEF CheckSnapshot, RealResolve, SnapshotAndStore, world
    <3>2. Busy(c)
      BY <3>1 DEF Busy
    <3>3. ASSUME NEW e, Done(c, e) PROVE OnceInv'
      <4>1. Move(c, "done", e) /\ stack' = Push("done", c) /\ "done" \in Stage
        BY <3>3 DEF Done, Stage
      <4> QED
        BY <1>2, <3>1, <3>2, <4>1, RequestOnce
    <3>4. ASSUME NEW s \in {"resolve", "snapshot"}, NEW e, Move(c, s, e), stack' = stack PROVE OnceInv'
      <4>1. s \in Stage /\ s \in {"get", "check", "resolve", "snapshot"}
        BY DEF Stage
      <4> QED
        BY <1>2, <3>1, <3>2, <3>4, <4>1, RequestOnce
    <3> QED
      BY <3>1, <3>3, <3>4
  <2>3. ASSUME NEW c \in Caller, CallBack(c) \/ EndDone(c) \/ Return(c) PROVE OnceInv'
    BY <1>2, <2>3, CallBackOnce, EndDoneOnce, ReturnOnce
  <2>4. ASSUME NEW c \in Caller, Resolve(c) PROVE OnceInv'
    <3>1. /\ c \in DOMAIN setting.wants /\ status[c] = "idle" /\ setting' = setting
          /\ status' = [status EXCEPT ![c] = "waiting"] /\ (Join(c) \/ Lead(c))
      BY <2>4 DEF Resolve, world
    <3>2. CASE Join(c)
      <4>1. UNCHANGED setting
        BY <3>1
      <4> QED
        BY <1>2, <3>1, <3>2, <4>1, JoinOnce
    <3>3. CASE Lead(c)
      <4>1. stack' = Push("resolve", c) /\ UNCHANGED <<active, setting>> /\ Get(c)
        BY <3>1, <3>3 DEF Lead
      <4>2. PICK s, e : s \in {"get", "check", "resolve"} /\ Move(c, s, e)
        BY <4>1 DEF Get, Process
      <4> QED
        BY <1>2, <3>1, <4>1, <4>2, LeadOnce
    <3> QED
      BY <3>1, <3>2, <3>3
  <2>5. CASE NextCompilation \/ CutShort
    BY <1>2, <2>5, BeginOnce DEF NextCompilation, CutShort
  <2>6. CASE (\E i \in Ident : Edit(i)) \/ UNCHANGED vars
    <3>1. UNCHANGED <<active, run, stack, status, setting>>
      BY <2>6 DEF Edit, vars, world
    <3> QED
      BY <1>2, <3>1, SameOnce
  <2> QED
    BY <1>2, <2>1, <2>2, <2>3, <2>4, <2>5, <2>6 DEF Next, Progress
<1>3. IInv /\ OnceInv => AnsweredRight
  BY WhatIsTold DEF OnceInv, AnsweredRight
<1> QED
  BY <1>1, <1>2, <1>3, Invariance, PTL DEF Spec
=============================================================================
