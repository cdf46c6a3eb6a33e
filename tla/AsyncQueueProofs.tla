-------------------------- MODULE AsyncQueueProofs --------------------------
(***************************************************************************)
(* Proofs about AsyncQueue, for any number of queues, keys, callbacks and  *)
(* entries.  The safety properties are proved in layers: types, then where *)
(* an entry can be, then each property from these two.                     *)
(***************************************************************************)
EXTENDS AsyncQueue, FiniteSetTheorems, TLAPS

\* Entries are created in order, and the maps hold created entries only.
Numbering ==
    /\ \A e \in Entry : state[e] = "free" <=> e > created
    /\ \A q \in Queue, k \in Key : entries[q][k] <= created

\* A list and a map agree on the entries that wait.
Placement ==
    /\ QueuedIsMapped
    /\ \A q \in Queue, k \in Key, e \in Entry :
          entries[q][k] = e /\ state[e] = "queued" => e \in queued[q]

\* What makes NoLostWakeup inductive: the two flags never lie to those who
\* read them, and a queue the loop has passed is covered by a new round.
Wakeup ==
    /\ NoLostWakeup
    /\ \A q \in Queue : queued[q] # {} => need
    /\ \A q \in Queue : loop # Off /\ q < loop /\ queued[q] # {} => will
    /\ will => immediates > 0 \/ loop = Root

StructureInv == TypeOK /\ Numbering /\ Placement

(***************************************************************************)
(* Types.                                                                  *)
(***************************************************************************)

\* The state of AsyncQueue.js keeps its types, whatever its callers do.
THEOREM TypeCorrect == Spec => []TypeOK
<1>1. Init => TypeOK
  <2> SUFFICES ASSUME Init PROVE TypeOK
    OBVIOUS
  <2> USE QueueAssumption DEF QueueAssumption, Init, Queue, Entry, Root, Off,
      NoEntry, EntryState, CallStatus
  <2>1. QueueTypes
    BY DEF QueueTypes
  <2>2. CounterTypes
    <3>1. par \in Parallelism .. Parallelism + MaxExtra
      OBVIOUS
    <3>2. active \in Int /\ immediates \in Nat /\ loop \in Queue \cup {Off}
      OBVIOUS
    <3>3. will \in BOOLEAN /\ need \in BOOLEAN /\ inCall \in BOOLEAN
      OBVIOUS
    <3> QED
      BY <3>1, <3>2, <3>3, Zenon DEF CounterTypes
  <2>3. CallerTypes
    BY DEF CallerTypes
  <2> QED
    BY <2>1, <2>2, <2>3 DEF TypeOK
<1>2. TypeOK /\ [Next]_vars => TypeOK'
  <2> SUFFICES ASSUME TypeOK, [Next]_vars PROVE TypeOK'
    OBVIOUS
  <2> USE QueueAssumption DEF QueueAssumption, TypeOK, EntryState, CallStatus,
      NoEntry, Entry, counters, position, callers
  <2>1. ASSUME NEW c \in Caller, AddRefused(c) \/ AddAsync(c) \/ AddFails(c)
        PROVE  TypeOK'
    BY <2>1 DEF AddRefused, AddAsync, AddFails, Reply, QueueTypes, CounterTypes,
       CallerTypes
  <2>2. ASSUME NEW c \in Caller, AfterBeforeAdd(c) PROVE TypeOK'
    <3> DEFINE q == wants[c][1]
               k == wants[c][2]
    <3>1. q \in Queue /\ k \in Key
      BY DEF CallerTypes
    <3>2. CASE JoinEntry(c, q, k)
      <4>1. QueueTypes' /\ CounterTypes'
        BY <2>2, <3>2 DEF JoinEntry, AfterBeforeAdd, QueueTypes, CounterTypes
      <4>2. entries[q][k] \in Entry
        BY <3>1, <3>2 DEF JoinEntry, QueueTypes
      <4>3. Reply(c, "answered") \/ Attach(c, entries[q][k])
        BY <3>2 DEF JoinEntry
      <4>4. CallerTypes'
        BY <2>2, <4>2, <4>3 DEF AfterBeforeAdd, Reply, Attach, CallerTypes
      <4> QED
        BY <4>1, <4>4
    <3>3. CASE RejectEntry(c, q, k)
      BY <2>2, <3>1, <3>3 DEF RejectEntry, AfterBeforeAdd, TakeSlot, Attach,
         QueueTypes, CounterTypes, CallerTypes
    <3>4. CASE NewEntry(c, q, k)
      BY <2>2, <3>1, <3>4 DEF NewEntry, AfterBeforeAdd, Attach, WakeIf,
         QueueTypes, CounterTypes, CallerTypes
    <3> QED
      BY <2>2, <3>2, <3>3, <3>4 DEF AfterBeforeAdd
  <2>3. ASSUME NEW c \in Caller, WaitFor(c) PROVE TypeOK'
    <3>1. QueueTypes' /\ CounterTypes'
      BY <2>3 DEF WaitFor, QueueTypes, CounterTypes
    <3> DEFINE e == entries[wants[c][1]][wants[c][2]]
    <3>2. e \in Entry \cup {NoEntry}
      BY DEF CallerTypes, QueueTypes
    <3>3. Reply(c, "refused") \/ Reply(c, "answered") \/ Attach(c, e)
      BY <2>3 DEF WaitFor
    <3>4. wants' = wants
      BY <2>3 DEF WaitFor
    <3>5. CallerTypes'
      BY <3>2, <3>3, <3>4 DEF Reply, Attach, CallerTypes
    <3> QED
      BY <3>1, <3>5
  <2>4. ASSUME NEW q \in Queue, NEW k \in Key, Invalidate(q, k) PROVE TypeOK'
    <3>1. QueueTypes'
      <4>1. entries' \in [Queue -> [Key -> Entry \cup {NoEntry}]]
        BY <2>4 DEF Invalidate, QueueTypes
      <4>2. /\ queued' \in [Queue -> SUBSET Entry]
            /\ state' \in [Entry -> EntryState]
        <5>1. CASE state[entries[q][k]] = "queued"
          <6> DEFINE e == entries[q][k]
          <6>1. /\ queued' = [queued EXCEPT ![q] = @ \ {e}]
                /\ state' = [state EXCEPT ![e] = "dropped"]
            BY <2>4, <5>1 DEF Invalidate
          <6> HIDE DEF e
          <6> QED
            BY <6>1 DEF QueueTypes
        <5>2. CASE state[entries[q][k]] # "queued"
          BY <2>4, <5>2 DEF Invalidate, QueueTypes
        <5> QED
          BY <5>1, <5>2
      <4> QED
        BY <2>4, <4>1, <4>2 DEF Invalidate, QueueTypes
    <3>2. CounterTypes' /\ CallerTypes'
      BY <2>4 DEF Invalidate, CounterTypes, CallerTypes
    <3> QED
      BY <3>1, <3>2
  <2>5. ASSUME NEW q \in Queue, Stop(q) PROVE TypeOK'
    <3>1. QueueTypes'
      BY <2>5 DEF Stop, QueueTypes
    <3>2. CounterTypes' /\ CallerTypes'
      BY <2>5 DEF Stop, WakeIf, Finish, CounterTypes, CallerTypes
    <3> QED
      BY <3>1, <3>2
  <2>6. ASSUME NEW q \in Queue, Clear(q) PROVE TypeOK'
    BY <2>6 DEF Clear, QueueTypes, CounterTypes, CallerTypes
  <2>7. CASE IncreaseParallelism \/ DecreaseParallelism
    BY <2>7 DEF IncreaseParallelism, DecreaseParallelism, WakeIf, QueueTypes,
       CounterTypes, CallerTypes
  <2>8. ASSUME NEW e \in Entry, HandleResult(e) \/ RejectTick(e) PROVE TypeOK'
    <3>1. Release(e, "answered") \/ Release(e, "refused")
      BY <2>8 DEF HandleResult, RejectTick
    <3>2. loop' = loop /\ inCall' = inCall
      BY <3>1 DEF Release
    <3>3. QueueTypes' /\ CounterTypes'
      BY <3>1, <3>2 DEF Release, WakeIf, QueueTypes, CounterTypes
    <3>4. CallerTypes'
      BY <3>1 DEF Release, Finish, CallerTypes
    <3> QED
      BY <3>3, <3>4
  <2>9. CASE RunImmediate
    <3>1. QueueTypes' /\ CallerTypes'
      BY <2>9 DEF RunImmediate, QueueTypes, CallerTypes
    <3>2. loop' \in Queue
      BY <2>9 DEF RunImmediate, Queue, Root
    <3>3. /\ immediates' \in Nat
          /\ active' \in Int
          /\ par' \in Parallelism .. Parallelism + MaxExtra
      BY <2>9 DEF RunImmediate, CounterTypes
    <3>4. will' \in BOOLEAN /\ need' \in BOOLEAN /\ inCall' \in BOOLEAN
      BY <2>9 DEF RunImmediate, CounterTypes
    <3>5. CounterTypes'
      BY <3>2, <3>3, <3>4, Zenon DEF CounterTypes
    <3> QED
      BY <3>1, <3>5
  <2>10. ASSUME NEW q \in Queue, NEW e \in Entry, StartEntry(q, e) PROVE TypeOK'
    BY <2>10 DEF StartEntry, TakeSlot, QueueTypes, CounterTypes, CallerTypes
  <2>11. ASSUME NEW q \in Queue, LeaveQueue(q) PROVE TypeOK'
    <3>1. QueueTypes' /\ CallerTypes'
      BY <2>11 DEF LeaveQueue, QueueTypes, CallerTypes
    <3>2. loop' \in Queue \cup {Off}
      BY <2>11 DEF LeaveQueue, NextQueue, Queue, Root
    <3>3. CounterTypes'
      BY <2>11, <3>2 DEF LeaveQueue, CounterTypes
    <3> QED
      BY <3>1, <3>3
  <2>12. CASE UNCHANGED vars
    BY <2>12 DEF vars, QueueTypes, CounterTypes, CallerTypes
  <2> QED
    BY <2>1, <2>2, <2>3, <2>4, <2>5, <2>6, <2>7, <2>8, <2>9, <2>10, <2>11, <2>12
       DEF Next, ClientCall, EnsureProcessing, AddSync, AddResume
<1> QED
  BY <1>1, <1>2, PTL DEF Spec

(***************************************************************************)
(* Where an entry can be.                                                  *)
(***************************************************************************)

\* Steps that touch no entry.
LEMMA UntouchedStructure ==
  ASSUME StructureInv, UNCHANGED <<entries, queued, state, created>>
  PROVE  Numbering' /\ Placement'
BY DEF StructureInv, Numbering, Placement, QueuedIsMapped

\* A queued entry is in one list and in the map of that queue, whatever is
\* stopped, invalidated, cleared or finished.
THEOREM StructureCorrect == Spec => []StructureInv
<1>1. Init => Numbering /\ Placement
  BY QueueAssumption DEF QueueAssumption, Init, Numbering, Placement,
     QueuedIsMapped, Entry, NoEntry, Queue, Root
<1>2. StructureInv /\ TypeOK' /\ [Next]_vars => StructureInv'
  <2> SUFFICES ASSUME StructureInv, TypeOK', [Next]_vars
               PROVE  Numbering' /\ Placement'
    BY DEF StructureInv
  <2> USE DEF StructureInv, TypeOK, QueueTypes, counters, position, callers
  <2>1. ASSUME NEW c \in Caller,
               AddRefused(c) \/ AddAsync(c) \/ AddFails(c) \/ WaitFor(c)
        PROVE  Numbering' /\ Placement'
    BY <2>1, UntouchedStructure DEF AddRefused, AddAsync, AddFails, WaitFor
  <2>2. ASSUME NEW c \in Caller, AfterBeforeAdd(c) PROVE Numbering' /\ Placement'
    <3> DEFINE q == wants[c][1]
               k == wants[c][2]
               n == created + 1
    <3>1. q \in Queue /\ k \in Key
      BY DEF CallerTypes
    <3> HIDE DEF q, k
    <3>2. CASE JoinEntry(c, q, k)
      BY <3>2, UntouchedStructure DEF JoinEntry
    <3>3. ASSUME created < MaxEntries
          PROVE  n \in Entry /\ state[n] = "free" /\ \A r \in Queue : n \notin queued[r]
      <4>1. n \in Entry /\ n > created
        BY <3>3, QueueAssumption DEF QueueAssumption, Entry
      <4>2. state[n] = "free"
        BY <4>1 DEF Numbering
      <4> QED
        BY <4>1, <4>2 DEF Placement, QueuedIsMapped
    <3>4. CASE RejectEntry(c, q, k)
      <4>1. n \in Entry /\ state[n] = "free" /\ \A r \in Queue : n \notin queued[r]
        BY <3>3, <3>4 DEF RejectEntry
      <4>2. /\ state' = [state EXCEPT ![n] = "stopping"]
            /\ created' = n
            /\ UNCHANGED <<entries, queued>>
        BY <3>4 DEF RejectEntry
      <4>3. Numbering'
        <5>1. \A e \in Entry : state'[e] = "free" <=> e > n
          BY <4>1, <4>2, QueueAssumption DEF QueueAssumption, Numbering, Entry
        <5>2. \A r \in Queue, x \in Key : entries[r][x] <= n
          BY QueueAssumption DEF QueueAssumption, Numbering, Entry, NoEntry
        <5> QED
          BY <4>2, <5>1, <5>2 DEF Numbering
      <4>4. Placement'
        BY <4>1, <4>2 DEF Placement, QueuedIsMapped
      <4> QED
        BY <4>3, <4>4
    <3>5. CASE NewEntry(c, q, k)
      <4>1. n \in Entry /\ state[n] = "free" /\ \A r \in Queue : n \notin queued[r]
        BY <3>3, <3>5 DEF NewEntry
      <4>2. /\ state' = [state EXCEPT ![n] = "queued"]
            /\ created' = n
            /\ entries' = [entries EXCEPT ![q] = [@ EXCEPT ![k] = n]]
            /\ queued' = [queued EXCEPT ![q] = @ \cup {n}]
            /\ entries[q][k] = NoEntry
        BY <3>5 DEF NewEntry
      <4>3. \A r \in Queue, x \in Key :
               entries'[r][x] = IF r = q /\ x = k THEN n ELSE entries[r][x]
        BY <3>1, <4>2
      <4>4. \A r \in Queue : queued'[r] = IF r = q THEN queued[r] \cup {n} ELSE queued[r]
        BY <3>1, <4>2
      <4>5. Numbering'
        BY <3>1, <4>1, <4>2, <4>3 DEF Numbering, Entry, NoEntry
      <4>6. \A r \in Queue, x \in Key : entries[r][x] # n
        BY DEF Numbering, Entry, NoEntry
      <4>7. Placement'
        <5>1. QueuedIsMapped'
          BY <3>1, <4>1, <4>2, <4>3, <4>4 DEF Placement, QueuedIsMapped, NoEntry, Entry
        <5>2. \A r \in Queue, x \in Key, e \in Entry :
                 entries'[r][x] = e /\ state'[e] = "queued" => e \in queued'[r]
          BY <3>1, <4>1, <4>2, <4>3, <4>4, <4>6 DEF Placement
        <5> QED
          BY <5>1, <5>2 DEF Placement
      <4> QED
        BY <4>5, <4>7
    <3> QED
      BY <2>2, <3>2, <3>4, <3>5 DEF AfterBeforeAdd, q, k
  <2>3. ASSUME NEW q \in Queue, NEW k \in Key, Invalidate(q, k)
        PROVE  Numbering' /\ Placement'
    <3> DEFINE e == entries[q][k]
    <3>1. e \in Entry
      BY <2>3 DEF Invalidate
    <3>2. /\ created' = created
          /\ entries' = [entries EXCEPT ![q] = [@ EXCEPT ![k] = NoEntry]]
      BY <2>3 DEF Invalidate
    <3>3. \A r \in Queue, x \in Key :
             entries'[r][x] = IF r = q /\ x = k THEN NoEntry ELSE entries[r][x]
      BY <3>2
    <3>4. CASE state[e] = "queued"
      <4>1. /\ queued' = [queued EXCEPT ![q] = @ \ {e}]
            /\ state' = [state EXCEPT ![e] = "dropped"]
        BY <2>3, <3>4 DEF Invalidate
      <4>2. e \in queued[q]
        BY <3>1, <3>4 DEF Placement
      <4>3. \A r \in Queue : e \notin queued'[r]
        BY <3>1, <4>1, <4>2 DEF Placement, QueuedIsMapped
      <4> HIDE DEF e
      <4>4. Numbering'
        BY <3>1, <3>2, <3>3, <3>4, <4>1 DEF Numbering, Entry, NoEntry
      <4>5. \A r \in Queue : queued'[r] \subseteq queued[r]
        BY <4>1
      <4>6. QueuedIsMapped'
        <5> SUFFICES ASSUME NEW r \in Queue, NEW f \in queued'[r]
                     PROVE  /\ state'[f] = "queued"
                            /\ \E x \in Key : entries'[r][x] = f
                            /\ \A t \in Queue \ {r} : f \notin queued'[t]
          BY DEF QueuedIsMapped
        <5>1. f \in queued[r] /\ f # e /\ f \in Entry
          BY <4>3, <4>5
        <5>2. state[f] = "queued" /\ \A t \in Queue \ {r} : f \notin queued[t]
          BY <5>1 DEF Placement, QueuedIsMapped
        <5>3. PICK x \in Key : entries[r][x] = f
          BY <5>1 DEF Placement, QueuedIsMapped
        <5>4. entries'[r][x] = f
          BY <3>3, <5>1, <5>3 DEF e
        <5> QED
          BY <4>1, <4>5, <5>1, <5>2, <5>4
      <4>7. Placement'
        <5> SUFFICES ASSUME NEW r \in Queue, NEW x \in Key, NEW f \in Entry,
                            entries'[r][x] = f, state'[f] = "queued"
                     PROVE  f \in queued'[r]
          BY <4>6 DEF Placement
        <5>1. f # e /\ state[f] = "queued"
          BY <4>1
        <5>2. entries[r][x] = f
          BY <3>3, <5>1 DEF Entry, NoEntry
        <5> QED
          BY <4>1, <5>1, <5>2 DEF Placement
      <4> QED
        BY <4>4, <4>7
    <3>5. CASE state[e] # "queued"
      <4>1. UNCHANGED <<queued, state>>
        BY <2>3, <3>5 DEF Invalidate
      <4> HIDE DEF e
      <4>2. Numbering'
        BY <3>2, <3>3, <4>1 DEF Numbering, NoEntry
      <4>3. QueuedIsMapped'
        <5> SUFFICES ASSUME NEW r \in Queue, NEW f \in queued[r]
                     PROVE  \E x \in Key : entries'[r][x] = f
          BY <4>1 DEF Placement, QueuedIsMapped
        <5>1. PICK x \in Key : entries[r][x] = f
          BY DEF Placement, QueuedIsMapped
        <5>2. state[f] = "queued"
          BY DEF Placement, QueuedIsMapped
        <5> QED
          BY <3>3, <3>5, <5>1, <5>2 DEF e
      <4>4. Placement'
        BY <3>3, <4>1, <4>3 DEF Placement, Entry, NoEntry
      <4> QED
        BY <4>2, <4>4
    <3> QED
      BY <3>4, <3>5
  <2>4. ASSUME NEW q \in Queue, Stop(q) PROVE Numbering' /\ Placement'
    <3>1. /\ created' = created
          /\ queued' = [queued EXCEPT ![q] = {}]
          /\ state' = [e \in Entry |-> IF e \in queued[q] THEN "done" ELSE state[e]]
          /\ entries' = [entries EXCEPT ![q] =
                            [x \in Key |-> IF @[x] \in queued[q] THEN NoEntry ELSE @[x]]]
      BY <2>4 DEF Stop
    <3>2. \A r \in Queue, x \in Key :
             entries'[r][x] = IF r = q /\ entries[q][x] \in queued[q]
                              THEN NoEntry ELSE entries[r][x]
      BY <3>1
    <3>3. Numbering'
      BY <3>1, <3>2 DEF Numbering, Placement, QueuedIsMapped, Entry, NoEntry
    <3>4. QueuedIsMapped'
      BY <3>1, <3>2 DEF Placement, QueuedIsMapped
    <3>5. Placement'
      BY <3>1, <3>2, <3>4 DEF Placement, QueuedIsMapped, Entry, NoEntry
    <3> QED
      BY <3>3, <3>5
  <2>5. ASSUME NEW q \in Queue, Clear(q) PROVE Numbering' /\ Placement'
    <3>1. /\ created' = created
          /\ state' = state
          /\ queued' = [queued EXCEPT ![q] = {}]
          /\ entries' = [entries EXCEPT ![q] = [x \in Key |-> NoEntry]]
      BY <2>5 DEF Clear
    <3>2. Numbering'
      BY <3>1 DEF Numbering, NoEntry
    <3>3. Placement'
      BY <3>1 DEF Placement, QueuedIsMapped, Entry, NoEntry
    <3> QED
      BY <3>2, <3>3
  <2>6. ASSUME NEW e \in Entry, HandleResult(e) \/ RejectTick(e)
        PROVE  Numbering' /\ Placement'
    <3>1. /\ state' = [state EXCEPT ![e] = "done"]
          /\ UNCHANGED <<entries, queued, created>>
          /\ state[e] \in {"processing", "stopping"}
      BY <2>6 DEF HandleResult, RejectTick, Release
    <3>2. Numbering'
      BY <3>1 DEF Numbering
    <3>3. Placement'
      BY <3>1 DEF Placement, QueuedIsMapped
    <3> QED
      BY <3>2, <3>3
  <2>7. ASSUME NEW q \in Queue, NEW e \in Entry, StartEntry(q, e)
        PROVE  Numbering' /\ Placement'
    <3>1. /\ state' = [state EXCEPT ![e] = "processing"]
          /\ queued' = [queued EXCEPT ![q] = @ \ {e}]
          /\ UNCHANGED <<entries, created>>
          /\ e \in queued[q]
      BY <2>7 DEF StartEntry
    <3>2. Numbering'
      BY <3>1 DEF Numbering, Placement, QueuedIsMapped
    <3>3. Placement'
      BY <3>1 DEF Placement, QueuedIsMapped
    <3> QED
      BY <3>2, <3>3
  <2>8. CASE IncreaseParallelism \/ DecreaseParallelism \/ RunImmediate
    BY <2>8, UntouchedStructure DEF IncreaseParallelism, DecreaseParallelism,
       RunImmediate
  <2>9. ASSUME NEW q \in Queue, LeaveQueue(q) PROVE Numbering' /\ Placement'
    BY <2>9, UntouchedStructure DEF LeaveQueue
  <2>10. CASE UNCHANGED vars
    BY <2>10, UntouchedStructure DEF vars
  <2> QED
    BY <2>1, <2>2, <2>3, <2>4, <2>5, <2>6, <2>7, <2>8, <2>9, <2>10
       DEF Next, ClientCall, EnsureProcessing, AddSync, AddResume
<1> QED
  BY <1>1, <1>2, TypeCorrect, PTL DEF Spec, StructureInv

\* Corollary: the property of that name.
THEOREM QueuedIsMappedCorrect == Spec => []QueuedIsMapped
<1>1. StructureInv => QueuedIsMapped
  BY DEF StructureInv, Placement
<1> QED
  BY <1>1, StructureCorrect, PTL

(***************************************************************************)
(* Stopped queues.                                                         *)
(***************************************************************************)

\* Nothing is ever queued behind stop(), by any interleaving with the hooks of
\* add(): the second look at `_stopped` suffices.
THEOREM StoppedQueueEmptyCorrect == Spec => []StoppedQueueEmpty
<1>1. Init => StoppedQueueEmpty
  BY DEF Init, StoppedQueueEmpty
<1>2. TypeOK /\ StoppedQueueEmpty /\ [Next]_vars => StoppedQueueEmpty'
  <2> SUFFICES ASSUME TypeOK, StoppedQueueEmpty, [Next]_vars PROVE StoppedQueueEmpty'
    OBVIOUS
  <2> USE DEF TypeOK, QueueTypes, StoppedQueueEmpty
  <2>1. ASSUME NEW c \in Caller, AfterBeforeAdd(c) PROVE StoppedQueueEmpty'
    <3>1. wants[c][1] \in Queue
      BY DEF CallerTypes
    <3> QED
      BY <2>1, <3>1 DEF AfterBeforeAdd, JoinEntry, RejectEntry, NewEntry, Enter
  <2>2. ASSUME NEW q \in Queue, Stop(q) PROVE StoppedQueueEmpty'
    BY <2>2 DEF Stop
  <2>3. ASSUME NEW q \in Queue, Clear(q) PROVE StoppedQueueEmpty'
    BY <2>3 DEF Clear
  <2>4. ASSUME NEW q \in Queue, NEW k \in Key, Invalidate(q, k) PROVE StoppedQueueEmpty'
    BY <2>4 DEF Invalidate
  <2>5. ASSUME NEW q \in Queue, NEW e \in Entry, StartEntry(q, e)
        PROVE  StoppedQueueEmpty'
    BY <2>5 DEF StartEntry
  <2>6. CASE UNCHANGED <<queued, stopped>>
    BY <2>6
  <2> QED
    BY <2>1, <2>2, <2>3, <2>4, <2>5, <2>6
       DEF Next, vars, ClientCall, EnsureProcessing, AddSync, AddResume, AddRefused,
           AddAsync, AddFails, WaitFor, IncreaseParallelism, DecreaseParallelism,
           HandleResult, RejectTick, Release, RunImmediate, LeaveQueue
<1> QED
  BY <1>1, <1>2, TypeCorrect, PTL DEF Spec

(***************************************************************************)
(* Wake-ups.                                                               *)
(***************************************************************************)

\* A conditional wake-up keeps the last conjunct of Wakeup and, when the loop
\* is not running and the condition holds, leaves an immediate behind.
LEMMA WakeIfWakes ==
  ASSUME TypeOK, TypeOK', will => immediates > 0 \/ loop = Root, loop' = loop,
         NEW b \in BOOLEAN, WakeIf(b)
  PROVE  /\ will' => immediates' > 0 \/ loop' = Root
         /\ will => will'
         /\ b => will'
         /\ b /\ loop = Off => immediates' > 0
         /\ immediates > 0 => immediates' > 0
<1> USE DEF TypeOK, CounterTypes, WakeIf
<1>1. CASE b /\ ~will
  <2>1. will' /\ immediates' = immediates + 1
    BY <1>1
  <2>2. immediates' > 0
    BY <2>1
  <2> QED
    BY <1>1, <2>1, <2>2
<1>2. CASE ~b
  BY <1>2
<1>3. CASE b /\ will
  <2>1. will' /\ immediates' = immediates
    BY <1>3
  <2>2. Off # Root
    BY DEF Off, Root
  <2> QED
    BY <1>3, <2>1, <2>2
<1> QED
  BY <1>1, <1>2, <1>3

\* Every queue after a step is contained in the queue before it: enough for
\* the parts of Wakeup about waiting entries when the rest is unchanged.
LEMMA ShrinkingKeepsWakeup ==
  ASSUME TypeOK, TypeOK', Wakeup, loop' = loop, par' = par, active' >= active,
         need' = need,
         \A q \in Queue : queued'[q] \subseteq queued[q],
         NEW b \in BOOLEAN, WakeIf(b)
  PROVE  Wakeup'
<1>1. /\ will' => immediates' > 0 \/ loop' = Root
      /\ will => will'
      /\ immediates > 0 => immediates' > 0
  BY WakeIfWakes DEF Wakeup
<1>2. \A q \in Queue : queued'[q] # {} => queued[q] # {}
  OBVIOUS
<1>3. NoLostWakeup'
  BY <1>1, <1>2, QueueAssumption DEF QueueAssumption, Wakeup, NoLostWakeup, TypeOK,
     CounterTypes
<1> QED
  BY <1>1, <1>2, <1>3 DEF Wakeup

\* No wake-up is lost, for any number of queues and any parallelism.
THEOREM WakeupCorrect == Spec => []Wakeup
<1>1. Init => Wakeup
  BY DEF Init, Wakeup, NoLostWakeup
<1>2. StructureInv /\ StructureInv' /\ Wakeup /\ [Next]_vars => Wakeup'
  <2> SUFFICES ASSUME StructureInv, StructureInv', Wakeup, [Next]_vars
               PROVE  Wakeup'
    OBVIOUS
  <2>0. /\ TypeOK /\ TypeOK'
        /\ active \in Int /\ active' \in Int /\ par \in Int /\ par' \in Int
        /\ immediates \in Nat /\ immediates' \in Nat
        /\ queued \in [Queue -> SUBSET Entry]
        /\ need \in BOOLEAN
    BY QueueAssumption DEF QueueAssumption, StructureInv, TypeOK, CounterTypes,
       QueueTypes
  <2> USE DEF counters, position, callers
  <2>1. ASSUME NEW c \in Caller, AfterBeforeAdd(c) PROVE Wakeup'
    <3> DEFINE q == wants[c][1]
               k == wants[c][2]
    <3>1. q \in Queue /\ k \in Key /\ loop' = loop
      BY <2>0, <2>1 DEF AfterBeforeAdd, TypeOK, CallerTypes
    <3> HIDE DEF q, k
    <3>2. CASE JoinEntry(c, q, k)
      BY <3>1, <3>2 DEF JoinEntry, Wakeup, NoLostWakeup
    <3>3. CASE RejectEntry(c, q, k)
      BY <2>0, <3>1, <3>3 DEF RejectEntry, TakeSlot, Wakeup, NoLostWakeup
    <3>4. CASE NewEntry(c, q, k)
      <4>1. need' = TRUE /\ WakeIf(TRUE) /\ active' = active /\ par' = par
        BY <3>4 DEF NewEntry
      <4>2. /\ will' => immediates' > 0 \/ loop' = Root
            /\ will'
            /\ loop = Off => immediates' > 0
        BY <2>0, <3>1, <4>1, WakeIfWakes DEF Wakeup
      <4> QED
        BY <3>1, <4>1, <4>2 DEF Wakeup, NoLostWakeup
    <3> QED
      BY <2>1, <3>2, <3>3, <3>4 DEF AfterBeforeAdd, q, k
  <2>2. ASSUME NEW q \in Queue, NEW k \in Key, Invalidate(q, k) PROVE Wakeup'
    <3>1. \A r \in Queue : queued'[r] \subseteq queued[r]
      BY <2>0, <2>2 DEF Invalidate
    <3>2. /\ UNCHANGED <<loop, par, need>>
          /\ WakeIf(FALSE)
          /\ active' >= active
      BY <2>0, <2>2 DEF Invalidate, WakeIf, TypeOK, CounterTypes
    <3> QED
      BY <2>0, <3>1, <3>2, ShrinkingKeepsWakeup
  <2>3. ASSUME NEW q \in Queue, Stop(q) PROVE Wakeup'
    <3>1. \A r \in Queue : queued'[r] \subseteq queued[r]
      BY <2>0, <2>3 DEF Stop
    <3> DEFINE b == queued[q] # {} /\ need
    <3>2. /\ UNCHANGED <<loop, par, need>>
          /\ WakeIf(b)
          /\ active' >= active
      BY <2>0, <2>3 DEF Stop
    <3>3. b \in BOOLEAN
      BY <2>0
    <3> HIDE DEF b
    <3> QED
      BY <2>0, <3>1, <3>2, <3>3, ShrinkingKeepsWakeup
  <2>4. ASSUME NEW q \in Queue, Clear(q) PROVE Wakeup'
    <3>1. \A r \in Queue : queued[r] = {}
      BY <2>0, <2>4 DEF Clear, Quiet, Live, StructureInv, Placement, QueuedIsMapped
    <3>2. \A r \in Queue : queued'[r] = {}
      BY <2>0, <2>4, <3>1 DEF Clear
    <3>3. (will' => will) /\ UNCHANGED <<immediates, loop>>
      BY <2>4 DEF Clear
    <3> QED
      BY <3>2, <3>3 DEF Wakeup, NoLostWakeup
  <2>5. CASE IncreaseParallelism
    <3>1. UNCHANGED <<loop, active, need, queued>> /\ WakeIf(need)
      BY <2>5 DEF IncreaseParallelism
    <3>2. /\ will' => immediates' > 0 \/ loop' = Root
          /\ will => will'
          /\ need /\ loop = Off => immediates' > 0
      BY <2>0, <3>1, WakeIfWakes DEF Wakeup
    <3> QED
      BY <3>1, <3>2 DEF Wakeup, NoLostWakeup
  <2>6. CASE DecreaseParallelism
    BY <2>0, <2>6 DEF DecreaseParallelism, Wakeup, NoLostWakeup
  <2>7. ASSUME NEW e \in Entry, HandleResult(e) \/ RejectTick(e) PROVE Wakeup'
    <3>1. UNCHANGED <<loop, par, need, queued>> /\ WakeIf(need)
      BY <2>7 DEF HandleResult, RejectTick, Release
    <3>2. /\ will' => immediates' > 0 \/ loop' = Root
          /\ will => will'
          /\ need /\ loop = Off => immediates' > 0
      BY <2>0, <3>1, WakeIfWakes DEF Wakeup
    <3> QED
      BY <3>1, <3>2 DEF Wakeup, NoLostWakeup
  <2>8. CASE RunImmediate
    BY <2>8, QueueAssumption DEF QueueAssumption, RunImmediate, Wakeup, NoLostWakeup,
       Queue, Root, Off
  <2>9. ASSUME NEW q \in Queue, NEW e \in Entry, StartEntry(q, e) PROVE Wakeup'
    <3>1. \A r \in Queue : queued'[r] \subseteq queued[r]
      BY <2>0, <2>9 DEF StartEntry
    <3>2. /\ UNCHANGED <<loop, par, need>>
          /\ WakeIf(FALSE)
          /\ active' >= active
      BY <2>0, <2>9 DEF StartEntry, WakeIf, TypeOK, CounterTypes, TakeSlot
    <3> QED
      BY <2>0, <3>1, <3>2, ShrinkingKeepsWakeup
  <2>10. ASSUME NEW q \in Queue, LeaveQueue(q) PROVE Wakeup'
    <3>1. /\ loop = q
          /\ active >= par \/ queued[q] = {}
          /\ will' = (q # Root /\ will)
          /\ loop' = NextQueue(q)
          /\ need' = (need /\ StillNeeded(q))
          /\ UNCHANGED <<queued, active, par, immediates>>
      BY <2>10 DEF LeaveQueue
    <3>2. q \in Int /\ q # Off /\ NumChildren \in Int /\ Root = 0 /\ q >= 0
      BY QueueAssumption DEF QueueAssumption, Queue, Root, Off
    \* A queue the loop has passed still has entries only if will is set.
    <3>3. \A r \in Queue : r < q /\ queued[r] # {} => will /\ q # Root
      BY <3>1, <3>2 DEF Wakeup, Queue
    <3>4. will' => immediates' > 0
      BY <3>1, <3>2 DEF Wakeup
    <3>5. \A r \in Queue : queued[r] # {} => need'
      <4> SUFFICES ASSUME NEW r \in Queue, queued[r] # {} PROVE StillNeeded(q)
        BY <3>1 DEF Wakeup
      <4>1. r \in 0 .. NumChildren
        BY DEF Queue, Root
      <4>2. CASE r < q
        BY <3>3, <4>2 DEF StillNeeded
      <4>3. CASE r = q
        BY <4>3 DEF StillNeeded
      <4>4. CASE r > q
        BY <3>2, <4>1, <4>4 DEF StillNeeded
      <4> QED
        BY <3>2, <4>1, <4>2, <4>3, <4>4
    <3>6. \A r \in Queue : loop' # Off /\ r < loop' /\ queued[r] # {} => will'
      <4> SUFFICES ASSUME NEW r \in Queue, loop' # Off, r < loop', queued[r] # {}
                   PROVE  will'
        OBVIOUS
      <4>1. loop' = q + 1 /\ queued[q] = {}
        BY <3>1 DEF NextQueue
      <4>2. r < q
        BY <3>2, <4>1, QueueAssumption DEF QueueAssumption, Queue, Root
      <4> QED
        BY <3>1, <3>3, <4>2
    <3>7. NoLostWakeup'
      <4> SUFFICES ASSUME loop' = Off, active < par, NEW r \in Queue, queued[r] # {}
                   PROVE  immediates' > 0
        BY <3>1 DEF NoLostWakeup
      <4>1. queued[q] = {}
        BY <2>0, <3>1
      <4>2. q = NumChildren
        BY <3>1, <3>2, <4>1, QueueAssumption
           DEF QueueAssumption, NextQueue, Queue, Root, Off
      <4>3. r < q
        BY <3>2, <4>1, <4>2, QueueAssumption DEF QueueAssumption, Queue, Root
      <4> QED
        BY <3>1, <3>3, <3>4, <4>3
    <3> QED
      BY <3>1, <3>4, <3>5, <3>6, <3>7 DEF Wakeup
  <2>11. CASE UNCHANGED <<queued, active, par, will, need, immediates, loop>>
    BY <2>11 DEF Wakeup, NoLostWakeup
  <2> QED
    BY <2>1, <2>2, <2>3, <2>4, <2>5, <2>6, <2>7, <2>8, <2>9, <2>10, <2>11
       DEF Next, vars, ClientCall, EnsureProcessing, AddSync, AddResume, AddRefused,
           AddAsync, AddFails, WaitFor
<1> QED
  BY <1>1, <1>2, StructureCorrect, PTL DEF Spec

\* Corollary: the property of that name.
THEOREM NoLostWakeupCorrect == Spec => []NoLostWakeup
<1>1. Wakeup => NoLostWakeup
  BY DEF Wakeup
<1> QED
  BY <1>1, WakeupCorrect, PTL

(***************************************************************************)
(* Callbacks.                                                              *)
(***************************************************************************)

Answering == Live \cup {e \in Entry : state[e] = "dropped"}

\* Steps that leave the callbacks alone and take no entry out of Answering.
LEMMA AnsweringGrows ==
  ASSUME NoOrphanedCallback, UNCHANGED <<call, on>>, Answering \subseteq Answering'
  PROVE  NoOrphanedCallback'
BY DEF NoOrphanedCallback, Answering

\* An accepted callback always belongs to an entry that will answer it, or that
\* was invalidated while it was queued.
THEOREM NoOrphanedCallbackCorrect == Spec => []NoOrphanedCallback
<1>1. Init => NoOrphanedCallback
  BY DEF Init, NoOrphanedCallback
<1>2. StructureInv /\ NoOrphanedCallback /\ [Next]_vars => NoOrphanedCallback'
  <2> SUFFICES ASSUME StructureInv, NoOrphanedCallback, [Next]_vars
               PROVE  NoOrphanedCallback'
    OBVIOUS
  <2>0. /\ state \in [Entry -> EntryState]
        /\ call \in [Caller -> CallStatus]
        /\ on \in [Caller -> Entry \cup {NoEntry}]
        /\ wants \in [Caller -> Queue \X Key]
        /\ entries \in [Queue -> [Key -> Entry \cup {NoEntry}]]
        /\ queued \in [Queue -> SUBSET Entry]
    BY DEF StructureInv, TypeOK, QueueTypes, CallerTypes
  \* An entry of a map that is not done can answer.
  <2>1. \A q \in Queue, k \in Key :
           entries[q][k] # NoEntry /\ state[entries[q][k]] # "done"
              => entries[q][k] \in Answering
    <3> SUFFICES ASSUME NEW q \in Queue, NEW k \in Key, entries[q][k] # NoEntry,
                        state[entries[q][k]] # "done"
                 PROVE  entries[q][k] \in Answering
      OBVIOUS
    <3>1. entries[q][k] \in Entry
      BY <2>0
    <3>2. entries[q][k] <= created /\ created \in Int
      BY DEF StructureInv, Numbering, TypeOK, QueueTypes
    <3>3. state[entries[q][k]] # "free"
      BY <3>1, <3>2 DEF StructureInv, Numbering, Entry
    <3> QED
      BY <2>0, <3>1, <3>3 DEF Answering, Live, EntryState
  <2>2. \A c \in Caller : wants[c][1] \in Queue /\ wants[c][2] \in Key
    BY <2>0
  <2>3. ASSUME NEW c \in Caller, AddRefused(c) \/ AddAsync(c) \/ AddFails(c)
        PROVE  NoOrphanedCallback'
    BY <2>0, <2>3 DEF AddRefused, AddAsync, AddFails, Reply, NoOrphanedCallback, Live
  <2>4. ASSUME NEW c \in Caller, NEW e \in Answering, Attach(c, e), UNCHANGED state
        PROVE  NoOrphanedCallback'
    BY <2>0, <2>4 DEF Attach, NoOrphanedCallback, Answering, Live
  <2>5. ASSUME NEW c \in Caller, Reply(c, "answered") \/ Reply(c, "refused"),
               UNCHANGED state
        PROVE  NoOrphanedCallback'
    BY <2>0, <2>5 DEF Reply, NoOrphanedCallback, Live
  <2>6. ASSUME NEW c \in Caller, AfterBeforeAdd(c) PROVE NoOrphanedCallback'
    <3> DEFINE q == wants[c][1]
               k == wants[c][2]
               n == created + 1
    <3>1. CASE JoinEntry(c, q, k)
      BY <2>1, <2>2, <2>4, <2>5, <3>1 DEF JoinEntry
    <3>2. ASSUME NEW s \in {"stopping", "queued"}, state' = [state EXCEPT ![n] = s],
                 Attach(c, n), created < MaxEntries
          PROVE  NoOrphanedCallback'
      <4>1. n \in Entry /\ n > created
        BY <3>2, QueueAssumption
           DEF QueueAssumption, Entry, StructureInv, TypeOK, QueueTypes
      <4>2. state[n] = "free"
        BY <4>1 DEF StructureInv, Numbering
      <4>3. n \in Answering' /\ Answering \subseteq Answering'
        BY <2>0, <3>2, <4>1, <4>2 DEF Answering, Live
      <4> HIDE DEF n
      <4> QED
        BY <2>0, <3>2, <4>3 DEF Attach, NoOrphanedCallback, Answering
    <3> QED
      BY <2>6, <3>1, <3>2 DEF AfterBeforeAdd, RejectEntry, NewEntry
  <2>7. ASSUME NEW c \in Caller, WaitFor(c) PROVE NoOrphanedCallback'
    BY <2>1, <2>2, <2>4, <2>5, <2>7 DEF WaitFor
  <2>8. ASSUME NEW q \in Queue, NEW k \in Key, Invalidate(q, k)
        PROVE  NoOrphanedCallback'
    <3>1. Answering \subseteq Answering'
      BY <2>0, <2>8 DEF Invalidate, Answering, Live
    <3> QED
      BY <2>8, <3>1, AnsweringGrows DEF Invalidate, callers
  <2>9. ASSUME NEW q \in Queue, Stop(q) PROVE NoOrphanedCallback'
    BY <2>0, <2>9 DEF Stop, Finish, NoOrphanedCallback, Live
  <2>10. ASSUME NEW e \in Entry, HandleResult(e) \/ RejectTick(e)
         PROVE  NoOrphanedCallback'
    BY <2>0, <2>10
       DEF HandleResult, RejectTick, Release, Finish, NoOrphanedCallback, Live
  <2>11. ASSUME NEW q \in Queue, NEW e \in Entry, StartEntry(q, e)
         PROVE  NoOrphanedCallback'
    <3>1. Answering \subseteq Answering'
      BY <2>0, <2>11 DEF StartEntry, Answering, Live
    <3> QED
      BY <2>11, <3>1, AnsweringGrows DEF StartEntry, callers
  <2>12. CASE UNCHANGED <<state, call, on>>
    BY <2>12 DEF NoOrphanedCallback, Live
  <2> QED
    BY <2>3, <2>6, <2>7, <2>8, <2>9, <2>10, <2>11, <2>12
       DEF Next, vars, callers, ClientCall, EnsureProcessing, AddSync, AddResume,
           Clear, IncreaseParallelism, DecreaseParallelism, RunImmediate, LeaveQueue
<1> QED
  BY <1>1, <1>2, StructureCorrect, PTL DEF Spec

(***************************************************************************)
(* Slots.                                                                  *)
(***************************************************************************)

\* Entry is finite, so its subsets can be counted.
LEMMA InFlightFinite == IsFiniteSet(InFlight) /\ IsFiniteSet(InFlight')
<1>1. IsFiniteSet(Entry)
  BY FS_Interval, QueueAssumption DEF QueueAssumption, Entry
<1>2. InFlight \subseteq Entry /\ InFlight' \subseteq Entry
  BY DEF InFlight
<1> QED
  BY <1>1, <1>2, FS_Subset

\* The root's counter of active tasks is exact, so slots are neither leaked nor
\* invented, for any sequence of operations on any number of queues.
THEOREM SlotAccountingCorrect == Spec => []SlotAccounting
<1>1. Init => SlotAccounting
  <2> SUFFICES ASSUME Init PROVE SlotAccounting
    OBVIOUS
  <2>1. InFlight = {}
    BY DEF Init, InFlight
  <2> QED
    BY <2>1, FS_EmptySet DEF Init, SlotAccounting
<1>2. StructureInv /\ SlotAccounting /\ [Next]_vars => SlotAccounting'
  <2> SUFFICES ASSUME StructureInv, SlotAccounting, [Next]_vars PROVE SlotAccounting'
    OBVIOUS
  <2>0. /\ state \in [Entry -> EntryState]
        /\ queued \in [Queue -> SUBSET Entry]
        /\ entries \in [Queue -> [Key -> Entry \cup {NoEntry}]]
    BY DEF StructureInv, TypeOK, QueueTypes
  <2>1. ASSUME InFlight' = InFlight, active' = active PROVE SlotAccounting'
    BY <2>1 DEF SlotAccounting
  \* Taking a slot for an entry, and giving it back.
  <2>2. ASSUME NEW e, e \notin InFlight, InFlight' = InFlight \cup {e}, active' = active + 1
        PROVE  SlotAccounting'
    BY <2>2, InFlightFinite, FS_AddElement DEF SlotAccounting
  <2>3. ASSUME NEW e, e \in InFlight, InFlight' = InFlight \ {e}, active' = active - 1
        PROVE  SlotAccounting'
    BY <2>3, InFlightFinite, FS_RemoveElement DEF SlotAccounting
  <2>4. ASSUME NEW c \in Caller, AfterBeforeAdd(c) PROVE SlotAccounting'
    <3> DEFINE q == wants[c][1]
               k == wants[c][2]
               n == created + 1
    <3>1. ASSUME created < MaxEntries PROVE n \in Entry /\ state[n] = "free"
      <4>1. n \in Entry /\ n > created
        BY <3>1, QueueAssumption
           DEF QueueAssumption, Entry, StructureInv, TypeOK, QueueTypes
      <4> QED
        BY <4>1 DEF StructureInv, Numbering
    <3>2. CASE JoinEntry(c, q, k)
      BY <2>1, <3>2 DEF JoinEntry, counters, InFlight
    <3>3. CASE RejectEntry(c, q, k)
      <4>1. n \in Entry /\ state[n] = "free"
        BY <3>1, <3>3 DEF RejectEntry
      <4>2. state' = [state EXCEPT ![n] = "stopping"] /\ active' = active + 1
        BY <3>3 DEF RejectEntry, TakeSlot
      <4> HIDE DEF n
      <4>3. n \notin InFlight /\ InFlight' = InFlight \cup {n}
        BY <2>0, <4>1, <4>2 DEF InFlight
      <4> QED
        BY <2>2, <4>2, <4>3
    <3>4. CASE NewEntry(c, q, k)
      <4>1. n \in Entry /\ state[n] = "free"
        BY <3>1, <3>4 DEF NewEntry
      <4>2. state' = [state EXCEPT ![n] = "queued"] /\ active' = active
        BY <3>4 DEF NewEntry
      <4> HIDE DEF n
      <4>3. InFlight' = InFlight
        BY <2>0, <4>1, <4>2 DEF InFlight
      <4> QED
        BY <2>1, <4>2, <4>3
    <3> QED
      BY <2>4, <3>2, <3>3, <3>4 DEF AfterBeforeAdd
  <2>5. ASSUME NEW q \in Queue, NEW k \in Key, Invalidate(q, k) PROVE SlotAccounting'
    <3>1. InFlight' = InFlight
      BY <2>0, <2>5 DEF Invalidate, InFlight
    <3> QED
      BY <2>1, <2>5, <3>1 DEF Invalidate, counters
  <2>6. ASSUME NEW q \in Queue, Stop(q) PROVE SlotAccounting'
    <3>1. \A e \in queued[q] : state[e] = "queued"
      BY DEF StructureInv, Placement, QueuedIsMapped
    <3>2. InFlight' = InFlight
      BY <2>0, <2>6, <3>1 DEF Stop, InFlight
    <3> QED
      BY <2>1, <2>6, <3>2 DEF Stop
  <2>7. ASSUME NEW q \in Queue, Clear(q) PROVE SlotAccounting'
    <3>1. InFlight = {} /\ InFlight' = {}
      BY <2>7 DEF Clear, Quiet, Live, InFlight
    <3>2. active = 0
      BY <3>1, FS_EmptySet DEF SlotAccounting
    <3> QED
      BY <2>1, <2>7, <3>1, <3>2 DEF Clear
  <2>8. ASSUME NEW e \in Entry, HandleResult(e) \/ RejectTick(e) PROVE SlotAccounting'
    <3>1. /\ state[e] \in {"processing", "stopping"}
          /\ state' = [state EXCEPT ![e] = "done"]
          /\ active' = active - 1
      BY <2>8 DEF HandleResult, RejectTick, Release
    <3>2. e \in InFlight /\ InFlight' = InFlight \ {e}
      BY <2>0, <3>1 DEF InFlight
    <3> QED
      BY <2>3, <3>1, <3>2
  <2>9. ASSUME NEW q \in Queue, NEW e \in Entry, StartEntry(q, e) PROVE SlotAccounting'
    <3>1. state[e] = "queued"
      BY <2>9 DEF StartEntry, StructureInv, Placement, QueuedIsMapped
    <3>2. state' = [state EXCEPT ![e] = "processing"] /\ active' = active + 1
      BY <2>9 DEF StartEntry, TakeSlot
    <3>3. e \notin InFlight /\ InFlight' = InFlight \cup {e}
      BY <2>0, <3>1, <3>2 DEF InFlight
    <3> QED
      BY <2>2, <3>2, <3>3
  <2>10. CASE UNCHANGED <<state, active>>
    BY <2>1, <2>10 DEF InFlight
  <2> QED
    BY <2>4, <2>5, <2>6, <2>7, <2>8, <2>9, <2>10
       DEF Next, vars, counters, ClientCall, EnsureProcessing, AddSync, AddResume,
           AddRefused, AddAsync, AddFails, WaitFor, IncreaseParallelism,
           DecreaseParallelism, RunImmediate, LeaveQueue
<1> QED
  BY <1>1, <1>2, StructureCorrect, PTL DEF Spec

(***************************************************************************)
(* The queues implement the family of jobs that TaskQueue specifies, for   *)
(* any number of queues, keys, callbacks and entries: every step of an     *)
(* AsyncQueue is a step of TaskQueue, or one that its callers cannot see.  *)
(* The fairness of TaskQueue is left to TLC.                               *)
(***************************************************************************)

\* What a key finds in a map is an entry that was not dropped, and no other
\* key finds it: whoever joins it is answered.
MapInv ==
    \A q \in Queue, k \in Key : entries[q][k] # NoEntry =>
        /\ state[entries[q][k]] # "dropped"
        /\ \A r \in Queue, l \in Key : entries[r][l] = entries[q][k] => r = q /\ l = k

\* Steps that enter nothing into a map and drop nothing.
LEMMA ShrinkingMaps ==
  ASSUME MapInv, TypeOK, TypeOK',
         \A q \in Queue, k \in Key : entries'[q][k] \in {entries[q][k], NoEntry},
         \A e \in Entry : state'[e] = "dropped" => state[e] = "dropped"
  PROVE  MapInv'
BY DEF MapInv, TypeOK, QueueTypes, NoEntry, Entry

\* An entry leaves the map when it is dropped, so that add() and waitFor() by
\* key never join an entry that nobody will answer.
THEOREM MapCorrect == Spec => []MapInv
<1>1. Init => MapInv
  BY DEF Init, MapInv
<1>2. StructureInv /\ StructureInv' /\ MapInv /\ [Next]_vars => MapInv'
  <2> SUFFICES ASSUME StructureInv, StructureInv', MapInv, [Next]_vars PROVE MapInv'
    OBVIOUS
  <2>0. /\ entries \in [Queue -> [Key -> Entry \cup {NoEntry}]]
        /\ state \in [Entry -> EntryState]
        /\ wants \in [Caller -> Queue \X Key]
        /\ queued \in [Queue -> SUBSET Entry]
        /\ TypeOK /\ TypeOK'
    BY DEF StructureInv, TypeOK, QueueTypes, CallerTypes
  <2>1. CASE UNCHANGED <<entries, state>>
    BY <2>1 DEF MapInv
  <2>2. ASSUME NEW c \in Caller, AfterBeforeAdd(c) PROVE MapInv'
    <3> DEFINE q == wants[c][1]
               k == wants[c][2]
               n == created + 1
    <3>1. q \in Queue /\ k \in Key
      BY <2>0
    <3>2. ASSUME created < MaxEntries
          PROVE  /\ n \in Entry /\ state[n] = "free"
                 /\ \A r \in Queue, l \in Key : entries[r][l] # n
      <4>1. n \in Entry /\ n > created
        BY <3>2, QueueAssumption
           DEF QueueAssumption, Entry, StructureInv, TypeOK, QueueTypes
      <4>2. \A r \in Queue, l \in Key : entries[r][l] <= created
        BY DEF StructureInv, Numbering
      <4>3. \A r \in Queue, l \in Key : entries[r][l] # n
        BY <2>0, <4>1, <4>2 DEF Entry, NoEntry, StructureInv, TypeOK, QueueTypes
      <4> QED
        BY <4>1, <4>3 DEF StructureInv, Numbering
    <3>3. CASE JoinEntry(c, q, k)
      BY <2>1, <3>3 DEF JoinEntry
    <3>4. CASE RejectEntry(c, q, k)
      <4>1. n \in Entry /\ state' = [state EXCEPT ![n] = "stopping"] /\ entries' = entries
        BY <3>2, <3>4 DEF RejectEntry
      <4> HIDE DEF n
      <4>2. \A e \in Entry : state'[e] = "dropped" => state[e] = "dropped"
        BY <2>0, <4>1
      <4>3. \A r \in Queue, l \in Key : entries'[r][l] \in {entries[r][l], NoEntry}
        BY <4>1
      <4> QED
        BY <2>0, <4>2, <4>3, ShrinkingMaps
    <3>5. CASE NewEntry(c, q, k)
      <4>1. /\ n \in Entry /\ state[n] = "free"
            /\ \A r \in Queue, l \in Key : entries[r][l] # n
            /\ state' = [state EXCEPT ![n] = "queued"]
            /\ entries' = [entries EXCEPT ![q] = [@ EXCEPT ![k] = n]]
        BY <3>2, <3>5 DEF NewEntry
      <4> HIDE DEF n, q, k
      <4>2. \A r \in Queue, l \in Key :
               entries'[r][l] = IF r = q /\ l = k THEN n ELSE entries[r][l]
        BY <2>0, <3>1, <4>1
      <4>3. \A e \in Entry : state'[e] = IF e = n THEN "queued" ELSE state[e]
        BY <2>0, <4>1
      <4> SUFFICES ASSUME NEW r \in Queue, NEW l \in Key, entries'[r][l] # NoEntry
                   PROVE  /\ state'[entries'[r][l]] # "dropped"
                          /\ \A s \in Queue, m \in Key :
                                entries'[s][m] = entries'[r][l] => s = r /\ m = l
        BY DEF MapInv
      <4>4. CASE r = q /\ l = k
        BY <4>1, <4>2, <4>3, <4>4
      <4>5. CASE ~(r = q /\ l = k)
        <5>1. entries'[r][l] = entries[r][l] /\ entries[r][l] # n /\ entries[r][l] \in Entry
          BY <2>0, <4>1, <4>2, <4>5
        <5>2. state[entries[r][l]] # "dropped"
          BY <5>1 DEF MapInv
        <5>3. \A s \in Queue, m \in Key : entries[s][m] = entries[r][l] => s = r /\ m = l
          BY <5>1 DEF MapInv
        <5> QED
          BY <4>2, <4>3, <5>1, <5>2, <5>3
      <4> QED
        BY <4>4, <4>5
    <3> QED
      BY <2>2, <3>3, <3>4, <3>5 DEF AfterBeforeAdd
  <2>3. ASSUME NEW q \in Queue, NEW k \in Key, Invalidate(q, k) PROVE MapInv'
    <3> DEFINE e == entries[q][k]
    <3>1. /\ e \in Entry /\ e # NoEntry
          /\ entries' = [entries EXCEPT ![q] = [@ EXCEPT ![k] = NoEntry]]
          /\ state' \in {state, [state EXCEPT ![e] = "dropped"]}
      BY <2>0, <2>3 DEF Invalidate
    <3>2. \A r \in Queue, l \in Key :
             entries'[r][l] = IF r = q /\ l = k THEN NoEntry ELSE entries[r][l]
      BY <2>0, <3>1
    <3> SUFFICES ASSUME NEW r \in Queue, NEW l \in Key, entries'[r][l] # NoEntry
                 PROVE  /\ state'[entries'[r][l]] # "dropped"
                        /\ \A s \in Queue, m \in Key :
                              entries'[s][m] = entries'[r][l] => s = r /\ m = l
      BY DEF MapInv
    <3>3. entries'[r][l] = entries[r][l] /\ ~(r = q /\ l = k)
      BY <3>2
    <3>4. /\ state[entries[r][l]] # "dropped"
          /\ \A s \in Queue, m \in Key : entries[s][m] = entries[r][l] => s = r /\ m = l
      BY <3>3 DEF MapInv
    <3>5. entries[r][l] # e
      BY <3>1, <3>3, <3>4
    <3>6. state'[entries[r][l]] = state[entries[r][l]]
      <4> HIDE DEF e
      <4> QED
        BY <2>0, <3>1, <3>5
    <3> QED
      BY <3>2, <3>3, <3>4, <3>6
  <2>4. ASSUME NEW q \in Queue, Stop(q) PROVE MapInv'
    <3>1. /\ entries' = [entries EXCEPT ![q] =
                            [k \in Key |-> IF @[k] \in queued[q] THEN NoEntry ELSE @[k]]]
          /\ state' = [e \in Entry |-> IF e \in queued[q] THEN "done" ELSE state[e]]
      BY <2>4 DEF Stop
    <3>2. \A r \in Queue, l \in Key : entries'[r][l] \in {entries[r][l], NoEntry}
      BY <2>0, <3>1
    <3>3. \A e \in Entry : state'[e] = "dropped" => state[e] = "dropped"
      BY <3>1
    <3> QED
      BY <2>0, <3>2, <3>3, ShrinkingMaps
  <2>5. ASSUME NEW q \in Queue, Clear(q) PROVE MapInv'
    <3>1. \A r \in Queue, l \in Key : entries'[r][l] \in {entries[r][l], NoEntry}
      BY <2>0, <2>5 DEF Clear
    <3>2. state' = state
      BY <2>5 DEF Clear
    <3> QED
      BY <2>0, <3>1, <3>2, ShrinkingMaps
  <2>6. ASSUME NEW e \in Entry, NEW s \in {"done", "processing"},
               entries' = entries, state' = [state EXCEPT ![e] = s]
        PROVE  MapInv'
    <3>1. \A f \in Entry : state'[f] = "dropped" => state[f] = "dropped"
      BY <2>0, <2>6
    <3> QED
      BY <2>0, <2>6, <3>1, ShrinkingMaps
  <2>7. ASSUME NEW e \in Entry, HandleResult(e) \/ RejectTick(e) PROVE MapInv'
    BY <2>6, <2>7 DEF HandleResult, RejectTick, Release
  <2>8. ASSUME NEW q \in Queue, NEW e \in Entry, StartEntry(q, e) PROVE MapInv'
    BY <2>6, <2>8 DEF StartEntry
  <2> QED
    BY <2>1, <2>2, <2>3, <2>4, <2>5, <2>7, <2>8
       DEF Next, vars, ClientCall, EnsureProcessing, AddSync, AddResume, AddRefused,
           AddAsync, AddFails, WaitFor, IncreaseParallelism, DecreaseParallelism,
           RunImmediate, LeaveQueue
<1> QED
  BY <1>1, <1>2, StructureCorrect, PTL DEF Spec

(***************************************************************************)
(* The steps.                                                              *)
(***************************************************************************)

\* What a caller finds under its key is done, or a job that it can join.
LEMMA Found ==
  ASSUME StructureInv, MapInv, NEW q \in Queue, NEW k \in Key, entries[q][k] # NoEntry
  PROVE  /\ entries[q][k] \in Entry
         /\ state[entries[q][k]] \in {"queued", "processing", "stopping", "done"}
<1>1. /\ entries[q][k] \in Entry /\ created \in Int
      /\ state \in [Entry -> EntryState]
  BY DEF StructureInv, TypeOK, QueueTypes
<1>2. entries[q][k] <= created
  BY DEF StructureInv, Numbering
<1>3. state[entries[q][k]] # "free"
  BY <1>1, <1>2 DEF StructureInv, Numbering, Entry
<1> QED
  BY <1>1, <1>3 DEF MapInv, EntryState

\* A number that has not been used belongs to a free job.
LEMMA Fresh ==
  ASSUME StructureInv, created < MaxEntries
  PROVE  created + 1 \in Entry /\ state[created + 1] = "free"
<1>1. created + 1 \in Entry /\ created + 1 > created
  BY QueueAssumption DEF QueueAssumption, Entry, StructureInv, TypeOK, QueueTypes
<1> QED
  BY <1>1 DEF StructureInv, Numbering

\* The processed jobs hold a slot each.
LEMMA WithinLimit ==
  ASSUME TypeOK, SlotAccounting, active < par
  PROVE  Cardinality(Promise!Processing) < par
<1>1. IsFiniteSet(InFlight)
  BY InFlightFinite
<1>2. Promise!Processing \subseteq InFlight
  BY DEF Promise!Processing, InFlight
<1>3. /\ IsFiniteSet(Promise!Processing)
      /\ Cardinality(Promise!Processing) <= Cardinality(InFlight)
  BY <1>1, <1>2, FS_Subset
<1>4. Cardinality(Promise!Processing) \in Nat /\ Cardinality(InFlight) \in Nat
  BY <1>1, <1>3, FS_CardinalityType
<1>5. par \in Int
  BY QueueAssumption DEF QueueAssumption, TypeOK, CounterTypes
<1> QED
  BY <1>3, <1>4, <1>5 DEF SlotAccounting

\* Every behaviour of the queues is one of TaskQueue: jobs are processed once
\* and within the limit, every caller is told the outcome of its job once, and
\* nobody is told anything else.
THEOREM StepsOfTaskQueue ==
  Spec => Promise!Init /\ [][Promise!Next]_(Promise!vars)
<1>1. Init => Promise!Init
  BY DEF Init, Promise!Init, NoEntry
<1>2. StructureInv /\ MapInv /\ SlotAccounting /\ [Next]_vars
         => [Promise!Next]_(Promise!vars)
  <2> SUFFICES ASSUME StructureInv, MapInv, SlotAccounting, [Next]_vars
               PROVE  Promise!Next \/ UNCHANGED <<state, par, call, on>>
    BY DEF Promise!vars
  <2>0. /\ state \in [Entry -> EntryState]
        /\ wants \in [Caller -> Queue \X Key]
        /\ queued \in [Queue -> SUBSET Entry]
        /\ par \in Parallelism .. Parallelism + MaxExtra
        /\ TypeOK
    BY DEF StructureInv, TypeOK, QueueTypes, CounterTypes, CallerTypes
  <2>1. \A c \in Caller : wants[c][1] \in Queue /\ wants[c][2] \in Key
    BY <2>0
  <2>2. ASSUME NEW c \in Caller, Promise!Undecided(c), UNCHANGED <<state, par>>,
               \/ Reply(c, "refused")
               \/ Reply(c, "adding")
               \/ Reply(c, "answered") /\ \E e \in Entry : state[e] = "done"
        PROVE  Promise!Next
    <3>1. Promise!Reply(c)
      BY <2>2 DEF Promise!Reply, Reply
    <3> QED
      BY <3>1 DEF Promise!Next
  <2>3. ASSUME NEW c \in Caller, NEW e \in Entry, Promise!Undecided(c), Attach(c, e),
               UNCHANGED <<state, par>>, state[e] \in {"queued", "processing", "stopping"}
        PROVE  Promise!Next
    <3>1. Promise!Submit(c, e)
      BY <2>3 DEF Promise!Submit, Attach
    <3> QED
      BY <3>1 DEF Promise!Next
  <2>4. ASSUME NEW c \in Caller, NEW e \in Entry, NEW s \in {"queued", "stopping"},
               Promise!Undecided(c), Attach(c, e), UNCHANGED par,
               state[e] = "free", state' = [state EXCEPT ![e] = s]
        PROVE  Promise!Next
    <3>1. Promise!Submit(c, e)
      BY <2>4 DEF Promise!Submit, Attach
    <3> QED
      BY <3>1 DEF Promise!Next
  <2>5. ASSUME NEW c \in Caller, AddRefused(c) \/ AddAsync(c) \/ AddFails(c)
        PROVE  Promise!Next
    BY <2>2, <2>5 DEF AddRefused, AddAsync, AddFails, Promise!Undecided, counters
  <2>6. ASSUME NEW c \in Caller, call[c] \in {"fresh", "adding"}, AfterBeforeAdd(c)
        PROVE  Promise!Next
    <3> DEFINE q == wants[c][1]
               k == wants[c][2]
    <3>1. Promise!Undecided(c)
      BY <2>6 DEF Promise!Undecided
    <3>2. CASE JoinEntry(c, q, k)
      <4>1. /\ entries[q][k] \in Entry
            /\ state[entries[q][k]] \in {"queued", "processing", "stopping", "done"}
        BY <2>1, <3>2, Found DEF JoinEntry
      <4>2. UNCHANGED <<state, par>>
        BY <3>2 DEF JoinEntry, counters
      <4>3. CASE state[entries[q][k]] = "done"
        BY <2>2, <3>1, <3>2, <4>1, <4>2, <4>3 DEF JoinEntry
      <4>4. CASE state[entries[q][k]] # "done"
        BY <2>3, <3>1, <3>2, <4>1, <4>2, <4>4 DEF JoinEntry
      <4> QED
        BY <4>3, <4>4
    <3>3. CASE RejectEntry(c, q, k)
      BY <2>4, <3>1, <3>3, Fresh DEF RejectEntry
    <3>4. CASE NewEntry(c, q, k)
      BY <2>4, <3>1, <3>4, Fresh DEF NewEntry
    <3> QED
      BY <2>6, <3>2, <3>3, <3>4 DEF AfterBeforeAdd
  <2>7. ASSUME NEW c \in Caller, WaitFor(c) PROVE Promise!Next
    <3> DEFINE e == entries[wants[c][1]][wants[c][2]]
    <3>1. Promise!Undecided(c) /\ UNCHANGED <<state, par>>
      BY <2>7 DEF WaitFor, Promise!Undecided, counters
    <3>2. e # NoEntry => /\ e \in Entry
                         /\ state[e] \in {"queued", "processing", "stopping", "done"}
      BY <2>1, Found
    <3>3. \/ Reply(c, "refused")
          \/ e # NoEntry /\ state[e] = "done" /\ Reply(c, "answered")
          \/ e # NoEntry /\ state[e] # "done" /\ Attach(c, e)
      BY <2>7 DEF WaitFor
    <3> HIDE DEF e
    <3> QED
      BY <2>2, <2>3, <3>1, <3>2, <3>3
  <2>8. ASSUME NEW q \in Queue, NEW k \in Key, Invalidate(q, k)
        PROVE  Promise!Next \/ UNCHANGED <<state, par, call, on>>
    <3> DEFINE e == entries[q][k]
    <3>1. e \in Entry
      BY <2>8, Found DEF Invalidate
    <3>2. UNCHANGED <<par, call, on>>
      BY <2>8 DEF Invalidate, counters, callers
    <3>3. CASE state[e] = "queued"
      <4>1. Promise!Drop(e)
        BY <2>8, <3>2, <3>3 DEF Invalidate, Promise!Drop
      <4> QED
        BY <3>1, <4>1 DEF Promise!Next
    <3>4. CASE state[e] # "queued"
      BY <2>8, <3>2, <3>4 DEF Invalidate
    <3> QED
      BY <3>3, <3>4
  <2>9. ASSUME NEW q \in Queue, Stop(q) PROVE Promise!Next
    <3>1. queued[q] \in SUBSET Entry /\ \A e \in queued[q] : state[e] = "queued"
      BY <2>0 DEF StructureInv, Placement, QueuedIsMapped
    <3>2. Promise!Refuse(queued[q])
      BY <2>9, <3>1 DEF Stop, Finish, Promise!Refuse, Promise!Tell, NoEntry
    <3> QED
      BY <3>1, <3>2 DEF Promise!Next
  <2>10. CASE IncreaseParallelism \/ DecreaseParallelism
    <3>1. Promise!ChangeLimit
      BY <2>0, <2>10, QueueAssumption
         DEF QueueAssumption, IncreaseParallelism, DecreaseParallelism,
             Promise!ChangeLimit, callers
    <3> QED
      BY <3>1 DEF Promise!Next
  <2>11. ASSUME NEW e \in Entry, HandleResult(e) \/ RejectTick(e) PROVE Promise!Next
    <3>1. Promise!End(e)
      BY <2>11 DEF HandleResult, RejectTick, Release, Finish, Promise!End, Promise!Tell,
         NoEntry
    <3> QED
      BY <3>1 DEF Promise!Next
  <2>12. ASSUME NEW q \in Queue, NEW e \in Entry, StartEntry(q, e) PROVE Promise!Next
    <3>1. state[e] = "queued"
      BY <2>12 DEF StartEntry, StructureInv, Placement, QueuedIsMapped
    <3>2. Cardinality(Promise!Processing) < par
      BY <2>0, <2>12, WithinLimit DEF StartEntry
    <3>3. Promise!Cardinality(Promise!Processing) < par
      BY <3>2 DEF Cardinality, Promise!Cardinality
    <3>4. Promise!Start(e)
      BY <2>12, <3>1, <3>3 DEF StartEntry, Promise!Start, callers
    <3> QED
      BY <3>4 DEF Promise!Next
  <2>13. CASE UNCHANGED <<state, par, call, on>>
    BY <2>13
  <2> QED
    BY <2>5, <2>6, <2>7, <2>8, <2>9, <2>10, <2>11, <2>12, <2>13
       DEF Next, vars, counters, callers, ClientCall, EnsureProcessing, AddSync, AddResume,
           Clear, RunImmediate, LeaveQueue
<1> QED
  BY <1>1, <1>2, StructureCorrect, MapCorrect, SlotAccountingCorrect, PTL DEF Spec
=============================================================================
