--------------------------- MODULE ModuleBuildProofs ---------------------------
(***************************************************************************)
(* Proofs about ModuleBuild, for any modules, any project and any number   *)
(* of slots: every wait takes back the room it made for other jobs, the    *)
(* job that waits for the dependencies of a module ends once, and when     *)
(* every entry is answered all they lead to is complete.                   *)
(***************************************************************************)
EXTENDS ModuleBuild, TLAPS, FiniteSetTheorems

\* TypeOK, but for the number of slots.
Types ==
    /\ IsProject(project)
    /\ at \in [Requests -> RequestStatus]
    /\ build \in [Module -> JobStatus]
    /\ process \in [Module -> JobStatus]
    /\ left \in [Module -> Int]
    /\ creating \subseteq Module \X Module
    /\ stopped \in BOOLEAN

\* Requests that somebody waits for, and those of the dependencies of m.
Under(r) == at[r] \notin {"idle", "executing"} \cup Over
Open(m)  == {r \in DepsOf(m) : Under(r)}

\* The counter of a module that waits is the number of requests that have yet to
\* return; afterwards it is on the other side of 1, for good.
CounterOf(m) ==
    /\ process[m] \in {"none", "queued"} => left[m] = 0 /\ \A r \in DepsOf(m) : at[r] = "idle"
    /\ process[m] = "processing" => left[m] > 0 /\ left[m] = Cardinality(Open(m))
    /\ process[m] = "done" => left[m] = 0 /\ Open(m) = {}
    /\ process[m] = "failed" => left[m] < 0

CounterInv == \A m \in Module : CounterOf(m)

\* The room made for other jobs, by those who wait.
Waiting == {m \in Module : process[m] = "processing"}

RoomInv ==
    /\ extra \in Nat
    /\ extra >= Cardinality(Waiting) + Cardinality(Loading)
    /\ ~project.bail => extra = Cardinality(Waiting) + Cardinality(Loading)

JobInv == Types /\ CounterInv /\ RoomInv

LEMMA JobInvBalances == JobInv => JobsBalanced
<1> SUFFICES ASSUME JobInv PROVE JobsBalanced
  OBVIOUS
<1>1. TypeOK
  BY DEF JobInv, Types, RoomInv, TypeOK
<1>2. SlotsBalanced
  BY <1>1 DEF JobInv, RoomInv, SlotsBalanced, Waiting, Types, IsProject
<1>3. ProcessEndsOnce
  <2> SUFFICES ASSUME NEW m \in Module PROVE (process[m] = "processing") = (left[m] > 0)
    BY DEF ProcessEndsOnce
  <2>1. CounterOf(m) /\ process[m] \in JobStatus /\ left[m] \in Int
    BY DEF JobInv, CounterInv, Types
  <2> QED
    BY <2>1 DEF CounterOf, JobStatus
<1> QED
  BY <1>2, <1>3 DEF JobsBalanced

\* A project makes finitely many requests.
LEMMA RequestsFinite ==
  ASSUME IsProject(project)
  PROVE  /\ Requests \subseteq Request
         /\ \A S \in SUBSET Requests : IsFiniteSet(S) /\ Cardinality(S) \in Nat
         /\ \A S \in SUBSET Module : IsFiniteSet(S) /\ Cardinality(S) \in Nat
<1> DEFINE Kind == {"entry", "dep", "load", "import"}
           Nested == Kind \X (Module \X Module)
           nest == [r \in Request |-> <<r[1], <<r[2], r[3]>>>>]
<1>1. Requests \subseteq Request
  BY DEF Requests, Made, Request, Entry, IsProject
<1>2. IsFiniteSet(Nested)
  <2>1. IsFiniteSet(Kind)
    <3>1. IsFiniteSet({"entry"})
      BY FS_Singleton
    <3>2. IsFiniteSet({"entry"} \cup {"dep"})
      BY <3>1, FS_AddElement
    <3>3. IsFiniteSet(({"entry"} \cup {"dep"}) \cup {"load"})
      BY <3>2, FS_AddElement
    <3>4. IsFiniteSet((({"entry"} \cup {"dep"}) \cup {"load"}) \cup {"import"})
      BY <3>3, FS_AddElement
    <3>5. Kind = (({"entry"} \cup {"dep"}) \cup {"load"}) \cup {"import"}
      OBVIOUS
    <3> QED
      BY <3>4, <3>5
  <2>2. IsFiniteSet(Module \X Module)
    BY ModuleBuildAssumption, FS_Product
  <2> QED
    BY <2>1, <2>2, FS_Product
<1>3. nest \in Injection(Request, Nested)
  <2>1. nest \in [Request -> Nested]
    BY DEF Request
  <2>2. ASSUME NEW r \in Request, NEW s \in Request, nest[r] = nest[s]
        PROVE  r = s
    <3>1. r[1] = s[1] /\ r[2] = s[2] /\ r[3] = s[3]
      BY <2>2
    <3> QED
      BY <3>1 DEF Request
  <2> HIDE DEF nest, Nested
  <2> QED
    BY <2>1, <2>2 DEF Injection, IsInjective
<1>4. IsFiniteSet(Request)
  <2> HIDE DEF nest, Nested
  <2> QED
    BY <1>2, <1>3, FS_Injection
<1>5. \A S \in SUBSET Requests : IsFiniteSet(S) /\ Cardinality(S) \in Nat
  BY <1>1, <1>4, FS_Subset, FS_CardinalityType
<1>6. \A S \in SUBSET Module : IsFiniteSet(S) /\ Cardinality(S) \in Nat
  BY ModuleBuildAssumption, FS_Subset, FS_CardinalityType
<1> QED
  BY <1>1, <1>5, <1>6

\* What one request turns into.
LEMMA MoveOne ==
  ASSUME Types, NEW r \in Requests, NEW status \in RequestStatus, Move(r, status),
         project' = project
  PROVE  /\ at' \in [Requests' -> RequestStatus] /\ Requests' = Requests
         /\ \A q \in Requests : at'[q] = IF q = r THEN status ELSE at[q]
BY DEF Types, Move, Requests, Made, Entry

LEMMA WakeAll ==
  ASSUME Types, NEW status \in RequestStatus, NEW outcome \in RequestStatus, NEW m,
         Wake(status, m, outcome), project' = project
  PROVE  /\ at' \in [Requests' -> RequestStatus] /\ Requests' = Requests
         /\ \A q \in Requests : at'[q] \in {at[q], outcome} /\ (at'[q] # at[q] => at[q] = status)
BY DEF Types, Wake, Requests, Made, Entry

\* A step after which the same requests are waited for, by the same modules.
Steady(r) == (at'[r] = "idle" <=> at[r] = "idle") /\ (Under(r)' <=> Under(r))

LEMMA SteadyStep ==
  ASSUME Types, CounterInv, RoomInv, Types', UNCHANGED <<project, left, extra>>,
         \A r \in Requests : r[1] = "entry" \/ Steady(r),
         \A m \in Module :
            \/ process'[m] = process[m]
            \/ {process[m], process'[m]} \subseteq {"none", "queued"}
            \/ process[m] = "queued" /\ process'[m] = "done" /\ DepsOf(m) = {}
  PROVE  CounterInv' /\ RoomInv'
<1>1. Requests' = Requests /\ \A m \in Module : DepsOf(m)' = DepsOf(m)
  BY DEF Requests, Made, Entry, DepsOf, Origin
<1>2. Loading' = Loading
  BY <1>1 DEF Loading, Steady, Under
<1>3. Waiting' = Waiting
  BY DEF Waiting
<1>4. RoomInv'
  BY <1>2, <1>3 DEF RoomInv
<1>5. ASSUME NEW m \in Module PROVE CounterOf(m)'
  <2>1. /\ DepsOf(m)' = DepsOf(m) /\ left'[m] = left[m] /\ process[m] \in JobStatus
        /\ \A r \in DepsOf(m) : Steady(r) /\ r \in Requests
    BY <1>1 DEF DepsOf, Types
  <2>2. Open(m)' = Open(m)
    BY <2>1 DEF Open, Steady
  <2>3. CounterOf(m)
    BY DEF CounterInv
  <2>4. CASE process'[m] = process[m]
    BY <2>1, <2>2, <2>3, <2>4 DEF CounterOf, Steady
  <2>5. CASE {process[m], process'[m]} \subseteq {"none", "queued"}
    BY <2>1, <2>3, <2>5 DEF CounterOf, Steady
  <2>6. CASE process[m] = "queued" /\ process'[m] = "done" /\ DepsOf(m) = {}
    BY <2>1, <2>3, <2>6 DEF CounterOf, Open
  <2> QED
    BY <2>4, <2>5, <2>6
<1> QED
  BY <1>4, <1>5 DEF CounterInv

\* One request moves among those that are waited for.
LEMMA SteadyMove ==
  ASSUME JobInv, NEW r \in Requests, NEW status \in RequestStatus, Move(r, status),
         r[1] = "entry" \/ (Under(r) /\ status \notin {"idle", "executing"} \cup Over),
         UNCHANGED <<project, left, extra>>,
         build' \in [Module -> JobStatus], process' \in [Module -> JobStatus],
         creating' \subseteq Module \X Module, stopped' \in BOOLEAN,
         \A m \in Module :
            process'[m] = process[m] \/ {process[m], process'[m]} \subseteq {"none", "queued"}
  PROVE  JobInv'
<1>1. Types /\ CounterInv /\ RoomInv
  BY DEF JobInv
<1>2. /\ at' \in [Requests' -> RequestStatus] /\ Requests' = Requests
      /\ \A q \in Requests : at'[q] = IF q = r THEN status ELSE at[q]
  BY <1>1, MoveOne
<1>3. Types'
  BY <1>1, <1>2 DEF Types
<1>4. \A q \in Requests : q[1] = "entry" \/ Steady(q)
  BY <1>2 DEF Steady, Under
<1> QED
  BY <1>1, <1>3, <1>4, SteadyStep DEF JobInv

(***************************************************************************)
(* Every step, in the order of the module.                                 *)
(***************************************************************************)

LEMMA CreateSteps ==
  ASSUME JobInv, NEW r \in Requests, StartCreate(r) \/ FinishCreate(r) \/ HandleBuild(r)
  PROVE  JobInv'
<1>1. /\ build \in [Module -> JobStatus] /\ process \in [Module -> JobStatus]
      /\ creating \subseteq Module \X Module /\ stopped \in BOOLEAN
      /\ <<Origin(r), Target(r)>> \in Module \X Module /\ Target(r) \in Module
  BY RequestsFinite DEF JobInv, Types, Request, Origin, Target
<1>2. CASE StartCreate(r)
  BY <1>1, <1>2, SteadyMove DEF StartCreate, RequestStatus, Under, Over
<1>3. CASE FinishCreate(r)
  <2>1. PICK status \in {"failed", "created"} : Move(r, status)
    BY <1>3 DEF FinishCreate
  <2> QED
    BY <1>1, <1>3, <2>1, SteadyMove DEF FinishCreate, RequestStatus, Under, Over
<1>4. CASE HandleBuild(r)
  <2>1. creating' \subseteq Module \X Module
    BY <1>1, <1>4 DEF HandleBuild
  <2>2. /\ \E status \in {"failed", "building", "built"} : Move(r, status)
        /\ build' \in [Module -> JobStatus]
    <3>1. ASSUME AddBuild(r)
          PROVE  /\ \E status \in {"failed", "building", "built"} : Move(r, status)
                 /\ build' \in [Module -> JobStatus]
      BY <1>1, <3>1 DEF AddBuild, JobStatus
    <3> QED
      BY <1>1, <1>4, <3>1 DEF HandleBuild
  <2>3. PICK status \in {"failed", "building", "built"} : Move(r, status)
    BY <2>2
  <2> QED
    BY <1>1, <1>4, <2>1, <2>2, <2>3, SteadyMove DEF HandleBuild, RequestStatus, Under, Over
<1> QED
  BY <1>2, <1>3, <1>4

LEMMA DependencyStep ==
  ASSUME JobInv, NEW r \in Requests, HandleDependencies(r)
  PROVE  JobInv'
<1>1. /\ build \in [Module -> JobStatus] /\ process \in [Module -> JobStatus]
      /\ creating \subseteq Module \X Module /\ stopped \in BOOLEAN /\ Target(r) \in Module
  BY RequestsFinite DEF JobInv, Types, Request, Origin, Target
<1>2. creating' \subseteq Module \X Module
  BY <1>1 DEF HandleDependencies
<1>3. /\ \E status \in {"failed", "returned", "processing"} : Move(r, status)
      /\ process' \in {process, [process EXCEPT ![Target(r)] = "queued"]}
      /\ process' # process => process[Target(r)] = "none"
  <2>1. ASSUME AddProcess(r)
        PROVE  /\ \E status \in {"failed", "returned", "processing"} : Move(r, status)
               /\ process' \in {process, [process EXCEPT ![Target(r)] = "queued"]}
               /\ process' # process => process[Target(r)] = "none"
    BY <2>1 DEF AddProcess
  <2> QED
    BY <2>1 DEF HandleDependencies
<1>4. /\ process' \in [Module -> JobStatus]
      /\ \A m \in Module :
            process'[m] = process[m] \/ {process[m], process'[m]} \subseteq {"none", "queued"}
  BY <1>1, <1>3 DEF JobStatus
<1>5. PICK status \in {"failed", "returned", "processing"} : Move(r, status)
  BY <1>3
<1> QED
  BY <1>1, <1>2, <1>4, <1>5, SteadyMove DEF HandleDependencies, RequestStatus, Under, Over

LEMMA BuildSteps ==
  ASSUME JobInv, NEW m \in Module, StartBuild(m) \/ FinishBuild(m)
  PROVE  JobInv'
<1>1. Types /\ CounterInv /\ RoomInv
  BY DEF JobInv
<1>2. CASE StartBuild(m)
  <2>1. Requests' = Requests /\ at' = at
    BY <1>2 DEF StartBuild, Requests, Made, Entry
  <2>2. Types'
    BY <1>1, <1>2, <2>1 DEF StartBuild, Types, JobStatus
  <2>3. \A q \in Requests : Steady(q)
    BY <2>1 DEF Steady, Under
  <2> QED
    BY <1>1, <1>2, <2>2, <2>3, SteadyStep DEF StartBuild, JobInv
<1>3. CASE FinishBuild(m)
  <2>1. /\ at' \in [Requests' -> RequestStatus] /\ Requests' = Requests
        /\ \A q \in Requests : at'[q] \in {at[q], "built"} /\ (at'[q] # at[q] => at[q] = "building")
    BY <1>1, <1>3, WakeAll DEF FinishBuild, RequestStatus
  <2>2. Types'
    BY <1>1, <1>3, <2>1 DEF FinishBuild, Types, JobStatus
  <2>3. \A q \in Requests : Steady(q)
    BY <2>1 DEF Steady, Under, Over
  <2> QED
    BY <1>1, <1>3, <2>2, <2>3, SteadyStep DEF FinishBuild, JobInv
<1> QED
  BY <1>2, <1>3

LEMMA ExecuteStep ==
  ASSUME JobInv, NEW r \in Requests, Execute(r)
  PROVE  JobInv'
<1>1. Types /\ CounterInv /\ RoomInv
  BY DEF JobInv
<1>2. PICK status \in {"ok", "err"} : Move(r, status)
  BY DEF Execute
<1>3. /\ at' \in [Requests' -> RequestStatus] /\ Requests' = Requests
      /\ \A q \in Requests : at'[q] = IF q = r THEN status ELSE at[q]
  BY <1>1, <1>2, MoveOne DEF Execute, RequestStatus
<1>4. /\ at[r] = "executing"
      /\ UNCHANGED <<project, build, process, left, extra, creating, stopped>>
  BY DEF Execute
<1>5. Types'
  BY <1>1, <1>3, <1>4 DEF Types
<1>6. \A q \in Requests : Steady(q)
  BY <1>3, <1>4 DEF Steady, Under, Over
<1> QED
  BY <1>1, <1>4, <1>5, <1>6, SteadyStep DEF JobInv

LEMMA EntrySteps ==
  ASSUME JobInv, NEW r \in Requests, ReturnEntry(r) \/ Stop(r)
  PROVE  JobInv'
<1>1. Types /\ CounterInv /\ RoomInv
  BY DEF JobInv
<1>2. CASE ReturnEntry(r)
  <2>1. PICK status \in {"ok", "err"} : Move(r, status)
    BY <1>2 DEF ReturnEntry, Outcome
  <2> QED
    BY <1>1, <1>2, <2>1, SteadyMove DEF ReturnEntry, Types, RequestStatus
<1>3. CASE Stop(r)
  <2>1. /\ Requests' = Requests /\ at' \in [Requests' -> RequestStatus]
        /\ \A q \in Requests : q # r =>
              \/ at'[q] = at[q]
              \/ at'[q] = "failed" /\ at[q] \in {"queued", "building", "processing"}
    BY <1>1, <1>3 DEF Stop, Types, Requests, Made, Entry, RequestStatus
  <2>2. /\ build' \in [Module -> JobStatus] /\ process' \in [Module -> JobStatus]
        /\ \A m \in Module :
              process'[m] = process[m] \/ {process[m], process'[m]} \subseteq {"none", "queued"}
    BY <1>1, <1>3 DEF Stop, Types, JobStatus
  <2>3. /\ UNCHANGED <<project, left, extra>> /\ r[1] = "entry" /\ stopped' = TRUE
        /\ creating' \subseteq creating
    BY <1>3 DEF Stop
  <2>4. Types'
    BY <1>1, <2>1, <2>2, <2>3 DEF Types
  <2>5. \A q \in Requests : q[1] = "entry" \/ Steady(q)
    BY <2>1, <2>3 DEF Steady, Under, Over
  <2> QED
    BY <1>1, <2>2, <2>3, <2>4, <2>5, SteadyStep DEF JobInv
<1> QED
  BY <1>2, <1>3

\* A loader that waits makes room for one job, and takes it back when it goes on.
LEMMA LoadSteps ==
  ASSUME JobInv, NEW r \in Requests, Load(r) \/ (ReturnLoad(r) /\ at[r] \in {"returned", "failed"})
  PROVE  JobInv'
<1>1. Types /\ CounterInv /\ RoomInv
  BY DEF JobInv
<1>2. /\ r[1] \in {"load", "import"}
      /\ UNCHANGED <<project, build, process, left, creating, stopped>>
  BY DEF Load, LoadsOf, ReturnLoad
<1>3. PICK status \in {"failed", "queued", "executing", "ok", "err"} : Move(r, status)
  BY DEF Load, ReturnLoad, Outcome
<1>4. /\ at' \in [Requests' -> RequestStatus] /\ Requests' = Requests
      /\ \A q \in Requests : at'[q] = IF q = r THEN status ELSE at[q]
  BY <1>1, <1>2, <1>3, MoveOne DEF RequestStatus
<1>5. Types'
  BY <1>1, <1>2, <1>4 DEF Types
<1>6. \A m \in Module : DepsOf(m)' = DepsOf(m) /\ r \notin DepsOf(m)
  BY <1>2, <1>4 DEF DepsOf, Origin
<1>7. CounterInv'
  <2> SUFFICES ASSUME NEW m \in Module PROVE CounterOf(m)'
    BY DEF CounterInv
  <2>1. \A q \in DepsOf(m) : at'[q] = at[q]
    BY <1>4, <1>6 DEF DepsOf
  <2>2. Open(m)' = Open(m)
    BY <1>6, <2>1 DEF Open, Under
  <2> QED
    BY <1>1, <1>2, <1>6, <2>1, <2>2 DEF CounterInv, CounterOf
<1>8. Waiting' = Waiting /\ Cardinality(Waiting) \in Nat /\ IsFiniteSet(Loading)
  BY <1>1, <1>2, RequestsFinite DEF Waiting, Loading, Types
<1>9. CASE Load(r)
  <2>1. at[r] = "idle" /\ status \in {"failed", "queued"} /\ extra' = extra + 1
    <3>1. at'[r] \in {"failed", "queued"}
      BY <1>1, <1>9 DEF Load, Move, Types
    <3> QED
      BY <1>4, <1>9, <3>1 DEF Load, MakeRoom
  <2>2. Loading' = Loading \cup {r} /\ r \notin Loading
    BY <1>2, <1>4, <2>1 DEF Loading, Over
  <2>3. Cardinality(Loading') = Cardinality(Loading) + 1 /\ Cardinality(Loading) \in Nat
    BY <1>8, <2>2, FS_AddElement, FS_CardinalityType
  <2>4. RoomInv'
    BY <1>1, <1>2, <1>8, <2>1, <2>3 DEF RoomInv
  <2> QED
    BY <1>5, <1>7, <2>4 DEF JobInv
<1>10. CASE ReturnLoad(r) /\ at[r] \in {"returned", "failed"}
  <2>1. status \in {"executing", "ok", "err"} /\ extra' = extra - 1
    <3>1. at'[r] \in {"executing", "ok", "err"}
      BY <1>1, <1>10 DEF ReturnLoad, Outcome, Move, Types
    <3> QED
      BY <1>4, <1>10, <3>1 DEF ReturnLoad
  <2>2. Loading' = Loading \ {r} /\ r \in Loading
    BY <1>2, <1>4, <1>10, <2>1 DEF Loading, Over
  <2>3. /\ Cardinality(Loading') = Cardinality(Loading) - 1
        /\ Cardinality(Loading') \in Nat /\ Cardinality(Loading) \in Nat
    BY <1>8, <2>2, FS_RemoveElement, FS_CardinalityType
  <2>4. RoomInv'
    <3>1. extra' = extra - 1 /\ project' = project
      BY <1>2, <2>1
    <3>2. extra' \in Nat
      BY <1>1, <1>8, <2>3, <3>1 DEF RoomInv
    <3>3. extra' >= Cardinality(Waiting') + Cardinality(Loading')
      BY <1>1, <1>8, <2>3, <3>1 DEF RoomInv
    <3>4. ~project.bail => extra' = Cardinality(Waiting') + Cardinality(Loading')
      BY <1>1, <1>8, <2>3, <3>1 DEF RoomInv
    <3> QED
      BY <3>1, <3>2, <3>3, <3>4 DEF RoomInv
  <2> QED
    BY <1>5, <1>7, <2>4 DEF JobInv
<1> QED
  BY <1>9, <1>10

\* The job of a module without dependencies ends at once; otherwise its counter
\* starts at the number of requests it makes.
LEMMA StartProcessStep ==
  ASSUME JobInv, NEW m \in Module, StartProcess(m)
  PROVE  JobInv'
<1>1. /\ Types /\ CounterInv /\ RoomInv
      /\ process[m] = "queued" /\ UNCHANGED <<project, build, creating, stopped>>
  BY DEF JobInv, StartProcess
<1>2. Requests' = Requests /\ \A n \in Module : DepsOf(n)' = DepsOf(n)
  BY <1>1 DEF Requests, Made, Entry, DepsOf, Origin
<1>3. CASE DepsOf(m) = {}
  <2>1. /\ process' = [process EXCEPT ![m] = "done"]
        /\ Wake("processing", m, "returned")
        /\ UNCHANGED <<left, extra>>
    BY <1>3 DEF StartProcess
  <2>2. /\ at' \in [Requests' -> RequestStatus]
        /\ \A q \in Requests :
              at'[q] \in {at[q], "returned"} /\ (at'[q] # at[q] => at[q] = "processing")
    BY <1>1, <2>1, WakeAll DEF RequestStatus
  <2>3. Types'
    BY <1>1, <2>1, <2>2 DEF Types, JobStatus
  <2>4. \A q \in Requests : Steady(q)
    BY <2>2 DEF Steady, Under, Over
  <2>5. \A n \in Module : process'[n] = IF n = m THEN "done" ELSE process[n]
    <3>1. process \in [Module -> JobStatus]
      BY <1>1 DEF Types
    <3> QED
      BY <2>1, <3>1
  <2> QED
    BY <1>1, <1>3, <2>1, <2>3, <2>4, <2>5, SteadyStep DEF JobInv
<1>4. CASE DepsOf(m) # {}
  <2>1. /\ process' = [process EXCEPT ![m] = "processing"]
        /\ left' = [left EXCEPT ![m] = Cardinality(DepsOf(m))]
        /\ extra' = extra + 1
        /\ at' = [r \in Requests |-> IF r \in DepsOf(m) THEN "queued" ELSE at[r]]
    BY <1>4 DEF StartProcess, MakeRoom
  <2>2. IsFiniteSet(DepsOf(m)) /\ Cardinality(DepsOf(m)) \in Nat /\ Cardinality(DepsOf(m)) > 0
    <3>1. IsFiniteSet(DepsOf(m)) /\ Cardinality(DepsOf(m)) \in Nat
      BY <1>1, RequestsFinite DEF Types, DepsOf
    <3> QED
      BY <1>4, <3>1, FS_EmptySet
  <2>3. Types'
    <3>1. at' \in [Requests' -> RequestStatus]
      BY <1>1, <1>2, <2>1 DEF Types, RequestStatus
    <3>2. left' \in [Module -> Int]
      BY <1>1, <2>1, <2>2 DEF Types
    <3>3. process' \in [Module -> JobStatus]
      BY <1>1, <2>1 DEF Types, JobStatus
    <3> QED
      BY <1>1, <3>1, <3>2, <3>3 DEF Types
  <2>4. CounterInv'
    <3> SUFFICES ASSUME NEW n \in Module PROVE CounterOf(n)'
      BY DEF CounterInv
    <3>1. CASE n = m
      <4>1. Open(m)' = DepsOf(m)
        BY <1>2, <2>1 DEF Open, Under, Over, DepsOf
      <4>2. process'[m] = "processing" /\ left'[m] = Cardinality(DepsOf(m))
        BY <1>1, <2>1 DEF Types
      <4> QED
        BY <2>2, <3>1, <4>1, <4>2 DEF CounterOf
    <3>2. CASE n # m
      <4>1. \A q \in DepsOf(n) : at'[q] = at[q]
        BY <2>1, <3>2 DEF DepsOf
      <4>2. Open(n)' = Open(n)
        BY <1>2, <4>1 DEF Open, Under
      <4>3. process'[n] = process[n] /\ left'[n] = left[n]
        BY <1>1, <2>1, <3>2 DEF Types
      <4> QED
        BY <1>1, <1>2, <4>1, <4>2, <4>3 DEF CounterInv, CounterOf
    <3> QED
      BY <3>1, <3>2
  <2>5. Loading' = Loading
    BY <1>2, <2>1 DEF Loading, DepsOf
  <2>6. Cardinality(Waiting') = Cardinality(Waiting) + 1 /\ Cardinality(Waiting) \in Nat
    <3>1. Waiting' = Waiting \cup {m} /\ m \notin Waiting
      BY <1>1, <2>1 DEF Waiting, Types
    <3>2. IsFiniteSet(Waiting)
      BY <1>1, RequestsFinite DEF Waiting, Types
    <3> QED
      BY <3>1, <3>2, FS_AddElement, FS_CardinalityType
  <2>7. Cardinality(Loading) \in Nat
    BY <1>1, RequestsFinite DEF Loading, Types
  <2> QED
    BY <1>1, <2>1, <2>3, <2>4, <2>5, <2>6, <2>7 DEF JobInv, RoomInv
<1> QED
  BY <1>3, <1>4

\* A dependency returns: the counter goes down by one, or below zero with bail;
\* it ends the job exactly when the job is under way.
LEMMA ReturnDepStep ==
  ASSUME JobInv, NEW r \in Requests, ReturnDep(r), at[r] \in {"returned", "failed"}
  PROVE  JobInv'
<1> DEFINE m == Origin(r)
           bails == Bails(r)
<1>1. /\ Types /\ CounterInv /\ RoomInv
      /\ r[1] = "dep" /\ UNCHANGED <<project, build, creating, stopped>>
  BY DEF JobInv, ReturnDep
<1>2. Requests' = Requests /\ \A n \in Module : DepsOf(n)' = DepsOf(n)
  BY <1>1 DEF Requests, Made, Entry, DepsOf, Origin
<1>3. m \in Module /\ r \in DepsOf(m) /\ r \in Open(m)
  BY <1>1, RequestsFinite DEF Types, Request, Origin, DepsOf, Open, Under, Over
<1>4. /\ Outcome(r) \in Over /\ bails \in BOOLEAN /\ (bails => project.bail = TRUE)
      /\ left[m] \in Int /\ process[m] \in JobStatus
      /\ left \in [Module -> Int] /\ process \in [Module -> JobStatus]
  BY <1>1, <1>3 DEF Outcome, Over, Bails, Types, IsProject
<1>5. CounterOf(m) /\ process[m] \in {"processing", "failed"}
  BY <1>1, <1>3, <1>4 DEF CounterInv, CounterOf, Open, JobStatus, Under
<1>6. /\ left' = [left EXCEPT ![m] = IF ~bails THEN left[m] - 1
                                     ELSE IF left[m] > 0 THEN -1 ELSE left[m]]
      /\ \/ /\ IF bails THEN left[m] <= 0 ELSE left[m] # 1
            /\ Move(r, Outcome(r))
            /\ UNCHANGED <<process, extra>>
         \/ /\ ~bails /\ left[m] = 1
            /\ EndProcess(r, m, "done", "returned")
            /\ extra' = extra - 1
         \/ /\ bails /\ left[m] > 0
            /\ EndProcess(r, m, "failed", "failed")
            /\ UNCHANGED extra
  BY DEF ReturnDep, Left
<1>7. /\ at' \in [Requests' -> RequestStatus]
      /\ at'[r] = Outcome(r)
      /\ \A q \in Requests : q # r => Steady(q)
  <2>1. CASE Move(r, Outcome(r))
    <3>1. /\ at' \in [Requests' -> RequestStatus]
          /\ \A q \in Requests : at'[q] = IF q = r THEN Outcome(r) ELSE at[q]
      BY <1>1, <1>4, <2>1, MoveOne DEF Over, RequestStatus
    <3> QED
      BY <3>1 DEF Steady, Under
  <2>2. ASSUME NEW status \in {"returned", "failed"}, EndProcess(r, m, status, status)
               \/ EndProcess(r, m, "done", status)
        PROVE  /\ at' \in [Requests' -> RequestStatus]
               /\ at'[r] = Outcome(r)
               /\ \A q \in Requests : q # r => Steady(q)
    <3>1. at' = [q \in Requests |->
                    IF q = r THEN Outcome(r)
                    ELSE IF at[q] = "processing" /\ Target(q) = m THEN status ELSE at[q]]
      BY <2>2 DEF EndProcess
    <3>2. at' \in [Requests' -> RequestStatus]
      BY <1>1, <1>2, <1>4, <3>1 DEF Types, Over, RequestStatus
    <3>3. \A q \in Requests : q # r => Steady(q)
      BY <3>1 DEF Steady, Under, Over
    <3> QED
      BY <3>1, <3>2, <3>3
  <2> QED
    BY <1>6, <2>1, <2>2
<1>8. Loading' = Loading
  BY <1>1, <1>2, <1>7 DEF Loading, Steady, Under
<1>9. \A n \in Module : Open(n)' = IF n = m THEN Open(m) \ {r} ELSE Open(n)
  <2> SUFFICES ASSUME NEW n \in Module
               PROVE  Open(n)' = IF n = m THEN Open(m) \ {r} ELSE Open(n)
    OBVIOUS
  <2>1. \A q \in DepsOf(n) : q # r => (Under(q)' <=> Under(q))
    BY <1>7 DEF DepsOf, Steady
  <2>2. ~Under(r)' /\ (r \in DepsOf(n) => n = m)
    BY <1>4, <1>7 DEF Under, DepsOf
  <2>3. r \in DepsOf(m)
    BY <1>3
  <2> QED
    BY <1>2, <2>1, <2>2, <2>3 DEF Open
<1>10. /\ Cardinality(Open(m) \ {r}) = Cardinality(Open(m)) - 1
       /\ Cardinality(Open(m)) \in Nat
       /\ Cardinality(Open(m)) = 1 => Open(m) \ {r} = {}
  <2>1. IsFiniteSet(Open(m)) /\ Cardinality(Open(m)) \in Nat
    BY <1>1, RequestsFinite DEF Open, DepsOf, Types
  <2>2. Cardinality(Open(m) \ {r}) = Cardinality(Open(m)) - 1 /\ IsFiniteSet(Open(m) \ {r})
    BY <1>3, <2>1, FS_RemoveElement
  <2> QED
    BY <2>1, <2>2, FS_EmptySet
<1>11. /\ IsFiniteSet(Waiting) /\ Cardinality(Waiting) \in Nat
       /\ Cardinality(Loading) \in Nat
  BY <1>1, RequestsFinite DEF Waiting, Loading, Types
<1>12. \A n \in Module : n # m => process'[n] = process[n] /\ left'[n] = left[n]
  BY <1>4, <1>6 DEF EndProcess
<1>13. \A n \in Module : n # m => CounterOf(n)'
  <2> SUFFICES ASSUME NEW n \in Module, n # m PROVE CounterOf(n)'
    OBVIOUS
  <2>1. \A q \in DepsOf(n) : at'[q] = "idle" <=> at[q] = "idle"
    BY <1>7 DEF DepsOf, Steady
  <2> QED
    BY <1>1, <1>2, <1>9, <1>12, <2>1 DEF CounterInv, CounterOf
<1> HIDE DEF m, bails
<1>14. CASE (IF bails THEN left[m] <= 0 ELSE left[m] # 1) /\ UNCHANGED <<process, extra>>
  <2>1. left' \in [Module -> Int] /\ process' \in [Module -> JobStatus]
    BY <1>3, <1>4, <1>6, <1>14
  <2>2. CounterOf(m)'
    <3>1. left'[m] = IF ~bails THEN left[m] - 1 ELSE left[m]
      BY <1>3, <1>4, <1>6, <1>14
    <3>2. Open(m)' = Open(m) \ {r} /\ process'[m] = process[m]
      BY <1>3, <1>9, <1>14
    <3> QED
      BY <1>4, <1>5, <1>10, <1>14, <3>1, <3>2 DEF CounterOf
  <2>3. RoomInv'
    BY <1>1, <1>8, <1>14 DEF RoomInv, Waiting
  <2>4. Types'
    BY <1>1, <1>7, <2>1 DEF Types
  <2> QED
    BY <1>13, <2>2, <2>3, <2>4 DEF JobInv, CounterInv
<1>15. CASE ~bails /\ left[m] = 1 /\ EndProcess(r, m, "done", "returned") /\ extra' = extra - 1
  <2>1. /\ process' = [process EXCEPT ![m] = "done"]
        /\ left' = [left EXCEPT ![m] = 0]
    BY <1>6, <1>15 DEF EndProcess
  <2>2. process'[m] = "done" /\ left'[m] = 0 /\ process[m] = "processing"
    BY <1>3, <1>4, <1>5, <1>15, <2>1 DEF CounterOf
  <2>3. CounterOf(m)'
    BY <1>3, <1>5, <1>9, <1>10, <1>15, <2>2 DEF CounterOf
  <2>4. Waiting' = Waiting \ {m} /\ m \in Waiting
    BY <1>3, <1>12, <2>2 DEF Waiting
  <2>5. Cardinality(Waiting') = Cardinality(Waiting) - 1 /\ Cardinality(Waiting') \in Nat
    BY <1>11, <2>4, FS_RemoveElement, FS_CardinalityType
  <2>6. RoomInv'
    BY <1>1, <1>8, <1>11, <1>15, <2>5 DEF RoomInv
  <2>7. Types'
    BY <1>1, <1>3, <1>4, <1>7, <2>1 DEF Types, JobStatus
  <2> QED
    BY <1>13, <2>3, <2>6, <2>7 DEF JobInv, CounterInv
<1>16. CASE bails /\ left[m] > 0 /\ EndProcess(r, m, "failed", "failed") /\ UNCHANGED extra
  <2>1. /\ process' = [process EXCEPT ![m] = "failed"]
        /\ left' = [left EXCEPT ![m] = -1]
    BY <1>6, <1>16 DEF EndProcess
  <2>2. process'[m] = "failed" /\ left'[m] = -1 /\ process[m] = "processing"
    BY <1>3, <1>4, <1>5, <1>16, <2>1 DEF CounterOf
  <2>3. CounterOf(m)'
    BY <2>2 DEF CounterOf
  <2>4. Waiting' = Waiting \ {m} /\ m \in Waiting
    BY <1>3, <1>12, <2>2 DEF Waiting
  <2>5. Cardinality(Waiting') = Cardinality(Waiting) - 1 /\ Cardinality(Waiting') \in Nat
    BY <1>11, <2>4, FS_RemoveElement, FS_CardinalityType
  <2>6. RoomInv'
    BY <1>1, <1>4, <1>8, <1>11, <1>16, <2>5 DEF RoomInv
  <2>7. Types'
    BY <1>1, <1>3, <1>4, <1>7, <2>1 DEF Types, JobStatus
  <2> QED
    BY <1>13, <2>3, <2>6, <2>7 DEF JobInv, CounterInv
<1> QED
  BY <1>6, <1>14, <1>15, <1>16

(***************************************************************************)
(* Every step keeps the invariant.                                         *)
(***************************************************************************)

\* The counters and the room are right in every reachable state.
THEOREM JobsInvariance == Spec => []JobInv
<1>1. Init => JobInv
  <2> SUFFICES ASSUME Init PROVE JobInv
    OBVIOUS
  <2>1. Types
    <3>1. IsProject(project)
      BY ModuleBuildAssumption DEF Init
    <3>2. at \in [Requests -> RequestStatus]
      BY DEF Init, RequestStatus
    <3>3. build \in [Module -> JobStatus] /\ process \in [Module -> JobStatus]
      BY DEF Init, JobStatus
    <3>4. left \in [Module -> Int]
      BY DEF Init
    <3>5. creating \subseteq Module \X Module /\ stopped \in BOOLEAN
      BY DEF Init
    <3> QED
      BY <3>1, <3>2, <3>3, <3>4, <3>5 DEF Types
  <2>2. CounterInv
    BY DEF Init, CounterInv, CounterOf, DepsOf
  <2>3. Waiting = {} /\ Loading = {}
    BY DEF Init, Waiting, Loading
  <2>4. RoomInv
    BY <2>3, FS_EmptySet DEF Init, RoomInv
  <2> QED
    BY <2>1, <2>2, <2>4 DEF JobInv
<1>2. JobInv /\ [Next]_vars => JobInv'
  <2> SUFFICES ASSUME JobInv, [Next]_vars PROVE JobInv'
    OBVIOUS
  <2>1. ASSUME NEW r \in Requests, Callback(r) PROVE JobInv'
    BY <2>1, CreateSteps, DependencyStep, EntrySteps, ReturnDepStep, LoadSteps DEF Callback, Return
  <2>2. ASSUME NEW r \in Requests, StartCreate(r) \/ FinishCreate(r) \/ Load(r) \/ Execute(r)
        PROVE  JobInv'
    BY <2>2, CreateSteps, LoadSteps, ExecuteStep
  <2>3. ASSUME NEW m \in Module, StartBuild(m) \/ FinishBuild(m) \/ StartProcess(m)
        PROVE  JobInv'
    BY <2>3, BuildSteps, StartProcessStep
  <2>4. CASE UNCHANGED vars
    <3>1. Requests' = Requests /\ \A r \in Requests : Under(r)' <=> Under(r)
      BY <2>4 DEF vars, Requests, Made, Entry, Under
    <3> QED
      BY <2>4, <3>1, SteadyStep DEF vars, JobInv, Types, Steady
  <2> QED
    BY <2>1, <2>2, <2>3, <2>4 DEF Next, Event
<1> QED
  BY <1>1, <1>2, PTL DEF Spec

\* Each wait takes back the room it made, so that slots neither get lost nor
\* multiply, and the job of a module ends once: circular dependencies that are
\* answered early, errors and bail included, for every module graph.
THEOREM JobsBalancedCorrect == Spec => []JobsBalanced
BY JobsInvariance, JobInvBalances, PTL

(***************************************************************************)
(* When every entry is answered nothing is left to do.                     *)
(***************************************************************************)

\* The jobs that are queued or under way, and who waits for them.
Jobs ==
    ({"build"} \X {m \in Module : build[m] \in {"queued", "processing"}})
        \cup ({"process"} \X {m \in Module : process[m] \in {"queued", "processing"}})

Awaits(r, j) ==
    /\ Target(r) = j[2]
    /\ \/ j[1] = "build" /\ at[r] = "building"
       \/ j[1] = "process" /\ at[r] = "processing"

\* The job that has made a request.
Maker(r) == IF r[1] = "dep" THEN <<"process", Origin(r)>> ELSE <<"build", Origin(r)>>

\* Who made a request waits until it is over.
MakerWaits(r) ==
    r[1] # "entry" /\ at[r] \notin {"idle"} \cup Over =>
        IF r[1] = "dep" THEN process[Origin(r)] = "processing" ELSE build[Origin(r)] = "processing"

\* A request has got its module as far as its own stage says.
Reached(r) ==
    /\ at[r] = "built" => build[Target(r)] \in {"done", "failed"}
    /\ Recursive(r) /\ Target(r) \notin project.missing
         /\ at[r] \notin {"idle", "queued", "creating", "created", "building", "built"} =>
           build[Target(r)] = "failed" \/ process[Target(r)] # "none"

RequestsInv ==
    \A r \in Requests :
        /\ MakerWaits(r) /\ Reached(r)
        /\ at[r] = "executing" => r[1] = "import"
        /\ at[r] = "processing" => Recursive(r)

ModulesInv ==
    \A m \in Module :
        /\ build[m] = "done" => m \notin project.broken
        /\ build[m] = "failed" => m \in project.broken
        /\ process[m] # "none" => build[m] = "done"
        /\ process[m] # "failed"
        /\ process[m] \in {"processing", "done"} => \A r \in DepsOf(m) : at[r] # "idle"

\* No jobs wait for each other only: one of them is awaited by an entry or by a
\* job that is not among them.
AwaitedInv ==
    \A S \in SUBSET Jobs : S # {} =>
        \E j \in S, r \in Requests : Awaits(r, j) /\ (r[1] = "entry" \/ Maker(r) \notin S)

WithoutBail == ~stopped /\ RequestsInv /\ ModulesInv /\ AwaitedInv

MakeInv == ~project.bail => WithoutBail

\* Requests, and who makes them, do not change.
LEMMA SameProject ==
  ASSUME project' = project
  PROVE  Requests' = Requests /\ \A m : DepsOf(m)' = DepsOf(m) /\ LoadsOf(m)' = LoadsOf(m)
BY DEF Requests, Made, Entry, DepsOf, LoadsOf, Origin

LEMMA JobFacts ==
         /\ \A m \in Module : <<"build", m>> \in Jobs <=> build[m] \in {"queued", "processing"}
         /\ \A m \in Module : <<"process", m>> \in Jobs <=> process[m] \in {"queued", "processing"}
         /\ \A j \in Jobs : j[2] \in Module /\ (j = <<"build", j[2]>> \/ j = <<"process", j[2]>>)
BY DEF Jobs

\* A request that is under way, and the job that has made it, which is another one.
LEMMA MakerIsJob ==
  ASSUME Types, NEW r \in Requests, MakerWaits(r), at[r] \notin {"idle"} \cup Over, r[1] # "entry"
  PROVE  Maker(r) \in Jobs
<1>1. Origin(r) \in Module
  BY RequestsFinite DEF Types, Request, Origin
<1> QED
  BY <1>1, JobFacts DEF MakerWaits, Maker

\* Jobs end, or stay and are awaited as before.
LEMMA AwaitedSame ==
  ASSUME AwaitedInv, Requests' = Requests, Jobs' \subseteq Jobs,
         \A r \in Requests : \A j \in Jobs' : Awaits(r, j) => Awaits(r, j)'
  PROVE  AwaitedInv'
<1> SUFFICES ASSUME NEW S \in SUBSET Jobs', S # {}
             PROVE  \E j \in S, r \in Requests : Awaits(r, j)' /\ (r[1] = "entry" \/ Maker(r) \notin S)
  BY DEF AwaitedInv, Maker, Origin
<1>1. PICK j \in S, r \in Requests : Awaits(r, j) /\ (r[1] = "entry" \/ Maker(r) \notin S)
  BY DEF AwaitedInv
<1> QED
  BY <1>1

\* A new job is awaited by the request that has added it, which another job made.
LEMMA AwaitedNew ==
  ASSUME AwaitedInv, Requests' = Requests, NEW j0, NEW r0 \in Requests, j0 \notin Jobs,
         Jobs' \subseteq Jobs \cup {j0}, Awaits(r0, j0)', r0[1] = "entry" \/ Maker(r0) \in Jobs,
         \A r \in Requests : \A j \in Jobs : Awaits(r, j) =>
            Awaits(r, j)' /\ (r[1] = "entry" \/ Maker(r) \in Jobs)
  PROVE  AwaitedInv'
<1> SUFFICES ASSUME NEW S \in SUBSET Jobs', S # {}
             PROVE  \E j \in S, r \in Requests : Awaits(r, j)' /\ (r[1] = "entry" \/ Maker(r) \notin S)
  BY DEF AwaitedInv, Maker, Origin
<1>1. CASE S \ {j0} = {}
  <2>1. S = {j0}
    BY <1>1
  <2> QED
    BY <2>1
<1>2. CASE S \ {j0} # {}
  <2>1. S \ {j0} \in SUBSET Jobs
    OBVIOUS
  <2>2. PICK j \in S \ {j0}, r \in Requests : Awaits(r, j) /\ (r[1] = "entry" \/ Maker(r) \notin S \ {j0})
    BY <1>2, <2>1 DEF AwaitedInv
  <2>3. Awaits(r, j)' /\ (r[1] = "entry" \/ Maker(r) # j0)
    BY <2>1, <2>2
  <2> QED
    BY <2>2, <2>3
<1> QED
  BY <1>1, <1>2

\* One request goes on, and may add a job that it awaits.
LEMMA RequestStep ==
  ASSUME Types, WithoutBail, NEW r \in Requests, UNCHANGED <<project, stopped>>,
         \A q \in Requests : q # r => at'[q] = at[q],
         at[r] \notin {"building", "processing"}, at'[r] # "idle",
         r[1] = "entry" \/ Maker(r) \in Jobs,
         \A m \in Module : build'[m] = build[m]
            \/ (build[m] = "none" /\ build'[m] = "queued" /\ at'[r] = "building" /\ m = Target(r)),
         \A m \in Module : process'[m] = process[m]
            \/ (process[m] = "none" /\ process'[m] = "queued" /\ at'[r] = "processing" /\ m = Target(r)
                   /\ build[m] = "done"),
         MakerWaits(r)', Reached(r)',
         at'[r] = "executing" => r[1] = "import", at'[r] = "processing" => Recursive(r)
  PROVE  WithoutBail'
<1>0. ~stopped /\ RequestsInv /\ ModulesInv /\ AwaitedInv
  BY DEF WithoutBail
<1>1. /\ Requests' = Requests /\ \A m : DepsOf(m)' = DepsOf(m)
      /\ \A q \in Requests : Origin(q) \in Module /\ Target(q) \in Module
  BY SameProject, RequestsFinite DEF Types, Request, Origin, Target
<1>2. RequestsInv'
  <2> SUFFICES ASSUME NEW q \in Requests, q # r
               PROVE  MakerWaits(q)' /\ Reached(q)'
                      /\ (at'[q] = "executing" => q[1] = "import") /\ (at'[q] = "processing" => Recursive(q))
    BY <1>1 DEF RequestsInv, Recursive
  <2>1. at'[q] = at[q] /\ MakerWaits(q) /\ Reached(q)
    BY <1>0 DEF RequestsInv
  <2>2. MakerWaits(q)'
    BY <1>1, <2>1 DEF MakerWaits
  <2>3. Reached(q)'
    BY <1>1, <2>1 DEF Reached
  <2> QED
    BY <1>0, <2>1, <2>2, <2>3 DEF RequestsInv
<1>3. ModulesInv'
  <2> SUFFICES ASSUME NEW m \in Module
               PROVE  /\ build'[m] = "done" => m \notin project.broken
                      /\ build'[m] = "failed" => m \in project.broken
                      /\ process'[m] # "none" => build'[m] = "done"
                      /\ process'[m] # "failed"
                      /\ process'[m] \in {"processing", "done"} => \A q \in DepsOf(m) : at'[q] # "idle"
    BY <1>1 DEF ModulesInv
  <2>1. \A q \in DepsOf(m) : at'[q] = at[q] \/ at'[q] # "idle"
    BY DEF DepsOf
  <2> QED
    BY <1>0, <2>1 DEF ModulesInv
<1>4. AwaitedInv'
  <2>1. \A q \in Requests : \A j \in Jobs : Awaits(q, j) => Awaits(q, j)'
    BY DEF Awaits
  <2>2. \A q \in Requests : \A j \in Jobs : Awaits(q, j) => q[1] = "entry" \/ Maker(q) \in Jobs
    BY <1>0, MakerIsJob DEF Awaits, RequestsInv, Over
  <2>3. CASE (\A m \in Module : build'[m] = build[m]) /\ (\A m \in Module : process'[m] = process[m])
    <3>1. Jobs' = Jobs
      BY <2>3 DEF Jobs
    <3> QED
      BY <1>0, <1>1, <2>1, <3>1, AwaitedSame
  <2>4. CASE at'[r] = "building"
    <3> DEFINE j == <<"build", Target(r)>>
    <3>1. Jobs' \subseteq Jobs \cup {j}
      BY <2>4 DEF Jobs
    <3>2. CASE j \in Jobs
      BY <1>0, <1>1, <2>1, <3>1, <3>2, AwaitedSame
    <3>3. CASE j \notin Jobs
      <4>1. Awaits(r, j)'
        BY <2>4 DEF Awaits, Target
      <4> HIDE DEF j
      <4> QED
        BY <1>0, <1>1, <2>1, <2>2, <3>1, <3>3, <4>1, AwaitedNew
    <3> QED
      BY <3>2, <3>3
  <2>5. CASE at'[r] = "processing"
    <3> DEFINE j == <<"process", Target(r)>>
    <3>1. Jobs' \subseteq Jobs \cup {j}
      BY <2>5 DEF Jobs
    <3>2. CASE j \in Jobs
      BY <1>0, <1>1, <2>1, <3>1, <3>2, AwaitedSame
    <3>3. CASE j \notin Jobs
      <4>1. Awaits(r, j)'
        BY <2>5 DEF Awaits, Target
      <4> HIDE DEF j
      <4> QED
        BY <1>0, <1>1, <2>1, <2>2, <3>1, <3>3, <4>1, AwaitedNew
    <3> QED
      BY <3>2, <3>3
  <2> QED
    BY <2>3, <2>4, <2>5
<1> QED
  BY <1>0, <1>2, <1>3, <1>4 DEF WithoutBail

LEMMA RequestFacts ==
  ASSUME Types, WithoutBail, NEW r \in Requests
  PROVE  /\ Origin(r) \in Module /\ Target(r) \in Module /\ r \in Request
         /\ at[r] \in RequestStatus /\ (r[1] = "dep" => r \in DepsOf(Origin(r)))
         /\ MakerWaits(r) /\ Reached(r)
         /\ at[r] = "executing" => r[1] = "import"
         /\ at[r] \notin {"idle"} \cup Over => r[1] = "entry" \/ Maker(r) \in Jobs
<1>1. Origin(r) \in Module /\ Target(r) \in Module /\ r \in Request /\ at[r] \in RequestStatus
  BY RequestsFinite DEF Types, Request, Origin, Target
<1>2. r[1] = "dep" => r \in DepsOf(Origin(r))
  BY DEF DepsOf
<1>3. /\ MakerWaits(r) /\ Reached(r)
      /\ at[r] = "executing" => r[1] = "import"
  BY DEF WithoutBail, RequestsInv
<1>4. at[r] \notin {"idle"} \cup Over => r[1] = "entry" \/ Maker(r) \in Jobs
  BY <1>3, MakerIsJob
<1> QED
  BY <1>1, <1>2, <1>3, <1>4

LEMMA CreateOn ==
  ASSUME Types, WithoutBail, ~project.bail, NEW r \in Requests,
         StartCreate(r) \/ FinishCreate(r) \/ HandleBuild(r)
  PROVE  WithoutBail'
<1>1. /\ Origin(r) \in Module /\ Target(r) \in Module /\ MakerWaits(r) /\ r \in Requests
      /\ r[1] = "entry" \/ Maker(r) \in Jobs
  BY RequestFacts DEF StartCreate, FinishCreate, HandleBuild, Over
<1>2. /\ UNCHANGED <<project, stopped, process>> /\ at[r] \in {"queued", "creating", "created"}
      /\ build \in [Module -> JobStatus] /\ at \in [Requests -> RequestStatus]
  BY DEF StartCreate, FinishCreate, HandleBuild, Types
<1>3. ASSUME NEW status \in {"creating", "created", "failed"}, Move(r, status), build' = build,
             status = "failed" => ~Recursive(r) \/ Target(r) \in project.missing
      PROVE  WithoutBail'
  <2>1. at'[r] = status /\ \A q \in Requests : q # r => at'[q] = at[q]
    BY <1>2, <1>3 DEF Move
  <2>2. MakerWaits(r)' /\ Reached(r)'
    BY <1>1, <1>2, <1>3, <2>1 DEF MakerWaits, Reached, Over
  <2> QED
    BY <1>1, <1>2, <1>3, <2>1, <2>2, RequestStep
<1>4. ASSUME AddBuild(r), ~stopped PROVE WithoutBail'
  <2>1. PICK status \in {"building", "built"} :
           /\ Move(r, status)
           /\ \/ build[Target(r)] = "none" /\ build' = [build EXCEPT ![Target(r)] = "queued"]
                    /\ status = "building"
              \/ build' = build /\ (status = "built" => build[Target(r)] \in {"done", "failed"})
    BY <1>4 DEF AddBuild
  <2>2. at'[r] = status /\ \A q \in Requests : q # r => at'[q] = at[q]
    BY <1>2, <2>1 DEF Move
  <2>3. MakerWaits(r)' /\ Reached(r)'
    <3>1. \A m \in Module : build[m] = "processing" => build'[m] = "processing"
      BY <1>2, <2>1
    <3>2. MakerWaits(r)'
      BY <1>1, <1>2, <2>2, <3>1 DEF MakerWaits, Over
    <3>3. Reached(r)'
      BY <1>1, <1>2, <2>1, <2>2 DEF Reached
    <3> QED
      BY <3>2, <3>3
  <2>4. \A m \in Module : build'[m] = build[m]
            \/ (build[m] = "none" /\ build'[m] = "queued" /\ at'[r] = "building" /\ m = Target(r))
    BY <1>1, <1>2, <2>1, <2>2
  <2> QED
    BY <1>1, <1>2, <2>2, <2>3, <2>4, RequestStep
<1>5. ~stopped
  BY DEF WithoutBail
<1>6. CASE StartCreate(r)
  BY <1>3, <1>6 DEF StartCreate
<1>7. CASE FinishCreate(r)
  BY <1>3, <1>7 DEF FinishCreate
<1>8. CASE HandleBuild(r)
  BY <1>3, <1>4, <1>5, <1>8 DEF HandleBuild
<1> QED
  BY <1>6, <1>7, <1>8

LEMMA DependenciesOn ==
  ASSUME Types, WithoutBail, ~project.bail, NEW r \in Requests, HandleDependencies(r)
  PROVE  WithoutBail'
<1>1. /\ Origin(r) \in Module /\ Target(r) \in Module /\ MakerWaits(r)
      /\ r[1] = "entry" \/ Maker(r) \in Jobs
      /\ build[Target(r)] \in {"done", "failed"} /\ ~stopped
  BY RequestFacts DEF HandleDependencies, Over, Reached, WithoutBail
<1>2. /\ UNCHANGED <<project, stopped, build>> /\ at[r] = "built"
      /\ process \in [Module -> JobStatus] /\ at \in [Requests -> RequestStatus]
  BY DEF HandleDependencies, Types
<1>3. PICK status \in {"failed", "returned", "processing"} :
         /\ Move(r, status)
         /\ \/ (~Recursive(r) \/ build[Target(r)] = "failed" \/ process[Target(r)] # "none")
                  /\ process' = process
            \/ /\ build[Target(r)] = "done" /\ process[Target(r)] = "none"
               /\ process' = [process EXCEPT ![Target(r)] = "queued"] /\ status = "processing"
         /\ status = "processing" => Recursive(r)
  <2>1. process[Target(r)] \in JobStatus
    BY <1>1, <1>2
  <2>2. CASE build[Target(r)] = "failed" \/ ~Recursive(r)
    BY <2>2 DEF HandleDependencies
  <2>3. CASE build[Target(r)] # "failed" /\ Recursive(r)
    <3>1. AddProcess(r)
      BY <2>3 DEF HandleDependencies
    <3> QED
      BY <1>1, <2>1, <2>3, <3>1 DEF AddProcess, Circular, JobStatus
  <2> QED
    BY <2>2, <2>3
<1>4. at'[r] = status /\ \A q \in Requests : q # r => at'[q] = at[q]
  BY <1>2, <1>3 DEF Move
<1>5. \A m \in Module : process'[m] = process[m]
            \/ (process[m] = "none" /\ process'[m] = "queued" /\ at'[r] = "processing" /\ m = Target(r)
                   /\ build[m] = "done")
  BY <1>1, <1>2, <1>3, <1>4
<1>6. MakerWaits(r)'
  BY <1>1, <1>2, <1>4, <1>5 DEF MakerWaits, Over
<1>7. Reached(r)'
  BY <1>1, <1>2, <1>3, <1>4 DEF Reached, Recursive
<1> QED
  BY <1>1, <1>2, <1>3, <1>4, <1>5, <1>6, <1>7, RequestStep

\* A loader makes a request, one is answered, or a module is executed.
LEMMA LoaderOn ==
  ASSUME Types, WithoutBail, ~project.bail, NEW r \in Requests,
         Load(r) \/ ReturnEntry(r) \/ ReturnLoad(r) \/ Execute(r),
         at[r] \in {"returned", "failed"} \/ Load(r) \/ Execute(r)
  PROVE  WithoutBail'
<1>1. /\ Origin(r) \in Module /\ Target(r) \in Module /\ MakerWaits(r) /\ Reached(r)
      /\ at[r] \notin {"idle"} \cup Over => r[1] = "entry" \/ Maker(r) \in Jobs
      /\ at[r] = "executing" => r[1] = "import"
      /\ ~stopped /\ at \in [Requests -> RequestStatus]
  BY RequestFacts DEF Types, WithoutBail
<1>2. UNCHANGED <<project, build, process, stopped>>
  BY DEF Load, ReturnEntry, ReturnLoad, Execute
<1>3. CASE Load(r)
  <2>1. /\ at'[r] = "queued" /\ \A q \in Requests : q # r => at'[q] = at[q]
        /\ at[r] = "idle" /\ build[Origin(r)] = "processing" /\ r[1] \in {"load", "import"}
    BY <1>1, <1>3 DEF Load, Move, LoadsOf
  <2>2. MakerWaits(r)' /\ Reached(r)'
    BY <1>2, <2>1 DEF MakerWaits, Reached
  <2>3. Maker(r) \in Jobs
    BY <1>1, <2>1, JobFacts DEF Maker
  <2> QED
    BY <1>2, <2>1, <2>2, <2>3, RequestStep
<1>4. CASE ~Load(r)
  <2>1. PICK status \in {"executing", "ok", "err"} :
           Move(r, status) /\ (status = "executing" => r[1] = "import" /\ at[r] = "returned")
    BY <1>4 DEF ReturnEntry, ReturnLoad, Execute, Outcome
  <2>2. at[r] \in {"returned", "failed", "executing"}
    BY <1>4 DEF Execute
  <2>3. at'[r] = status /\ \A q \in Requests : q # r => at'[q] = at[q]
    BY <1>1, <2>1 DEF Move
  <2>4. MakerWaits(r)' /\ Reached(r)'
    BY <1>1, <1>2, <2>1, <2>2, <2>3 DEF MakerWaits, Reached, Over
  <2> QED
    BY <1>1, <1>2, <2>1, <2>2, <2>3, <2>4, RequestStep DEF Over
<1> QED
  BY <1>3, <1>4

LEMMA BuildOn ==
  ASSUME Types, WithoutBail, ~project.bail, NEW m \in Module, StartBuild(m) \/ FinishBuild(m)
  PROVE  WithoutBail'
<1>0. ~stopped /\ RequestsInv /\ ModulesInv /\ AwaitedInv
  BY DEF WithoutBail
<1>1. /\ UNCHANGED <<project, process, stopped>> /\ build \in [Module -> JobStatus]
      /\ build[m] \in {"queued", "processing"}
  BY DEF StartBuild, FinishBuild, Types
<1>2. Requests' = Requests /\ \A n : DepsOf(n)' = DepsOf(n)
  BY <1>1, SameProject
<1>3. \A n \in Module : n # m => build'[n] = build[n]
  BY <1>1 DEF StartBuild, FinishBuild
<1>4. build'[m] \in {"processing", "done", "failed"}
      /\ (build'[m] = "done" => m \notin project.broken) /\ (build'[m] = "failed" => m \in project.broken)
  BY <1>1 DEF StartBuild, FinishBuild
<1>5. ASSUME NEW q \in Requests
      PROVE  \/ at'[q] = at[q] /\ (at[q] = "building" /\ Target(q) = m => build'[m] = "processing")
             \/ at[q] = "building" /\ at'[q] = "built" /\ Target(q) = m /\ build'[m] \in {"done", "failed"}
  <2>1. CASE StartBuild(m)
    BY <1>1, <2>1 DEF StartBuild
  <2>2. CASE FinishBuild(m)
    BY <1>1, <2>2 DEF FinishBuild, Wake
  <2> QED
    BY <2>1, <2>2
<1>6. build'[m] = "processing" \/ (build[m] = "processing" /\ \A q \in LoadsOf(m) : at[q] \in Over)
  BY <1>1 DEF StartBuild, FinishBuild
<1>7. RequestsInv'
  <2> SUFFICES ASSUME NEW q \in Requests
               PROVE  MakerWaits(q)' /\ Reached(q)'
                      /\ (at'[q] = "executing" => q[1] = "import") /\ (at'[q] = "processing" => Recursive(q))
    BY <1>2 DEF RequestsInv, Recursive
  <2>1. /\ Origin(q) \in Module /\ Target(q) \in Module /\ MakerWaits(q) /\ Reached(q) /\ q \in Request
    BY RequestFacts
  <2>2. MakerWaits(q)'
    <3>1. q[1] = "entry" \/ q[1] = "dep" \/ q \in LoadsOf(Origin(q))
      BY <2>1 DEF LoadsOf, Request
    <3>2. CASE Origin(q) = m /\ q \in LoadsOf(m)
      <4>1. at'[q] \in Over \/ build'[m] = "processing"
        BY <1>5, <1>6, <3>2 DEF Over
      <4>2. q[1] # "dep"
        BY <3>2 DEF LoadsOf
      <4> QED
        BY <3>2, <4>1, <4>2 DEF MakerWaits
    <3>3. CASE Origin(q) # m \/ q \notin LoadsOf(m)
      BY <1>1, <1>3, <1>5, <2>1, <3>1, <3>3 DEF MakerWaits, Over
    <3> QED
      BY <3>2, <3>3
  <2>3. Reached(q)'
    <3>1. Target(q) # m => build'[Target(q)] = build[Target(q)]
      BY <1>3, <2>1
    <3> QED
      BY <1>1, <1>5, <2>1, <3>1 DEF Reached
  <2> QED
    BY <1>0, <1>5, <2>2, <2>3 DEF RequestsInv
<1>8. ModulesInv'
  <2> SUFFICES ASSUME NEW n \in Module
               PROVE  /\ build'[n] = "done" => n \notin project.broken
                      /\ build'[n] = "failed" => n \in project.broken
                      /\ process'[n] # "none" => build'[n] = "done"
                      /\ process'[n] # "failed"
                      /\ process'[n] \in {"processing", "done"} => \A q \in DepsOf(n) : at'[q] # "idle"
    BY <1>1, <1>2 DEF ModulesInv
  <2>1. \A q \in DepsOf(n) : at'[q] = at[q] \/ at'[q] = "built"
    BY <1>5 DEF DepsOf
  <2> QED
    BY <1>0, <1>1, <1>3, <1>4, <2>1 DEF ModulesInv
<1>9. AwaitedInv'
  <2>1. Jobs' \subseteq Jobs
    BY <1>1, <1>3 DEF Jobs
  <2>2. ASSUME NEW q \in Requests, NEW j \in Jobs', Awaits(q, j) PROVE Awaits(q, j)'
    <3>1. j = <<"build", m>> => build'[m] = "processing"
      BY <1>4 DEF Jobs
    <3>2. j[2] \in Module /\ (j = <<"build", j[2]>> \/ j = <<"process", j[2]>>)
      BY <2>1, JobFacts
    <3> QED
      BY <1>5, <2>2, <3>1, <3>2 DEF Awaits
  <2> QED
    BY <1>0, <1>2, <2>1, <2>2, AwaitedSame
<1> QED
  BY <1>0, <1>1, <1>7, <1>8, <1>9 DEF WithoutBail

\* A module's dependencies are requested, or the job ends: its last one has returned
\* or it has none.
LEMMA JobStep ==
  ASSUME Types, WithoutBail, NEW m \in Module, UNCHANGED <<project, build, stopped>>,
         process' = [process EXCEPT ![m] = IF process'[m] = "done" THEN "done" ELSE "processing"],
         process[m] \in {"queued", "processing"},
         \A q \in Requests :
            \/ at'[q] = at[q] /\ ~(process'[m] = "done" /\ at[q] = "processing" /\ Target(q) = m)
            \/ process'[m] = "done" /\ at[q] = "processing" /\ at'[q] = "returned" /\ Target(q) = m
            \/ at[q] \in {"returned", "failed"} /\ at'[q] \in Over
            \/ at[q] = "idle" /\ at'[q] = "queued" /\ q \in DepsOf(m) /\ process'[m] = "processing",
         \A q \in DepsOf(m) : at'[q] # "idle" /\ (process'[m] = "done" => ~Under(q)')
  PROVE  WithoutBail'
<1>0. ~stopped /\ RequestsInv /\ ModulesInv /\ AwaitedInv
  BY DEF WithoutBail
<1>1. process \in [Module -> JobStatus]
  BY DEF Types
<1>2. Requests' = Requests /\ \A n : DepsOf(n)' = DepsOf(n)
  BY SameProject
<1>3. process'[m] \in {"processing", "done"} /\ \A n \in Module : n # m => process'[n] = process[n]
  BY <1>1
<1>4. RequestsInv'
  <2> SUFFICES ASSUME NEW q \in Requests
               PROVE  MakerWaits(q)' /\ Reached(q)'
                      /\ (at'[q] = "executing" => q[1] = "import") /\ (at'[q] = "processing" => Recursive(q))
    BY <1>2 DEF RequestsInv, Recursive
  <2>1. /\ Origin(q) \in Module /\ Target(q) \in Module /\ MakerWaits(q) /\ Reached(q)
        /\ q[1] = "dep" => q \in DepsOf(Origin(q))
    BY RequestFacts
  <2>2. at'[q] = "executing" => q[1] = "import"
    BY <1>0 DEF RequestsInv, Over
  <2>3. MakerWaits(q)'
    <3>1. CASE q[1] = "dep" /\ Origin(q) = m
      <4>1. process'[m] = "done" => ~Under(q)'
        BY <2>1, <3>1
      <4> QED
        BY <1>3, <2>2, <3>1, <4>1 DEF MakerWaits, Under
    <3>2. CASE ~(q[1] = "dep" /\ Origin(q) = m)
      <4>1. at[q] \notin {"idle"} \cup Over \/ at'[q] \in Over \/ at'[q] = at[q]
        BY <3>2 DEF DepsOf, Over
      <4> QED
        BY <1>3, <2>1, <3>2, <4>1 DEF MakerWaits
    <3> QED
      BY <3>1, <3>2
  <2>4. Reached(q)'
    <3>1. process[Target(q)] # "none" => process'[Target(q)] # "none"
      BY <1>3, <2>1
    <3> QED
      BY <2>1, <3>1 DEF Reached, Over
  <2>5. at'[q] = "processing" => Recursive(q)
    BY <1>0 DEF RequestsInv, Over
  <2> QED
    BY <2>2, <2>3, <2>4, <2>5
<1>5. ModulesInv'
  <2> SUFFICES ASSUME NEW n \in Module
               PROVE  /\ build[n] = "done" => n \notin project.broken
                      /\ build[n] = "failed" => n \in project.broken
                      /\ process'[n] # "none" => build[n] = "done"
                      /\ process'[n] # "failed"
                      /\ process'[n] \in {"processing", "done"} => \A q \in DepsOf(n) : at'[q] # "idle"
    BY <1>2 DEF ModulesInv
  <2>1. ASSUME process'[n] \in {"processing", "done"}, NEW q \in DepsOf(n) PROVE at'[q] # "idle"
    <3>1. q \in Requests
      BY DEF DepsOf
    <3>2. CASE n = m
      BY <3>2
    <3>3. CASE n # m
      BY <1>0, <1>3, <2>1, <3>1, <3>3 DEF ModulesInv, Over
    <3> QED
      BY <3>2, <3>3
  <2> QED
    BY <1>0, <1>3, <2>1 DEF ModulesInv
<1>6. AwaitedInv'
  <2>1. Jobs' \subseteq Jobs
    BY <1>3 DEF Jobs
  <2>2. ASSUME NEW q \in Requests, NEW j \in Jobs', Awaits(q, j) PROVE Awaits(q, j)'
    <3>1. j = <<"process", m>> => process'[m] = "processing"
      BY <1>3 DEF Jobs
    <3>2. j[2] \in Module /\ (j = <<"build", j[2]>> \/ j = <<"process", j[2]>>)
      BY <2>1, JobFacts
    <3> QED
      BY <2>2, <3>1, <3>2 DEF Awaits
  <2> QED
    BY <1>0, <1>2, <2>1, <2>2, AwaitedSame
<1> QED
  BY <1>0, <1>4, <1>5, <1>6 DEF WithoutBail

LEMMA StartProcessOn ==
  ASSUME JobInv, WithoutBail, NEW m \in Module, StartProcess(m)
  PROVE  WithoutBail'
<1>1. /\ Types /\ process \in [Module -> JobStatus] /\ CounterOf(m)
      /\ UNCHANGED <<project, build, stopped>> /\ process[m] = "queued"
  BY DEF JobInv, CounterInv, Types, StartProcess
<1>2. CASE DepsOf(m) = {}
  <2>1. process' = [process EXCEPT ![m] = "done"] /\ process'[m] = "done" /\ Wake("processing", m, "returned")
    BY <1>1, <1>2 DEF StartProcess
  <2>2. \A q \in Requests :
           \/ at'[q] = at[q] /\ ~(process'[m] = "done" /\ at[q] = "processing" /\ Target(q) = m)
           \/ process'[m] = "done" /\ at[q] = "processing" /\ at'[q] = "returned" /\ Target(q) = m
    BY <2>1 DEF Wake
  <2>3. process' = [process EXCEPT ![m] = IF process'[m] = "done" THEN "done" ELSE "processing"]
    BY <2>1
  <2>4. process[m] \in {"queued", "processing"} /\ \A q \in DepsOf(m) : at'[q] # "idle" /\ ~Under(q)'
    BY <1>1, <1>2
  <2> QED
    BY <1>1, <2>2, <2>3, <2>4, JobStep
<1>3. CASE DepsOf(m) # {}
  <2>1. process' = [process EXCEPT ![m] = "processing"] /\ process'[m] = "processing"
        /\ at' = [r \in Requests |-> IF r \in DepsOf(m) THEN "queued" ELSE at[r]]
    BY <1>1, <1>3 DEF StartProcess
  <2>2. \A q \in DepsOf(m) : q \in Requests /\ at[q] = "idle"
    BY <1>1 DEF CounterOf, DepsOf
  <2>3. \A q \in Requests :
           \/ at'[q] = at[q] /\ ~(process'[m] = "done" /\ at[q] = "processing" /\ Target(q) = m)
           \/ at[q] = "idle" /\ at'[q] = "queued" /\ q \in DepsOf(m) /\ process'[m] = "processing"
    BY <2>1, <2>2
  <2>4. \A q \in DepsOf(m) : at'[q] # "idle" /\ (process'[m] = "done" => ~Under(q)')
    BY <2>1, <2>2
  <2>5. process' = [process EXCEPT ![m] = IF process'[m] = "done" THEN "done" ELSE "processing"]
    BY <2>1
  <2> QED
    BY <1>1, <2>3, <2>4, <2>5, JobStep
<1> QED
  BY <1>2, <1>3

LEMMA ReturnDepOn ==
  ASSUME JobInv, WithoutBail, ~project.bail, NEW r \in Requests, ReturnDep(r),
         at[r] \in {"returned", "failed"}
  PROVE  WithoutBail'
<1> DEFINE m == Origin(r)
<1>1. /\ Types /\ JobInv' /\ m \in Module /\ CounterOf(m) /\ UNCHANGED <<project, build, stopped>>
      /\ process \in [Module -> JobStatus] /\ at \in [Requests -> RequestStatus]
  BY ReturnDepStep, RequestsFinite DEF JobInv, Types, CounterInv, ReturnDep, Request, Origin
<1>2. ~Bails(r) /\ Outcome(r) \in Over
  BY DEF Bails, Outcome, Over
<1>3. CASE Move(r, Outcome(r)) /\ process' = process
  <2>1. at'[r] \in Over /\ \A q \in Requests : q # r => at'[q] = at[q]
    BY <1>1, <1>2, <1>3 DEF Move
  <2>2. r[1] = "entry" \/ Maker(r) \in Jobs
    BY <1>1, RequestFacts DEF Over
  <2>3. MakerWaits(r)' /\ Reached(r)'
    <3>1. Reached(r)
      BY <1>1, RequestFacts
    <3> QED
      BY <1>1, <1>3, <2>1, <3>1 DEF MakerWaits, Reached, Over
  <2> QED
    BY <1>1, <1>3, <2>1, <2>2, <2>3, RequestStep DEF Over
<1>4. CASE left[m] = 1 /\ EndProcess(r, m, "done", "returned")
  <2>1. process' = [process EXCEPT ![m] = "done"] /\ process'[m] = "done"
        /\ at' = [q \in Requests |->
                     IF q = r THEN Outcome(r)
                     ELSE IF at[q] = "processing" /\ Target(q) = m THEN "returned" ELSE at[q]]
    BY <1>1, <1>4 DEF EndProcess
  <2>2. process[m] = "processing"
    <3>1. process[m] \in JobStatus
      BY <1>1
    <3> QED
      BY <1>1, <1>4, <3>1 DEF CounterOf, JobStatus
  <2>3. \A q \in Requests :
           \/ at'[q] = at[q] /\ ~(process'[m] = "done" /\ at[q] = "processing" /\ Target(q) = m)
           \/ process'[m] = "done" /\ at[q] = "processing" /\ at'[q] = "returned" /\ Target(q) = m
           \/ at[q] \in {"returned", "failed"} /\ at'[q] \in Over
    BY <1>2, <2>1
  <2>4. \A q \in DepsOf(m) : at'[q] # "idle" /\ ~Under(q)'
    <3> SUFFICES ASSUME NEW q \in DepsOf(m) PROVE at'[q] # "idle" /\ ~Under(q)'
      OBVIOUS
    <3>1. q \in Requests /\ at[q] # "idle"
      BY <1>1, <2>2 DEF DepsOf, WithoutBail, ModulesInv
    <3>2. CounterOf(m)' /\ DepsOf(m)' = DepsOf(m)
      BY <1>1, SameProject DEF JobInv, CounterInv
    <3>3. Open(m)' = {}
      BY <2>1, <3>2 DEF CounterOf
    <3>4. ~Under(q)'
      BY <3>2, <3>3 DEF Open
    <3> QED
      BY <2>3, <3>1, <3>4 DEF Over
  <2>5. process' = [process EXCEPT ![m] = IF process'[m] = "done" THEN "done" ELSE "processing"]
    BY <2>1
  <2> HIDE DEF m
  <2> QED
    BY <1>1, <2>2, <2>3, <2>4, <2>5, JobStep
<1> QED
  BY <1>2, <1>3, <1>4 DEF ReturnDep

\* When all entries are answered no job is left: one of those left would be
\* awaited by an entry, or by none of them.
LEMMA FinishedIsComplete ==
  ASSUME JobInv, MakeInv
  PROVE  MakeIsComplete
<1> DEFINE resolved == {d \in project.deps : d[2] \notin project.missing /\ d[1] \notin project.broken}
           needed == Reachable(resolved, project.entries \ project.missing)
           complete(m) == IF m \in project.broken THEN build[m] = "failed"
                          ELSE build[m] = "done" /\ process[m] = "done"
<1> SUFFICES ASSUME Answered, Idle, ~project.bail
             PROVE  /\ \A m \in needed : complete(m)
                    /\ Active = 0 /\ extra = 0
                    /\ \A m \in Module : build[m] # "queued" /\ process[m] # "queued"
  BY DEF MakeIsComplete
<1>0. Types /\ CounterInv /\ RoomInv /\ WithoutBail /\ RequestsInv /\ ModulesInv /\ AwaitedInv
  BY DEF JobInv, MakeInv, WithoutBail
<1>1. Jobs = {}
  <2> SUFFICES ASSUME Jobs # {} PROVE FALSE
    OBVIOUS
  <2>1. PICK j \in Jobs, r \in Requests : Awaits(r, j) /\ (r[1] = "entry" \/ Maker(r) \notin Jobs)
    BY <1>0 DEF AwaitedInv
  <2>2. at[r] \notin {"idle"} \cup Over
    BY <2>1 DEF Awaits, Over
  <2>3. r[1] = "entry" \/ Maker(r) \in Jobs
    BY <1>0, <2>2, RequestFacts
  <2> QED
    BY <2>1, <2>2, <2>3 DEF Answered
<1>2. \A m \in Module : build[m] \notin {"queued", "processing"} /\ process[m] \notin {"queued", "processing"}
  BY <1>1, JobFacts
<1>3. \A r \in Requests : at[r] \in {"idle"} \cup Over
  BY <1>0, <1>1, RequestFacts DEF Answered
<1>4. Active = 0
  <2>1. /\ {r \in Requests : at[r] = "creating"} = {}
        /\ {m \in Module : build[m] = "processing"} = {}
        /\ {m \in Module : process[m] = "processing"} = {}
    BY <1>2, <1>3 DEF Over
  <2> QED
    BY <2>1, FS_EmptySet DEF Active
<1>5. extra = 0
  <2>1. Waiting = {} /\ Loading = {}
    BY <1>2, <1>3 DEF Waiting, Loading
  <2> QED
    BY <1>0, <2>1, FS_EmptySet DEF RoomInv
<1>6. ASSUME NEW r \in Requests, Recursive(r), at[r] \in Over, Target(r) \notin project.missing
      PROVE  complete(Target(r))
  <2>1. Target(r) \in Module /\ Reached(r)
    BY <1>0, RequestFacts
  <2>2. build[Target(r)] = "failed" \/ process[Target(r)] # "none"
    BY <1>6, <2>1 DEF Reached, Over
  <2>3. process[Target(r)] \in JobStatus /\ build[Target(r)] \in JobStatus
    BY <1>0, <2>1 DEF Types
  <2> QED
    BY <1>0, <1>2, <2>1, <2>2, <2>3 DEF ModulesInv, JobStatus
<1>7. ASSUME NEW m \in needed PROVE complete(m)
  <2> DEFINE C == {n \in Module : complete(n)}
  <2>0. IsProject(project)
    BY <1>0 DEF Types
  <2>1. project.entries \ project.missing \subseteq C
    <3> SUFFICES ASSUME NEW n \in project.entries, n \notin project.missing PROVE n \in C
      OBVIOUS
    <3>1. Entry(n) \in Requests /\ n \in Module
      BY <2>0 DEF Requests, Made, IsProject
    <3>2. Recursive(Entry(n)) /\ Target(Entry(n)) = n /\ at[Entry(n)] \in Over
      BY <3>1 DEF Recursive, Entry, Target, Answered
    <3> QED
      BY <1>6, <3>1, <3>2
  <2>2. \A e \in resolved : e[1] \in C => e[2] \in C
    <3> SUFFICES ASSUME NEW e \in resolved, e[1] \in C PROVE e[2] \in C
      OBVIOUS
    <3> DEFINE r == <<"dep", e[1], e[2]>>
    <3>1. r \in Requests /\ e[1] \in Module /\ e[2] \in Module
      BY <2>0 DEF Requests, Made, IsProject
    <3>2. r[1] = "dep" /\ Origin(r) = e[1] /\ Target(r) = e[2] /\ Recursive(r)
      BY DEF Origin, Target, Recursive
    <3> HIDE DEF r
    <3>3. process[e[1]] = "done" /\ r \in DepsOf(e[1])
      BY <3>1, <3>2 DEF DepsOf
    <3>4. at[r] # "idle"
      BY <1>0, <3>1, <3>3 DEF ModulesInv
    <3>5. at[r] \in Over
      BY <1>3, <3>1, <3>4
    <3>6. complete(Target(r))
      BY <1>6, <3>1, <3>2, <3>5
    <3> QED
      BY <3>1, <3>2, <3>6
  <2>3. C \in SUBSET Module
    OBVIOUS
  <2> HIDE DEF C, resolved
  <2>4. m \in C
    BY <1>7, <2>1, <2>2, <2>3 DEF Reachable
  <2> QED
    BY <2>4 DEF C
<1> QED
  BY <1>2, <1>4, <1>5, <1>7

\* When every entry is answered everything they lead to is complete, and there is
\* nothing left to do, for every project whose build does not bail: although
\* circular dependencies are answered early, and whatever fails.
THEOREM MakeIsCompleteCorrect == Spec => []MakeIsComplete
<1>1. Init => MakeInv
  <2> SUFFICES ASSUME Init PROVE WithoutBail
    BY DEF MakeInv
  <2>1. /\ \A r \in Requests : at[r] = IF r[1] = "entry" THEN "queued" ELSE "idle"
        /\ \A m \in Module : build[m] = "none" /\ process[m] = "none"
        /\ ~stopped
    BY DEF Init
  <2>2. RequestsInv
    BY <2>1 DEF RequestsInv, MakerWaits, Reached
  <2>3. ModulesInv
    BY <2>1 DEF ModulesInv
  <2>4. Jobs = {}
    BY <2>1 DEF Jobs
  <2> QED
    BY <2>1, <2>2, <2>3, <2>4 DEF WithoutBail, AwaitedInv
<1>2. JobInv /\ MakeInv /\ [Next]_vars => MakeInv'
  <2> SUFFICES ASSUME JobInv, MakeInv, [Next]_vars, ~project'.bail PROVE WithoutBail'
    BY DEF MakeInv
  <2>1. project' = project
    BY DEF Next, Callback, Event, HandleBuild, HandleDependencies, Return, ReturnEntry, Stop, ReturnDep,
           ReturnLoad, StartCreate, FinishCreate, Load, Execute, StartBuild, FinishBuild, StartProcess, vars
  <2>2. Types /\ WithoutBail /\ ~project.bail
    BY <2>1 DEF JobInv, MakeInv
  <2>3. ASSUME NEW r \in Requests, Callback(r) PROVE WithoutBail'
    <3>1. CASE HandleBuild(r) \/ HandleDependencies(r)
      BY <2>2, <3>1, CreateOn, DependenciesOn
    <3>2. CASE Return(r)
      <4>1. at[r] \in {"returned", "failed"} /\ ~Stop(r)
        BY <2>2, <3>2 DEF Return, Stop, Bails
      <4> QED
        BY <2>2, <3>2, <4>1, LoaderOn, ReturnDepOn DEF Return
    <3> QED
      BY <2>3, <3>1, <3>2 DEF Callback
  <2>4. ASSUME NEW r \in Requests, StartCreate(r) \/ FinishCreate(r) \/ Load(r) \/ Execute(r)
        PROVE  WithoutBail'
    BY <2>2, <2>4, CreateOn, LoaderOn
  <2>5. ASSUME NEW m \in Module, StartBuild(m) \/ FinishBuild(m) \/ StartProcess(m)
        PROVE  WithoutBail'
    BY <2>2, <2>5, BuildOn, StartProcessOn
  <2>6. CASE UNCHANGED vars
    <3>1. UNCHANGED <<project, at, build, process, stopped>> /\ Requests' = Requests
          /\ \A m : DepsOf(m)' = DepsOf(m)
      BY <2>6, SameProject DEF vars
    <3>2. RequestsInv' /\ ModulesInv'
      BY <2>2, <3>1 DEF WithoutBail, RequestsInv, ModulesInv, MakerWaits, Reached, Recursive
    <3>3. Jobs' = Jobs
      BY <3>1 DEF Jobs
    <3>4. AwaitedInv'
      BY <2>2, <3>1, <3>3, AwaitedSame DEF WithoutBail, Awaits
    <3> QED
      BY <2>2, <3>1, <3>2, <3>4 DEF WithoutBail
  <2> QED
    BY <2>3, <2>4, <2>5, <2>6 DEF Next, Event
<1> QED
  BY <1>1, <1>2, JobsInvariance, FinishedIsComplete, PTL DEF Spec
=============================================================================
