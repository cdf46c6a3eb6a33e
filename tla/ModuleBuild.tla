------------------------------ MODULE ModuleBuild ------------------------------
(***************************************************************************)
(* webpack/lib/Compilation.js and dependencies/LoaderPlugin.js: how the    *)
(* module graph is built from the entries.  handleModuleCreation() creates *)
(* a module (factorize and add), builds it and processes its dependencies, *)
(* each as a job of an AsyncQueue; the dependencies call it again, and so  *)
(* do the loaders that run inside a build (loadModule, importModule).      *)
(*                                                                         *)
(* A request is one call of handleModuleCreation().  The jobs of all the   *)
(* queues share one budget of slots (module AsyncQueue); which queue is    *)
(* served first is left open.  The callbacks of a job run before anything  *)
(* else happens: they are the requests that are "due", in any order.       *)
(* Factorizing and adding a module are one job; a module is never restored *)
(* from a cache and the unsafe cache is off.                               *)
(***************************************************************************)
EXTENDS Integers, FiniteSets

CONSTANTS
    Module,         \* modules, by identifier
    Project         \* the projects to build, as records (see IsProject)

\* entries: the entry modules; deps, loads, imports: pairs of modules, the
\* second is a dependency of the first or loaded or imported by its loaders;
\* missing: what cannot be resolved; broken: what cannot be built; bail and
\* parallelism: the options of these names.
IsProject(p) ==
    /\ p.entries \subseteq Module
    /\ \A pairs \in {p.deps, p.loads, p.imports} : pairs \subseteq Module \X Module
    /\ p.missing \subseteq Module /\ p.broken \subseteq Module
    /\ p.bail \in BOOLEAN
    /\ p.parallelism \in Nat \ {0}

ASSUME ModuleBuildAssumption ==
    /\ IsFiniteSet(Module)
    /\ \A p \in Project : IsProject(p)

VARIABLES
    project,    \* the project that is being built
    at,         \* [Requests -> RequestStatus]
    build,      \* [Module -> JobStatus]: buildQueue
    process,    \* [Module -> JobStatus]: processDependenciesQueue
    left,       \* [Module -> Int]: inProgressTransitive
    extra,      \* increaseParallelism() calls not taken back
    creating,   \* creatingModuleDuringBuild, as pairs <<origin, module>>
    stopped     \* the queues have been stopped

vars == <<project, at, build, process, left, extra, creating, stopped>>

JobStatus == {"none", "queued", "processing", "done", "failed"}

RequestStatus == {
    "idle",                                 \* not made yet
    "queued", "creating",                   \* factorizeQueue, addModuleQueue
    "created",                              \* due: the module exists
    "building", "built",                    \* in buildQueue; due: it is built
    "processing",                           \* in processDependenciesQueue
    "returned", "failed",                   \* due: callback(null), callback(err)
    "executing",                            \* importModule: executeModule()
    "ok", "err"}                            \* answered

Due  == {"created", "built", "returned", "failed"}
Over == {"ok", "err"}

\* A request comes from an entry, a dependency or a loader of its origin.
Entry(m)  == <<"entry", m, m>>
Request   == {"entry", "dep", "load", "import"} \X Module \X Module
Origin(r) == r[2]
Target(r) == r[3]

Made(p) ==
    {Entry(m) : m \in p.entries}
        \cup {<<"dep", d[1], d[2]>> : d \in p.deps}
        \cup {<<"load", d[1], d[2]>> : d \in p.loads}
        \cup {<<"import", d[1], d[2]>> : d \in p.imports}

Requests     == Made(project)
DepsOf(m)    == {r \in Requests : r[1] = "dep" /\ Origin(r) = m}
LoadsOf(m)   == {r \in Requests : r[1] \in {"load", "import"} /\ Origin(r) = m}
Recursive(r) == r[1] # "load"

Init ==
    /\ project \in Project
    /\ at = [r \in Requests |-> IF r[1] = "entry" THEN "queued" ELSE "idle"]
    /\ build = [m \in Module |-> "none"]
    /\ process = [m \in Module |-> "none"]
    /\ left = [m \in Module |-> 0]
    /\ extra = 0
    /\ creating = {}
    /\ stopped = FALSE

(***************************************************************************)
(* Helpers.                                                                *)
(***************************************************************************)

\* The jobs that hold a slot.
Active ==
    Cardinality({r \in Requests : at[r] = "creating"})
        + Cardinality({m \in Module : build[m] = "processing"})
        + Cardinality({m \in Module : process[m] = "processing"})

SlotFree == Active < project.parallelism + extra

\* No callback is due: the event loop may take the next event.
Idle == \A r \in Requests : at[r] \notin Due

\* The members of S and what the pairs of G lead to from there.
Reachable(G, S) ==
    {m \in Module : \A C \in SUBSET Module :
        S \subseteq C /\ (\A e \in G : e[1] \in C => e[2] \in C) => m \in C}

\* m is blocked by a module that is blocked ... by m.
InCycle(G, m) == m \in Reachable(G, {e[2] : e \in {e \in G : e[1] = m}})

\* Everybody who waits for a job of module m is called back.
Wake(status, m, outcome) ==
    at' = [r \in Requests |-> IF at[r] = status /\ Target(r) = m THEN outcome ELSE at[r]]

Move(r, status) == at' = [at EXCEPT ![r] = status]

(***************************************************************************)
(* handleModuleCreation.                                                   *)
(***************************************************************************)

StartCreate(r) ==
    /\ Idle /\ SlotFree
    /\ at[r] = "queued"
    /\ Move(r, "creating")
    /\ UNCHANGED <<project, build, process, left, extra, creating, stopped>>

FinishCreate(r) ==
    /\ Idle
    /\ at[r] = "creating"
    /\ Move(r, IF Target(r) \in project.missing THEN "failed" ELSE "created")
    /\ UNCHANGED <<project, build, process, left, extra, creating, stopped>>

\* Mutant: a module that is built already is taken for complete.
AddBuildMutant(r) ==
    LET m == Target(r) IN
    \/ stopped /\ Move(r, "failed") /\ UNCHANGED build
    \/ /\ ~stopped /\ build[m] = "none"
       /\ Move(r, "building")
       /\ build' = [build EXCEPT ![m] = "queued"]
    \/ /\ ~stopped /\ build[m] # "none"
       /\ Move(r, IF build[m] \in {"done", "failed"} THEN "returned" ELSE "building")
       /\ UNCHANGED build

\* buildQueue.add(): the job of the target is new, running or over.
AddBuild(r) ==
    LET m == Target(r) IN
    \/ stopped /\ Move(r, "failed") /\ UNCHANGED build
    \/ /\ ~stopped /\ build[m] = "none"
       /\ Move(r, "building")
       /\ build' = [build EXCEPT ![m] = "queued"]
    \/ /\ ~stopped /\ build[m] # "none"
       /\ Move(r, IF build[m] \in {"done", "failed"} THEN "built" ELSE "building")
       /\ UNCHANGED build

\* _handleModuleBuildAndDependencies(), up to the build.
HandleBuild(r) ==
    LET edge == <<Origin(r), Target(r)>>
        blocked == creating \cup {edge}
    IN  /\ at[r] = "created"
        /\ \/ /\ Recursive(r)
              /\ AddBuild(r)
              /\ UNCHANGED creating
           \/ /\ ~Recursive(r)
              /\ InCycle(blocked, Target(r))
              /\ creating' = blocked
              /\ Move(r, "failed")
              /\ UNCHANGED build
           \/ /\ ~Recursive(r)
              /\ ~InCycle(blocked, Target(r))
              /\ creating' = IF stopped THEN creating ELSE blocked
              /\ AddBuild(r)
        /\ UNCHANGED <<project, process, left, extra, stopped>>

\* Mutant: circular dependencies wait for each other.
CircularMutant(m) == FALSE

\* processDependenciesQueue.isProcessing(): this avoids deadlocks for circular
\* dependencies.
Circular(m) == process[m] = "processing"

\* processDependenciesQueue.add(), unless the job of the target is running.
AddProcess(r) ==
    LET m == Target(r) IN
    \/ Circular(m) /\ Move(r, "returned") /\ UNCHANGED process
    \/ /\ ~Circular(m) /\ stopped
       /\ Move(r, "failed")
       /\ UNCHANGED process
    \/ /\ process[m] = "none" /\ ~stopped
       /\ Move(r, "processing")
       /\ process' = [process EXCEPT ![m] = "queued"]
    \/ /\ process[m] \in {"queued", "processing"} /\ ~Circular(m) /\ ~stopped
       /\ Move(r, "processing")
       /\ UNCHANGED process
    \/ /\ process[m] \in {"done", "failed"} /\ ~stopped
       /\ Move(r, IF process[m] = "done" THEN "returned" ELSE "failed")
       /\ UNCHANGED process

\* _handleModuleBuildAndDependencies(), the callback of the build.
HandleDependencies(r) ==
    /\ at[r] = "built"
    /\ creating' = IF Recursive(r) THEN creating ELSE creating \ {<<Origin(r), Target(r)>>}
    /\ \/ build[Target(r)] = "failed" /\ Move(r, "failed") /\ UNCHANGED process
       \/ build[Target(r)] # "failed" /\ ~Recursive(r) /\ Move(r, "returned") /\ UNCHANGED process
       \/ build[Target(r)] # "failed" /\ Recursive(r) /\ AddProcess(r)
    /\ UNCHANGED <<project, build, left, extra, stopped>>

(***************************************************************************)
(* The jobs of the queues: _buildModule and _processModuleDependencies.    *)
(***************************************************************************)

StartBuild(m) ==
    /\ Idle /\ SlotFree
    /\ build[m] = "queued"
    /\ build' = [build EXCEPT ![m] = "processing"]
    /\ UNCHANGED <<project, at, process, left, extra, creating, stopped>>

\* Mutant: a module that waits for its dependencies makes no room for them.
MakeRoomMutant == extra' = extra

\* increaseParallelism()
MakeRoom == extra' = extra + 1

\* A loader calls loadModule() or importModule().
Load(r) ==
    /\ Idle
    /\ r \in LoadsOf(Origin(r))
    /\ at[r] = "idle" /\ build[Origin(r)] = "processing"
    /\ MakeRoom
    /\ Move(r, IF stopped THEN "failed" ELSE "queued")
    /\ UNCHANGED <<project, build, process, left, creating, stopped>>

\* The loaders have heard of everything they asked for; what failed to load is
\* an error on the module, not an error of its build.
FinishBuild(m) ==
    /\ Idle
    /\ build[m] = "processing"
    /\ \A r \in LoadsOf(m) : at[r] \in Over
    /\ build' = [build EXCEPT ![m] = IF m \in project.broken THEN "failed" ELSE "done"]
    /\ Wake("building", m, "built")
    /\ UNCHANGED <<project, process, left, extra, creating, stopped>>

\* A job without dependencies ends at once; the others make room for one more
\* job and request all their dependencies.
StartProcess(m) ==
    /\ Idle /\ SlotFree
    /\ process[m] = "queued"
    /\ \/ /\ DepsOf(m) = {}
          /\ process' = [process EXCEPT ![m] = "done"]
          /\ Wake("processing", m, "returned")
          /\ UNCHANGED <<left, extra>>
       \/ /\ DepsOf(m) # {}
          /\ process' = [process EXCEPT ![m] = "processing"]
          /\ left' = [left EXCEPT ![m] = Cardinality(DepsOf(m))]
          /\ MakeRoom
          /\ at' = [r \in Requests |-> IF r \in DepsOf(m) THEN "queued" ELSE at[r]]
    /\ UNCHANGED <<project, build, creating, stopped>>

(***************************************************************************)
(* The callbacks of handleModuleCreation().                                *)
(***************************************************************************)

Outcome(r) == IF at[r] = "failed" THEN "err" ELSE "ok"

\* With bail an error ends what asked for the request.
Bails(r) == at[r] = "failed" /\ project.bail

\* addModuleTree() has its module, or an error it can live with ...
ReturnEntry(r) ==
    /\ r[1] = "entry"
    /\ ~Bails(r)
    /\ Move(r, Outcome(r))
    /\ UNCHANGED <<project, build, process, left, extra, creating, stopped>>

\* ... or stops the queues: what waits in them is answered with an error.
Stop(r) ==
    LET refused == {q \in Requests :
            \/ at[q] = "queued"
            \/ at[q] = "building" /\ build[Target(q)] = "queued"
            \/ at[q] = "processing" /\ process[Target(q)] = "queued"}
    IN  /\ r[1] = "entry"
        /\ Bails(r)
        /\ stopped' = TRUE
        /\ at' = [q \in Requests |->
                    IF q = r THEN "err" ELSE IF q \in refused THEN "failed" ELSE at[q]]
        /\ build' = [m \in Module |-> IF build[m] = "queued" THEN "none" ELSE build[m]]
        /\ process' = [m \in Module |-> IF process[m] = "queued" THEN "none" ELSE process[m]]
        /\ creating' = creating \ {<<Origin(q), Target(q)>> : q \in {q \in refused : ~Recursive(q)}}
        /\ UNCHANGED <<project, left, extra>>

\* _processModuleDependencies(): the job of module m ends.
EndProcess(r, m, status, outcome) ==
    /\ process' = [process EXCEPT ![m] = status]
    /\ at' = [q \in Requests |->
                IF q = r THEN Outcome(r)
                ELSE IF at[q] = "processing" /\ Target(q) = m THEN outcome ELSE at[q]]

\* inProgressTransitive when r has returned.
Left(r) ==
    LET n == left[Origin(r)] IN
    IF ~Bails(r) THEN n - 1 ELSE IF n > 0 THEN -1 ELSE n

\* The last dependency that returns ends it, with bail the first that fails.
ReturnDep(r) ==
    LET m == Origin(r) IN
    /\ r[1] = "dep"
    /\ left' = [left EXCEPT ![m] = Left(r)]
    /\ \/ /\ IF Bails(r) THEN left[m] <= 0 ELSE left[m] # 1
          /\ Move(r, Outcome(r))
          /\ UNCHANGED <<process, extra>>
       \/ /\ ~Bails(r) /\ left[m] = 1
          /\ EndProcess(r, m, "done", "returned")
          /\ extra' = extra - 1
       \/ /\ Bails(r) /\ left[m] > 0
          /\ EndProcess(r, m, "failed", "failed")
          /\ UNCHANGED extra
    /\ UNCHANGED <<project, build, creating, stopped>>

\* loadModule() and importModule(): the loader goes on, or executes the module.
ReturnLoad(r) ==
    /\ r[1] \in {"load", "import"}
    /\ extra' = extra - 1
    /\ Move(r, IF at[r] = "returned" /\ r[1] = "import" THEN "executing" ELSE Outcome(r))
    /\ UNCHANGED <<project, build, process, left, creating, stopped>>

Return(r) ==
    /\ at[r] \in {"returned", "failed"}
    /\ ReturnEntry(r) \/ Stop(r) \/ ReturnDep(r) \/ ReturnLoad(r)

\* executeModule() waits for the build and the dependencies of every module
\* it can see from the imported one.
Execute(r) ==
    LET seen == Reachable({d \in project.deps : process[d[1]] = "done" /\ d[2] \notin project.missing},
                          {Target(r)})
        ready(m) == build[m] = "done" /\ process[m] = "done"
        fails(m) == build[m] \in {"none", "failed"} \/ (build[m] = "done" /\ process[m] \in {"none", "failed"})
    IN  /\ Idle
        /\ at[r] = "executing"
        /\ \/ (\A m \in seen : ready(m)) /\ Move(r, "ok")
           \/ (\E m \in seen : fails(m)) /\ Move(r, "err")
        /\ UNCHANGED <<project, build, process, left, extra, creating, stopped>>

(***************************************************************************)
(* The specification.                                                      *)
(***************************************************************************)

Callback(r) == HandleBuild(r) \/ HandleDependencies(r) \/ Return(r)

Event ==
    \/ \E r \in Requests : StartCreate(r) \/ FinishCreate(r) \/ Load(r) \/ Execute(r)
    \/ \E m \in Module : StartBuild(m) \/ FinishBuild(m) \/ StartProcess(m)

Answered == \A r \in Requests : r[1] = "entry" => at[r] \in Over

Next == (\E r \in Requests : Callback(r)) \/ Event

Spec == Init /\ [][Next]_vars

\* Due callbacks run, jobs are started while there are slots, and the file
\* system, the resolver and the loaders answer.
FairSpec == Spec /\ WF_vars(Next)

(***************************************************************************)
(* Properties.                                                             *)
(***************************************************************************)

TypeOK ==
    /\ IsProject(project)
    /\ at \in [Requests -> RequestStatus]
    /\ build \in [Module -> JobStatus]
    /\ process \in [Module -> JobStatus]
    /\ left \in [Module -> Int]
    /\ extra \in Nat
    /\ creating \subseteq Module \X Module
    /\ stopped \in BOOLEAN

\* Requests of loaders that hold back the build they come from.
Loading == {r \in Requests : r[1] \in {"load", "import"} /\ at[r] \notin {"idle", "executing"} \cup Over}

\* Whoever waits for requests of his own while he holds a slot has made room
\* for one more job, and takes the room back: exactly, unless bail has ended
\* the job of a module early (Compilation.js:1534 leaves it then).
SlotsBalanced ==
    LET waiting == {m \in Module : process[m] = "processing"}
        room == Cardinality(waiting) + Cardinality(Loading)
    IN  TypeOK /\ IF project.bail THEN extra >= room ELSE extra = room

\* The job of a module's dependencies ends once: while it runs there are
\* requests left to end it, and when it is over, with or without an error, no
\* request that returns late finds the counter in a place where it ends it again.
ProcessEndsOnce == \A m \in Module : (process[m] = "processing") = (left[m] > 0)

\* Each wait takes back the room it has made, and ends the job it belongs to once.
JobsBalanced == SlotsBalanced /\ ProcessEndsOnce

\* When every entry is answered, everything they lead to is built and its
\* dependencies are processed, although circular dependencies are answered
\* while they are under way; no job is left, and every slot is given back.
MakeIsComplete ==
    LET resolved == {d \in project.deps : d[2] \notin project.missing /\ d[1] \notin project.broken}
        needed == Reachable(resolved, project.entries \ project.missing)
    IN  Answered /\ Idle /\ ~project.bail =>
            /\ \A m \in needed : IF m \in project.broken THEN build[m] = "failed"
                                 ELSE build[m] = "done" /\ process[m] = "done"
            /\ Active = 0 /\ extra = 0
            /\ \A m \in Module : build[m] # "queued" /\ process[m] # "queued"

\* Every entry is answered in the end, whatever the cycles of dependencies and
\* of loaders, the errors and the number of slots.
EveryEntryAnswered == <>Answered

===============================================================================
