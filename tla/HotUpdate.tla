------------------------------- MODULE HotUpdate -------------------------------
(***************************************************************************)
(* The runtime of Hot Module Replacement in a page:                        *)
(* webpack/lib/hmr/HotModuleReplacement.runtime.js (the status, check(),   *)
(* apply(), invalidate(), chunks that load meanwhile) and                  *)
(* JavascriptHotModuleReplacement.runtime.js (which modules an update      *)
(* makes outdated, and how they are replaced in the module cache).         *)
(*                                                                         *)
(* Every setStatus() waits for the status handlers of the page, which may  *)
(* be asynchronous; what follows in a `.then` is an action of its own.     *)
(* The page applies an update as webpack/hot does: after its check() is    *)
(* over.  What a module requires does not change with its code.            *)
(***************************************************************************)
EXTENDS Integers, FiniteSets

CONSTANTS
    Module, Main,   \* the modules; the entry, executed without a require
    App,            \* the programs, as records (see IsApp)
    MaxChecks,      \* bound on the calls of check()
    MaxLoads,       \* bound on the chunks loaded meanwhile
    MaxInvalidated  \* bound on the calls of invalidate()

\* requires, accepts: pairs <<parent, child>>; self: the modules that accept
\* themselves.
IsApp(p) ==
    /\ p.requires \subseteq Module \X Module
    /\ p.accepts \subseteq p.requires
    /\ p.self \subseteq Module

ASSUME HotUpdateAssumption ==
    /\ IsFiniteSet(Module) /\ Main \in Module
    /\ \A p \in App : IsApp(p)
    /\ {MaxChecks, MaxLoads, MaxInvalidated} \subseteq Nat

VARIABLES
    app,        \* the program
    status,     \* currentStatus
    check,      \* how far the promise of check() is
    autoApply,  \* applyOnUpdate
    news,       \* the modules of the update that is being downloaded
    blocking,   \* blockingPromises
    unblocked,  \* `.then` callbacks of unblock() to come
    handlers,   \* length of currentUpdateApplyHandlers, None: undefined
    updated,    \* currentUpdate: modules with new code ...
    reloaded,   \* ... and modules with the code they have (invalidated)
    pending,    \* currentUpdate is defined
    queued,     \* queuedInvalidatedModules
    settling,   \* internalApply() waits for the status handlers
    cache,      \* the modules in the module cache
    current,    \* pairs <<p, c>>: p has required the instance of c in the cache
    old,        \* modules in the cache that run replaced code
    invalid,    \* modules in the cache with _selfInvalidated
    missed,     \* history: modules that were invalidated in the window of check()
    checks, loads, invalidations    \* calls so far

page   == <<cache, current, old, invalid, missed>>
update == <<handlers, updated, reloaded, pending, queued>>
counts == <<checks, loads, invalidations>>
vars   == <<app, status, check, autoApply, news, blocking, unblocked, update, settling,
            page, counts>>

None == -1

Status == {"idle", "check", "prepare", "ready", "dispose", "apply", "abort", "fail"}
CheckStage == {"none", "manifest", "preparing", "loading", "loaded", "waiting",
               "applying"}

Pairs(from) == {e \in app.requires : e[1] \in from}

\* The members of S and what the pairs of G lead to from there.
Reachable(G, S) ==
    {m \in Module : \A C \in SUBSET Module :
        S \subseteq C /\ (\A e \in G : e[1] \in C => e[2] \in C) => m \in C}

Init ==
    /\ app \in App
    /\ status = "idle"
    /\ check = "none"
    /\ autoApply = FALSE
    /\ news = {}
    /\ blocking = 0
    /\ unblocked = 0
    /\ handlers = None
    /\ updated = {} /\ reloaded = {} /\ pending = FALSE
    /\ queued = {}
    /\ settling = FALSE
    /\ cache = Reachable(app.requires, {Main})
    /\ current = Pairs(cache)
    /\ old = {} /\ invalid = {} /\ missed = {}
    /\ checks = 0 /\ loads = 0 /\ invalidations = 0

(***************************************************************************)
(* Which modules an update replaces (applyHandler).                        *)
(***************************************************************************)

\* Mutant: _selfInvalidated is not looked at.
StopsAtMutant(m) == m \notin cache \/ m \in app.self

\* A module that accepts itself is replaced alone, unless it was invalidated.
StopsAt(m) == m \notin cache \/ (m \in app.self /\ m \notin invalid)

\* getAffectedModuleEffects(): outdated are the modules of the update, and every
\* parent that does not accept an outdated module.
Outdated(U) ==
    Reachable({<<e[2], e[1]>> : e \in {e \in app.requires \ app.accepts :
                                            ~StopsAt(e[2]) /\ e[1] \in cache}}, U)

\* Nobody accepts the update on the way up to the entry.
Unaccepted(O) == Main \in O /\ ~StopsAt(Main)

\* outdatedDependencies: the modules whose parents are told.
Told(O) ==
    {e[2] : e \in {e \in app.accepts : e[2] \in O /\ ~StopsAt(e[2]) /\ e[1] \in cache \ O}}

\* outdatedSelfAcceptedModules: the modules that are required again.
Again(O) == {m \in O \cap cache : m \in app.self \cup {Main} /\ m \notin invalid}

\* dispose() and apply(): what is outdated leaves the cache, and what is
\* required again is executed with everything it requires that is not cached.
Replace(O, code) ==
    LET kept == cache \ O
        fresh == Reachable({e \in app.requires : e[2] \notin kept}, Told(O) \cup Again(O))
        asks == {e \in app.accepts : e[1] \in kept /\ e[2] \in Told(O)}
    IN  /\ cache' = kept \cup fresh
        /\ current' = {e \in current : e[1] \in kept /\ e[2] \in kept} \cup Pairs(fresh) \cup asks
        /\ old' = (old \cup code) \cap kept
        /\ invalid' = invalid \cap kept
        /\ missed' = missed \cap kept

(***************************************************************************)
(* invalidate().                                                           *)
(***************************************************************************)

\* The handler of the JavaScript modules for a set of modules.
Invalidated(M, h) ==
    /\ handlers' = IF pending THEN h ELSE h + 1
    /\ pending' = TRUE
    /\ reloaded' = reloaded \cup (M \ updated)
    /\ UNCHANGED updated

InvalidateIdle(m) ==
    /\ status = "idle"
    /\ status' = "ready"
    /\ Invalidated({m}, 0)
    /\ UNCHANGED queued

\* Without handlers the call that defines currentUpdate throws; one that finds it
\* defined is part of an update that nobody will apply.
InvalidateReady(m) ==
    /\ status = "ready"
    /\ \/ /\ handlers # None \/ pending
          /\ Invalidated({m}, handlers)
       \/ /\ handlers = None /\ ~pending
          /\ pending' = TRUE
          /\ UNCHANGED <<handlers, updated, reloaded>>
    /\ UNCHANGED <<status, queued>>

\* Mutant: the status "check" is forgotten.
InvalidateBusyMutant(m) ==
    /\ status \in {"prepare", "check", "dispose", "apply"}
    /\ queued' = IF status = "check" THEN queued ELSE queued \cup {m}
    /\ UNCHANGED <<status, handlers, updated, reloaded, pending>>

\* Queued for the end of what is going on.
InvalidateBusy(m) ==
    /\ status \in {"prepare", "check", "dispose", "apply"}
    /\ queued' = queued \cup {m}
    /\ UNCHANGED <<status, handlers, updated, reloaded, pending>>

\* Ignored in error states.
InvalidateFailed ==
    /\ status \in {"abort", "fail"}
    /\ UNCHANGED <<status, update>>

\* Between the status handlers of "prepare" and the download, a chunk that has
\* loaded makes the status "ready", but there are no handlers.
Window == status = "ready" /\ check = "preparing"

Invalidate(m) ==
    /\ m \in cache
    /\ invalidations < MaxInvalidated
    /\ invalidations' = invalidations + 1
    /\ invalid' = invalid \cup {m}
    /\ missed' = IF Window THEN missed \cup ({m} \ queued) ELSE missed \ {m}
    /\ InvalidateIdle(m) \/ InvalidateReady(m) \/ InvalidateBusy(m) \/ InvalidateFailed
    /\ UNCHANGED <<app, check, autoApply, news, blocking, unblocked, settling, cache,
                   current, old, checks, loads>>

(***************************************************************************)
(* internalApply().                                                        *)
(***************************************************************************)

\* applyInvalidatedModules(), then currentUpdateApplyHandlers is consumed; what
\* follows is the update with the modules of U that have new code.
Collect == updated \cup reloaded \cup queued

\* The synchronous part: abort, or dispose of the modules and apply.
InternalApply ==
    LET O == Outdated(Collect) IN
    /\ handlers' = None
    /\ queued' = {}
    /\ \/ /\ Unaccepted(O)
          /\ status' = "abort"
          /\ check' = "none"
          /\ settling' = FALSE
          /\ UNCHANGED <<updated, reloaded, pending, page>>
       \/ /\ ~Unaccepted(O)
          /\ status' = "apply"
          /\ settling' = TRUE
          /\ updated' = {} /\ reloaded' = {} /\ pending' = FALSE
          /\ Replace(O, updated)
          /\ check' = IF check = "none" THEN "none" ELSE "applying"

\* apply(), once the check is over.
Apply ==
    /\ status = "ready"
    /\ check = "none"
    /\ InternalApply
    /\ UNCHANGED <<app, autoApply, news, blocking, unblocked, counts>>

\* Accept handlers or modules have thrown.
Fail ==
    /\ status' = "fail"
    /\ settling' = FALSE
    /\ check' = "none"
    /\ UNCHANGED <<update, page>>

Finish ==
    /\ status' = "idle"
    /\ settling' = FALSE
    /\ check' = "none"
    /\ UNCHANGED <<update, page>>

\* The status handlers are done: modules invalidated meanwhile are next.
Settle ==
    /\ settling
    /\ Fail \/ (queued # {} /\ InternalApply) \/ (queued = {} /\ Finish)
    /\ UNCHANGED <<app, autoApply, news, blocking, unblocked, counts>>

(***************************************************************************)
(* check().                                                                *)
(***************************************************************************)

Check(apply) ==
    /\ status = "idle"
    /\ checks < MaxChecks
    /\ checks' = checks + 1
    /\ status' = "check"
    /\ check' = "manifest"
    /\ autoApply' = apply
    /\ UNCHANGED <<app, news, blocking, unblocked, update, settling, page, loads, invalidations>>

\* There is no update: back to idle, or modules that were invalidated meanwhile.
NoUpdate ==
    /\ check = "manifest"
    /\ check' = "none"
    /\ queued' = {}
    /\ \/ /\ queued # {}
          /\ status' = "ready"
          /\ Invalidated(queued, IF handlers = None THEN 0 ELSE handlers)
       \/ /\ queued = {}
          /\ status' = "idle"
          /\ UNCHANGED <<handlers, updated, reloaded, pending>>
    /\ UNCHANGED <<app, autoApply, news, blocking, unblocked, settling, page, counts>>

Manifest ==
    /\ check = "manifest"
    /\ status' = "prepare"
    /\ check' = "preparing"
    /\ news' \in SUBSET Module \ {{}}
    /\ UNCHANGED <<app, autoApply, blocking, unblocked, update, settling, page, counts>>

\* The status handlers of "prepare" are done: the download handlers start.  An
\* update that invalidate() has begun meanwhile is overwritten.
Download ==
    /\ check = "preparing"
    /\ check' = "loading"
    /\ handlers' = 1
    /\ updated' = {} /\ reloaded' = {} /\ pending' = TRUE
    /\ UNCHANGED <<app, status, autoApply, news, blocking, unblocked, queued, settling,
                   page, counts>>

\* What waits for the download and for the chunks that load meanwhile.
Proceed ==
    \/ autoApply /\ InternalApply
    \/ /\ ~autoApply
       /\ status' = "ready"
       /\ check' = "none"
       /\ UNCHANGED <<handlers, updated, reloaded, pending, queued, settling, page>>

\* The update chunks are there.
Arrive ==
    /\ check = "loading"
    /\ check' = "loaded"
    /\ updated' = updated \cup news
    /\ reloaded' = reloaded \ news
    /\ news' = {}
    /\ UNCHANGED <<app, status, autoApply, blocking, unblocked, handlers, pending, queued,
                   settling, page, counts>>

\* Mutant: it waits although nothing is loading any more.
WaitMutant ==
    /\ check = "loaded"
    /\ check' = "waiting"
    /\ UNCHANGED <<status, update, settling, page>>
    /\ UNCHANGED <<app, autoApply, news, blocking, unblocked, counts>>

\* waitForBlockingPromises()
Wait ==
    /\ check = "loaded"
    /\ \/ blocking = 0 /\ Proceed
       \/ /\ blocking > 0
          /\ check' = "waiting"
          /\ UNCHANGED <<status, update, settling, page>>
    /\ UNCHANGED <<app, autoApply, news, blocking, unblocked, counts>>

\* The manifest or an update chunk cannot be loaded; the status stays.
CheckFails ==
    /\ check \in {"manifest", "loading"}
    /\ check' = "none"
    /\ news' = {}
    /\ UNCHANGED <<app, status, autoApply, blocking, unblocked, update, settling, page, counts>>

(***************************************************************************)
(* Chunks that the page loads (trackBlockingPromise and unblock).          *)
(***************************************************************************)

LoadChunk ==
    /\ status \in {"ready", "prepare"}
    /\ loads < MaxLoads
    /\ loads' = loads + 1
    /\ blocking' = blocking + 1
    /\ status' = "prepare"
    /\ UNCHANGED <<app, check, autoApply, news, unblocked, update, settling, page, checks,
                   invalidations>>

Unblock ==
    /\ blocking > 0
    /\ blocking' = blocking - 1
    /\ IF blocking = 1 THEN status' = "ready" /\ unblocked' = unblocked + 1
       ELSE UNCHANGED <<status, unblocked>>
    /\ UNCHANGED <<app, check, autoApply, news, update, settling, page, counts>>

\* Mutant: it is not looked whether another chunk has begun to load.
StillUnblockedMutant == TRUE

StillUnblocked == blocking = 0

\* The status handlers of "ready" are done.
Unblocked ==
    /\ unblocked > 0
    /\ unblocked' = unblocked - 1
    /\ \/ check = "waiting" /\ StillUnblocked /\ Proceed
       \/ /\ ~(check = "waiting" /\ StillUnblocked)
          /\ UNCHANGED <<status, check, update, settling, page>>
    /\ UNCHANGED <<app, autoApply, news, blocking, counts>>

(***************************************************************************)
(* The specification.                                                      *)
(***************************************************************************)

CheckStep == NoUpdate \/ Manifest \/ Download \/ Arrive \/ Wait \/ CheckFails

Next ==
    \/ \E apply \in BOOLEAN : Check(apply)
    \/ \E m \in Module : Invalidate(m)
    \/ Apply
    \/ LoadChunk
    \/ CheckStep \/ Settle \/ Unblock \/ Unblocked

Spec == Init /\ [][Next]_vars

\* Requests are answered, chunks arrive and status handlers come to an end.
Fairness == WF_vars(CheckStep) /\ WF_vars(Settle) /\ WF_vars(Unblock) /\ WF_vars(Unblocked)

FairSpec == Spec /\ Fairness

(***************************************************************************)
(* Properties.                                                             *)
(***************************************************************************)

TypeOK ==
    /\ app \in App
    /\ status \in Status
    /\ check \in CheckStage
    /\ {autoApply, pending, settling} \subseteq BOOLEAN
    /\ {blocking, unblocked} \subseteq Nat
    /\ handlers \in {None, 0, 1}
    /\ \A M \in {news, updated, reloaded, queued, cache, old, invalid, missed} : M \subseteq Module
    /\ current \subseteq app.requires

\* An update is never applied while a chunk is loading, and never without the
\* handlers that know it: however checks, invalidations and chunks overlap,
\* apply() always finds what it needs.
NoApplyWhileLoading ==
    /\ TypeOK
    /\ blocking > 0 => status = "prepare"
    /\ status = "ready" /\ check = "none" => handlers # None
    /\ status = "idle" => check = "none" /\ ~settling

\* When the page is idle again, every module that is required is in the module
\* cache, with the newest code it has been given, and whoever required it has
\* required this instance of it, or has lost it to a module that accepts itself.
NoStaleModule ==
    status = "idle" =>
        /\ old = {}
        /\ \A e \in Pairs(cache) : e[2] \in cache /\ (e \in current \/ e[2] \in app.self)

\* A module that has called invalidate() is replaced before the page is idle
\* again, whether the call came before, during or after a check, a download or the
\* application of another update, and whatever else is invalidated.  The one
\* exception is the window of check() (README, "Disagreements").
InvalidatedIsReplaced == status = "idle" => queued = {} /\ invalid \subseteq missed

\* What one would expect of the window, too.  It does not hold: the first call
\* throws, what later ones write is overwritten by the download.
InvalidatedInWindowIsReplaced == status = "idle" => invalid = {}

\* The promise of check() settles.
CheckSettles == check # "none" ~> check = "none"
================================================================================
