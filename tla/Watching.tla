------------------------------ MODULE Watching ------------------------------
(***************************************************************************)
(* webpack/lib/Watching.js with the parts of Compiler (watch, close, idle) *)
(* and of node/NodeWatchFileSystem.js it works with: the life of one watch *)
(* mode session.                                                           *)
(*                                                                         *)
(* A build is a chain of asynchronous steps, `phase`.  When it ends, _done *)
(* clears `running` first and then runs the done hook, the handler and the *)
(* callbacks of invalidate(): a "done path", which continues on its own    *)
(* while user code may already have started the next build.  The parts of  *)
(* that path which run in one go are cut where they call user code;        *)
(* `stack` names the call, and only user operations happen during it.      *)
(*                                                                         *)
(* A file change is a member of File; watchpack (external) aggregates the  *)
(* changes that happened since the start time it was given.  changedFiles  *)
(* and removedFiles are one set here.  An additional pass                  *)
(* (needAdditionalPass) keeps the build in its compile phase, and          *)
(* storeBuildDependencies answers at once, as its only tap                 *)
(* (IdleFileCachePlugin.js:92) does.  For the compiler of a MultiCompiler  *)
(* see module MultiCompiler: `_isBlocked` is constantly false here.        *)
(***************************************************************************)
EXTENDS Integers, FiniteSets

CONSTANTS
    File,           \* the watched files
    Caller,         \* callbacks given to invalidate()
    Closer,         \* callbacks given to close()
    MaxChanges,     \* bound on the number of file changes
    MaxSuspends,    \* bound on the number of calls of suspend()
    MaxFailures     \* bound on the number of builds that fail

ASSUME BoundAssumption ==
    /\ MaxChanges \in Nat
    /\ MaxSuspends \in Nat
    /\ MaxFailures \in Nat

Phase == {"none", "endIdle", "readRecords", "watchRun", "compile", "emit", "records"}
Stack == {"none", "handler", "callbacks", "failed", "failedHook"}
NoPath == [build |-> 0, cbs |-> {}]

VARIABLES
    tick,           \* the nextTick of the constructor is to come
    initial,        \* `_initial`
    running,        \* `running`
    invalid,        \* `invalid`
    suspended,      \* `suspended`
    closed,         \* `closed`
    swapped,        \* `_done` has been replaced by finalCallback
    closing,        \* `_closeCallbacks` is defined
    closers,        \* its members
    callbacks,      \* `callbacks`
    collected,      \* `_collectedChangedFiles` and `_collectedRemovedFiles`
    needRecords,    \* `_needRecords`
    watcher,        \* `watcher` is set
    pausedWatcher,  \* `pausedWatcher` is set
    idle,           \* compiler.idle
    phase,          \* what the current build waits for
    builds,         \* number of compile() calls so far
    finishing,      \* done paths whose done hook has not answered
    stack,          \* user code called from a done path, if any
    doing,          \* the done path that called it
    wp,             \* the current Watchpack: "off", "live" or "silent"
    pend,           \* changes it has aggregated
    sinceStart,     \* files changed since lastWatcherStartTime
    unreported,     \* files whose last change no build was told of
    status,         \* [Caller -> "fresh", "waiting", "taken" or "called"]
    seen,           \* [Caller -> builds when invalidate() was called]
    closeStatus,    \* [Closer -> "fresh", "waiting" or "called"]
    budget          \* what is left of the bounds: changes, suspends, failures

flags == <<suspended, closed, swapped, closing, closers>>
files == <<wp, pend, sinceStart, unreported>>
users == <<status, seen, closeStatus>>
build == <<tick, initial, running, invalid, collected, needRecords, watcher, pausedWatcher,
           idle, phase, builds>>
paths == <<callbacks, finishing, stack, doing>>
vars == <<flags, files, users, build, paths, budget>>

Init ==
    /\ tick = TRUE
    /\ initial = TRUE
    /\ running = FALSE
    /\ invalid = FALSE
    /\ suspended = FALSE
    /\ closed = FALSE
    /\ swapped = FALSE
    /\ closing = FALSE
    /\ closers = {}
    /\ callbacks = {}
    /\ collected = {}
    /\ needRecords = TRUE
    /\ watcher = FALSE
    /\ pausedWatcher = FALSE
    /\ idle \in BOOLEAN            \* TRUE after an earlier run of the compiler
    /\ phase = "none"
    /\ builds = 0
    /\ finishing = {}
    /\ stack = "none"
    /\ doing = NoPath
    /\ wp = "off"
    /\ pend = {}
    /\ sinceStart = {}
    /\ unreported = {}
    /\ status = [c \in Caller |-> "fresh"]
    /\ seen = [c \in Caller |-> 0]
    /\ closeStatus = [d \in Closer |-> "fresh"]
    /\ budget = [changes |-> MaxChanges, suspends |-> MaxSuspends, failures |-> MaxFailures]

(***************************************************************************)
(* _go and _invalidate.                                                    *)
(***************************************************************************)

\* Where run(), the inner function of _go, stops first.
NextStep(isIdle, records) ==
    IF isIdle THEN "endIdle" ELSE IF records THEN "readRecords" ELSE "watchRun"

\* run(): `invalid` is reset on the way to the watchRun hook only.
Run(isIdle, records, wasInvalid) ==
    /\ phase' = NextStep(isIdle, records)
    /\ invalid' = (wasInvalid /\ phase' # "watchRun")

\* Mutant: the watcher of the last build is not asked for what it knows.
KnownMutant(changes, paused) == changes

\* Changes _go tells the build of, besides the collected ones: those of the
\* event that triggered it, or what the paused watcher has aggregated.
Known(changes, paused) == IF changes = {} /\ paused THEN pend ELSE changes

\* Mutant: the start time is taken anew even when no watcher has been set up.
NewStartMutant == TRUE

\* _go sets lastWatcherStartTime if there is a watcher, or none was ever set up.
NewStart == watcher \/ initial

\* _go(...), without files when changes = {}; w is the state of the Watchpack.
Go(changes, w) ==
    /\ initial' = FALSE
    /\ running' = TRUE
    /\ pausedWatcher' = (pausedWatcher \/ watcher)
    /\ watcher' = FALSE
    /\ wp' = IF watcher /\ w = "live" THEN "silent" ELSE w
    /\ sinceStart' = IF NewStart THEN {} ELSE sinceStart
    /\ unreported' = IF initial THEN {}
                     ELSE unreported \ (collected \cup Known(changes, pausedWatcher'))
    /\ collected' = {}
    /\ Run(idle, needRecords, invalid)
    /\ UNCHANGED <<pend, needRecords, idle, builds>>

\* _mergeWithCollected
Collect(changes) == collected' = collected \cup changes

\* _invalidate(...) where `suspended` has the value isSuspended.
InvalidateWith(isSuspended, changes, w) ==
    IF ~isSuspended /\ ~running
    THEN Go(changes, w)
    ELSE /\ Collect(changes)
         /\ invalid' = (invalid \/ ~isSuspended)
         /\ wp' = w
         /\ UNCHANGED <<pend, sinceStart, unreported, initial, running, needRecords,
                        watcher, pausedWatcher, idle, phase, builds>>

(***************************************************************************)
(* Operations of the user.  They are called from anywhere, also from the   *)
(* handler and the callbacks; after close() only close() is called again.  *)
(***************************************************************************)

Invalidate(c) ==
    /\ ~closed
    /\ status[c] = "fresh"
    /\ status' = [status EXCEPT ![c] = "waiting"]
    /\ seen' = [seen EXCEPT ![c] = builds]
    /\ callbacks' = callbacks \cup {c}
    /\ InvalidateWith(suspended, {}, wp)
    /\ UNCHANGED <<tick, flags, closeStatus, finishing, stack, doing, budget>>

Suspend ==
    /\ ~closed
    /\ ~suspended
    /\ budget.suspends > 0
    /\ suspended' = TRUE
    /\ budget' = [budget EXCEPT !.suspends = @ - 1]
    /\ UNCHANGED <<closed, swapped, closing, closers, files, users, build, paths>>

Resume ==
    /\ ~closed
    /\ suspended
    /\ suspended' = FALSE
    /\ InvalidateWith(FALSE, {}, wp)
    /\ UNCHANGED <<tick, closed, swapped, closing, closers, users, paths, budget>>

\* The shutdown at the end of finalCallback; D have just been added.
CallClosers(D) ==
    /\ closeStatus' = [d \in Closer |-> IF d \in closers \cup D THEN "called"
                                        ELSE closeStatus[d]]
    /\ closers' = {}
    /\ closing' = FALSE

\* close() while another close() waits for the build to end.
CloseAgain(d) ==
    /\ closing
    /\ closers' = closers \cup {d}
    /\ closeStatus' = [closeStatus EXCEPT ![d] = "waiting"]
    /\ UNCHANGED <<suspended, closed, swapped, closing, build, files>>

\* Mutant: the paused watcher is not closed.
CloseWatchersMutant ==
    /\ watcher' = FALSE
    /\ pausedWatcher' = FALSE
    /\ wp' = IF watcher THEN "off" ELSE wp

CloseWatchers ==
    /\ watcher' = FALSE
    /\ pausedWatcher' = FALSE
    /\ wp' = IF watcher \/ pausedWatcher THEN "off" ELSE wp

CloseFirst(d) ==
    /\ ~closing
    /\ closed' = TRUE
    /\ CloseWatchers
    /\ IF running
       THEN /\ invalid' = TRUE
            /\ swapped' = TRUE
            /\ closing' = TRUE
            /\ closers' = {d}
            /\ closeStatus' = [closeStatus EXCEPT ![d] = "waiting"]
            /\ UNCHANGED running
       ELSE /\ running' = FALSE
            /\ CallClosers({d})
            /\ UNCHANGED <<invalid, swapped>>
    /\ UNCHANGED <<suspended, tick, initial, collected, needRecords, idle, phase,
                   builds, pend, sinceStart, unreported>>

Close(d) ==
    /\ closeStatus[d] = "fresh"
    /\ CloseAgain(d) \/ CloseFirst(d)
    /\ UNCHANGED <<status, seen, paths, budget>>

(***************************************************************************)
(* Events.                                                                 *)
(***************************************************************************)

\* The event loop is free: no user code of a done path is on the stack and the
\* nextTick of the constructor has run.
Free == stack = "none" /\ ~tick

\* `if (this._initial) this._invalidate()`
FirstTick ==
    /\ tick
    /\ tick' = FALSE
    /\ IF initial
       THEN InvalidateWith(suspended, {}, wp)
       ELSE UNCHANGED <<initial, running, invalid, collected, needRecords, watcher,
                        pausedWatcher, idle, phase, builds, files>>
    /\ UNCHANGED <<flags, users, paths, budget>>

FileChange(f) ==
    /\ Free
    /\ budget.changes > 0
    /\ budget' = [budget EXCEPT !.changes = @ - 1]
    /\ unreported' = unreported \cup {f}
    /\ sinceStart' = sinceStart \cup {f}
    /\ pend' = IF wp = "off" THEN pend ELSE pend \cup {f}
    /\ UNCHANGED <<flags, wp, users, build, paths>>

\* The "aggregated" event: at most once per Watchpack, which is paused first.
Aggregated ==
    /\ Free
    /\ wp = "live"
    /\ pend # {}
    /\ InvalidateWith(suspended, pend, "silent")
    /\ UNCHANGED <<tick, flags, users, paths, budget>>

(***************************************************************************)
(* The build.                                                              *)
(***************************************************************************)

EndIdle ==
    /\ Free
    /\ phase = "endIdle"
    /\ idle' = FALSE
    /\ Run(FALSE, needRecords, invalid)
    /\ UNCHANGED <<tick, initial, running, collected, needRecords, watcher,
                   pausedWatcher, builds, flags, files, users, paths, budget>>

ReadRecords ==
    /\ Free
    /\ phase = "readRecords"
    /\ needRecords' = FALSE
    /\ Run(idle, FALSE, invalid)
    /\ UNCHANGED <<tick, initial, running, collected, watcher, pausedWatcher, idle,
                   builds, flags, files, users, paths, budget>>

\* The watchRun hook has answered: compile().
Compile ==
    /\ Free
    /\ phase = "watchRun"
    /\ phase' = "compile"
    /\ builds' = builds + 1
    /\ UNCHANGED <<tick, initial, running, invalid, collected, needRecords, watcher,
                   pausedWatcher, idle, flags, files, users, paths, budget>>

\* compile() has answered and the assets are to be emitted, or the assets have
\* been emitted: in both places an invalid build goes no further.
Continue ==
    /\ Free
    /\ ~invalid
    /\ \/ phase = "compile" /\ phase' = "emit"
       \/ phase = "emit" /\ phase' = "records"
    /\ UNCHANGED <<tick, initial, running, invalid, collected, needRecords, watcher,
                   pausedWatcher, idle, builds, flags, files, users, paths, budget>>

(***************************************************************************)
(* _done.                                                                  *)
(***************************************************************************)

Rebuild == invalid /\ ~suspended

\* Mutant: the flag is not reset when the build ends.
SettleMutant == UNCHANGED running

\* The first thing _done and finalCallback do.
Settle == running' = FALSE

DonePathOf == [build |-> builds, cbs |-> callbacks]

\* _done = finalCallback
DoneClosed ==
    /\ swapped
    /\ Settle
    /\ phase' = "none"
    /\ CallClosers({})
    /\ UNCHANGED <<suspended, closed, swapped, tick, initial, invalid, collected,
                   needRecords, watcher, pausedWatcher, idle, builds, files, status,
                   seen, paths>>

DoneAgain ==
    /\ ~swapped
    /\ Rebuild
    /\ Go({}, wp)
    /\ UNCHANGED <<tick, flags, users, paths>>

\* The done hook is called; its taps answer later (DoneHook).
DoneOk ==
    /\ ~swapped
    /\ ~Rebuild
    /\ Settle
    /\ phase' = "none"
    /\ finishing' = finishing \cup {DonePathOf}
    /\ status' = [c \in Caller |-> IF c \in callbacks THEN "taken" ELSE status[c]]
    /\ callbacks' = {}
    /\ UNCHANGED <<tick, initial, invalid, collected, needRecords, watcher, pausedWatcher,
                   idle, builds, flags, files, seen, closeStatus, stack, doing>>

\* handleError(err) up to the call of the handler.
DoneFailed ==
    /\ ~swapped
    /\ ~Rebuild
    /\ Settle
    /\ phase' = "none"
    /\ idle' = TRUE
    /\ stack' = "failed"
    /\ UNCHANGED <<tick, initial, invalid, collected, needRecords, watcher, pausedWatcher,
                   builds, flags, files, users, callbacks, finishing, doing>>

\* The build ended: invalid, with shouldEmit() === false, or complete.
Done ==
    /\ Free
    /\ \/ phase = "compile"
       \/ phase = "emit" /\ invalid
       \/ phase = "records"
    /\ DoneClosed \/ DoneAgain \/ DoneOk
    /\ UNCHANGED budget

\* Any step of the build may answer with an error.
Fail ==
    /\ Free
    /\ phase # "none"
    /\ budget.failures > 0
    /\ budget' = [budget EXCEPT !.failures = @ - 1]
    /\ DoneClosed \/ DoneAgain \/ DoneFailed

\* The done hook of path p has answered: the handler is called.
DoneHook(p) ==
    /\ Free
    /\ p \in finishing
    /\ finishing' = finishing \ {p}
    /\ doing' = p
    /\ stack' = "handler"
    /\ UNCHANGED <<flags, files, users, build, callbacks, budget>>

\* A tap failed: handleError(err, cbs) calls the handler with the error.
DoneHookFails(p) ==
    /\ Free
    /\ p \in finishing
    /\ budget.failures > 0
    /\ budget' = [budget EXCEPT !.failures = @ - 1]
    /\ finishing' = finishing \ {p}
    /\ doing' = p
    /\ stack' = "failedHook"
    /\ idle' = TRUE
    /\ UNCHANGED <<flags, files, users, tick, initial, running, invalid, collected,
                   needRecords, watcher, pausedWatcher, phase, builds, callbacks>>

Answer(cbs) ==
    /\ status' = [c \in Caller |-> IF c \in cbs THEN "called" ELSE status[c]]
    /\ UNCHANGED <<seen, closeStatus>>

\* The handler returns: the cache gets idle, the callbacks are called.
HandlerReturns ==
    /\ stack = "handler"
    /\ idle' = TRUE
    /\ stack' = "callbacks"
    /\ doing' = NoPath
    /\ Answer(doing.cbs)
    /\ UNCHANGED <<flags, files, tick, initial, running, invalid, collected, needRecords,
                   watcher, pausedWatcher, phase, builds, callbacks, finishing, budget>>

\* The callbacks return and the nextTick set up before them calls watch().
CallbacksReturn ==
    /\ stack = "callbacks"
    /\ stack' = "none"
    /\ IF closed
       THEN UNCHANGED <<watcher, pausedWatcher, wp, pend>>
       ELSE /\ watcher' = TRUE
            /\ pausedWatcher' = FALSE
            /\ wp' = "live"
            /\ pend' = sinceStart
    /\ UNCHANGED <<flags, sinceStart, unreported, users, tick, initial, running, invalid,
                   collected, needRecords, idle, phase, builds, callbacks, finishing,
                   doing, budget>>

\* Mutant: callbacks of invalidate() are dropped when the build fails.
CallbacksOfErrorMutant == doing.cbs

\* handleError() is given the callbacks by the done path or takes all.
CallbacksOfError == IF stack = "failed" THEN callbacks ELSE doing.cbs

\* The handler returns from an error: the callbacks of handleError.
FailedReturns ==
    /\ stack \in {"failed", "failedHook"}
    /\ stack' = "none"
    /\ doing' = NoPath
    /\ callbacks' = IF stack = "failed" THEN {} ELSE callbacks
    /\ Answer(CallbacksOfError)
    /\ UNCHANGED <<flags, files, build, finishing, budget>>

(***************************************************************************)
(* The specification.                                                      *)
(***************************************************************************)

UserCall ==
    \/ \E c \in Caller : Invalidate(c)
    \/ Suspend \/ Resume
    \/ \E d \in Closer : Close(d)

BuildStep == EndIdle \/ ReadRecords \/ Compile \/ Continue \/ Done

DonePath ==
    \/ \E p \in finishing : DoneHook(p) \/ DoneHookFails(p)
    \/ HandlerReturns \/ CallbacksReturn \/ FailedReturns

Next == UserCall \/ FirstTick \/ (\E f \in File : FileChange(f)) \/ Aggregated
        \/ BuildStep \/ Fail \/ DonePath

Spec == Init /\ [][Next]_vars

\* Hooks and the file system answer, the event loop runs what is due.
Fairness ==
    /\ WF_vars(FirstTick)
    /\ WF_vars(Aggregated)
    /\ WF_vars(BuildStep)
    /\ WF_vars(DonePath)

FairSpec == Spec /\ Fairness

(***************************************************************************)
(* Properties.                                                             *)
(***************************************************************************)

\* The values the variables can take.
TypeOK ==
    /\ {tick, initial, running, invalid, suspended, closed, swapped, closing,
        needRecords, watcher, pausedWatcher, idle} \subseteq BOOLEAN
    /\ phase \in Phase
    /\ stack \in Stack
    /\ builds \in Nat
    /\ wp \in {"off", "live", "silent"}
    /\ closers \subseteq Closer
    /\ callbacks \subseteq Caller
    /\ collected \cup pend \cup sinceStart \cup unreported \subseteq File
    /\ finishing \cup {doing} \subseteq [build : 0 .. builds, cbs : SUBSET Caller]
    /\ status \in [Caller -> {"fresh", "waiting", "taken", "called"}]
    /\ seen \in [Caller -> 0 .. builds]
    /\ closeStatus \in [Closer -> {"fresh", "waiting", "called"}]

\* `running` is set exactly while a build is on its way, although done paths of
\* earlier builds overlap with it: there is never a second build.
RunningExact == TypeOK /\ running = (phase # "none")

\* Every Watchpack that can still report is reachable for close(), and after
\* close() there is none, even when a done path was under way.
NoWatcherLeak ==
    /\ wp # "off" => watcher \/ pausedWatcher
    /\ closed => wp = "off"

\* A handleError() has ended a build: no watcher is set up after it.
Failed == budget.failures < MaxFailures

AtRest == ~running /\ finishing = {} /\ stack = "none"

\* What no build was told of is in the aggregated changes of the watcher or has
\* been collected; and at rest a watcher has only gone silent while suspended,
\* or because a build failed.
NoChangeLost ==
    watcher => /\ unreported \subseteq pend \cup collected
               /\ AtRest /\ wp = "silent" => suspended \/ Failed

\* Nobody has called suspend().
NeverSuspended == budget.suspends = MaxSuspends

\* A callback of invalidate() is told of a successful build only if that build
\* was started after the call ("signals when the build has completed again",
\* Watching.js:386).  With suspend() it may be the build that was running.
CallbackAfterRebuild ==
    NeverSuspended => \A p \in finishing \cup {doing} : \A c \in p.cbs : p.build > seen[c]

\* A build is told of every change, and nobody of a build that cannot know his.
BuildsAreInformed == NoChangeLost /\ CallbackAfterRebuild

\* Between close() having signalled and the end there is no build
\* ("signals when the watcher is closed", Watching.js:444).  It does not hold when
\* close() is called in the tick of watch() (README, "Disagreements").
NoBuildAfterClose ==
    (\E d \in Closer : closeStatus[d] = "called") => phase = "none"

\* A change leads to a build that is told of it, unless the user suspends or
\* closes the watching or a build fails for good.
ChangeGetsBuilt ==
    \A f \in File :
        f \in unreported ~> \/ f \notin unreported
                            \/ suspended \/ closed
                            \/ Failed

\* The callback of invalidate() is called, unless the user suspends or closes.
InvalidateAnswered ==
    \A c \in Caller : status[c] = "waiting" ~> status[c] = "called" \/ suspended \/ closed

\* Every callback of close() is called, whatever is running at that time.
CloseAnswered ==
    \A d \in Closer : closeStatus[d] = "waiting" ~> closeStatus[d] = "called"

\* What was handed to the watching to be called back is called back.
CallbacksAnswered == InvalidateAnswered /\ CloseAnswered
=============================================================================
