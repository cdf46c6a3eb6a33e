---------------------------- MODULE WatchingProofs ----------------------------
(***************************************************************************)
(* Proofs about Watching, for any files, callbacks and bounds: that there  *)
(* is one build at a time, that no watcher is left behind, and that builds *)
(* know of every change and callbacks hear of builds that know theirs.     *)
(***************************************************************************)
EXTENDS Watching, TLAPS

\* What is left of the bounds.
BudgetTypes == budget \in [changes : Nat, suspends : 0 .. MaxSuspends, failures : 0 .. MaxFailures]

\* A build that has been compiled has begun after every callback that waits for
\* it, unless it is invalid; who waits or is told has called invalidate().
CallbackInv ==
    /\ NeverSuspended => ~suspended
    /\ NeverSuspended /\ phase \in {"compile", "emit", "records"} /\ ~invalid
          => \A c \in callbacks : seen[c] < builds
    /\ \A c \in callbacks : status[c] # "fresh"
    /\ \A p \in finishing \cup {doing} : \A c \in p.cbs : status[c] # "fresh"
    /\ CallbackAfterRebuild

\* What no build was told of has changed since the start time that the next
\* watcher gets, or is collected; an error path runs only after a failure.
ChangeInv ==
    /\ watcher \/ pausedWatcher => wp # "off"
    /\ swapped => closed
    /\ unreported \subseteq sinceStart \cup collected
    /\ stack \in {"failed", "failedHook"} => Failed
    /\ NoChangeLost

\* TypeOK and that there is one build at a time, by the groups of `vars`.
FlagTypes ==
    /\ suspended \in BOOLEAN /\ closed \in BOOLEAN /\ swapped \in BOOLEAN
    /\ closing \in BOOLEAN /\ closers \subseteq Closer

FileTypes ==
    /\ wp \in {"off", "live", "silent"}
    /\ pend \subseteq File /\ sinceStart \subseteq File /\ unreported \subseteq File

UserTypes ==
    /\ status \in [Caller -> {"fresh", "waiting", "taken", "called"}]
    /\ seen \in [Caller -> 0 .. builds]
    /\ closeStatus \in [Closer -> {"fresh", "waiting", "called"}]

BuildTypes ==
    /\ tick \in BOOLEAN /\ initial \in BOOLEAN /\ running \in BOOLEAN
    /\ invalid \in BOOLEAN /\ needRecords \in BOOLEAN
    /\ watcher \in BOOLEAN /\ pausedWatcher \in BOOLEAN /\ idle \in BOOLEAN
    /\ collected \subseteq File
    /\ phase \in Phase /\ builds \in Nat
    /\ running = (phase # "none")

PathTypes ==
    /\ callbacks \subseteq Caller /\ stack \in Stack
    /\ doing \in [build : 0 .. builds, cbs : SUBSET Caller]
    /\ finishing \subseteq [build : 0 .. builds, cbs : SUBSET Caller]

Types == FlagTypes /\ FileTypes /\ UserTypes /\ BuildTypes /\ PathTypes

(***************************************************************************)
(* One build at a time.                                                    *)
(***************************************************************************)

LEMMA TypesAreRunningExact == (RunningExact <=> Types) /\ (RunningExact' <=> Types')
<1>1. RunningExact <=> Types
  BY DEF RunningExact, TypeOK, Types, FlagTypes, FileTypes, UserTypes, BuildTypes, PathTypes
<1>2. RunningExact' <=> Types'
  BY DEF RunningExact, TypeOK, Types, FlagTypes, FileTypes, UserTypes, BuildTypes, PathTypes
<1> QED
  BY <1>1, <1>2

\* A group that does not change keeps its types.
LEMMA UnchangedTypes ==
  ASSUME Types
  PROVE  /\ UNCHANGED flags => FlagTypes'
         /\ UNCHANGED files => FileTypes'
         /\ UNCHANGED <<users, builds>> => UserTypes'
         /\ UNCHANGED build => BuildTypes' /\ builds' = builds
         /\ UNCHANGED <<paths, builds>> => PathTypes'
<1>1. UNCHANGED flags => FlagTypes'
  BY DEF Types, FlagTypes, flags
<1>2. UNCHANGED files => FileTypes'
  BY DEF Types, FileTypes, files
<1>3. UNCHANGED <<users, builds>> => UserTypes'
  BY DEF Types, UserTypes, users
<1>4. UNCHANGED build => BuildTypes' /\ builds' = builds
  BY DEF Types, BuildTypes, build
<1>5. UNCHANGED <<paths, builds>> => PathTypes'
  BY DEF Types, PathTypes, paths
<1> QED
  BY <1>1, <1>2, <1>3, <1>4, <1>5

\* _go begins a build.
LEMMA GoTypes ==
  ASSUME FileTypes, BuildTypes, NEW changes \in SUBSET File,
         NEW w \in {"off", "live", "silent"}, Go(changes, w), UNCHANGED tick
  PROVE  FileTypes' /\ BuildTypes' /\ builds' = builds
<1>1. FileTypes'
  BY DEF FileTypes, BuildTypes, Go
<1>2. BuildTypes'
  BY DEF BuildTypes, Go, Run, NextStep, Phase
<1> QED
  BY <1>1, <1>2 DEF Go

\* _invalidate begins a build, or only marks and collects.
LEMMA InvalidateTypes ==
  ASSUME FileTypes, BuildTypes, NEW changes \in SUBSET File,
         NEW w \in {"off", "live", "silent"}, NEW s \in BOOLEAN,
         InvalidateWith(s, changes, w), tick' \in BOOLEAN
  PROVE  FileTypes' /\ BuildTypes' /\ builds' = builds
<1>1. CASE ~s /\ ~running
  <2>1. Go(changes, w)
    BY <1>1 DEF InvalidateWith
  <2>2. FileTypes'
    BY <2>1 DEF FileTypes, BuildTypes, Go
  <2>3. BuildTypes'
    BY <2>1 DEF BuildTypes, Go, Run, NextStep, Phase
  <2> QED
    BY <2>1, <2>2, <2>3 DEF Go
<1>2. CASE s \/ running
  <2>1. /\ UNCHANGED <<pend, sinceStart, unreported, initial, running, needRecords,
                       watcher, pausedWatcher, idle, phase, builds>>
        /\ collected' = collected \cup changes /\ wp' = w /\ invalid' = (invalid \/ ~s)
    BY <1>2 DEF InvalidateWith, Collect, BuildTypes
  <2>2. FileTypes'
    BY <2>1 DEF FileTypes
  <2>3. BuildTypes'
    BY <2>1 DEF BuildTypes
  <2> QED
    BY <2>1, <2>2, <2>3
<1> QED
  BY <1>1, <1>2

\* There is one build at a time, and only its end clears `running`, whatever the
\* done paths of earlier builds do meanwhile.
THEOREM RunningExactCorrect == Spec => []RunningExact
<1>1. Init => Types
  <2> SUFFICES ASSUME Init PROVE Types
    OBVIOUS
  <2>1. FlagTypes /\ FileTypes
    BY DEF Init, FlagTypes, FileTypes
  <2>2. UserTypes
    BY DEF Init, UserTypes
  <2>3. BuildTypes
    BY DEF Init, BuildTypes, Phase
  <2>4. PathTypes
    BY DEF Init, PathTypes, NoPath, Stack
  <2> QED
    BY <2>1, <2>2, <2>3, <2>4 DEF Types
<1>2. Types /\ [Next]_vars => Types'
  <2> SUFFICES ASSUME Types, [Next]_vars PROVE Types'
    OBVIOUS
  <2>1. ASSUME NEW c \in Caller, Invalidate(c)
        PROVE  Types'
    <3>1. FileTypes' /\ BuildTypes' /\ builds' = builds
      BY <2>1, InvalidateTypes DEF Invalidate, Types, FlagTypes, FileTypes, BuildTypes
    <3>2. UserTypes'
      BY <2>1, <3>1 DEF Invalidate, Types, UserTypes, BuildTypes
    <3>3. PathTypes'
      BY <2>1, <3>1 DEF Invalidate, Types, PathTypes
    <3> QED
      BY <2>1, <3>1, <3>2, <3>3, UnchangedTypes DEF Invalidate, Types
  <2>2. CASE Suspend
    <3>1. FlagTypes'
      BY <2>2 DEF Suspend, Types, FlagTypes
    <3> QED
      BY <2>2, <3>1, UnchangedTypes DEF Suspend, Types
  <2>3. CASE Resume
    <3>1. FlagTypes'
      BY <2>3 DEF Resume, Types, FlagTypes
    <3>2. FileTypes' /\ BuildTypes' /\ builds' = builds
      BY <2>3, InvalidateTypes DEF Resume, Types, FileTypes, BuildTypes
    <3> QED
      BY <2>3, <3>1, <3>2, UnchangedTypes DEF Resume, Types
  <2>4. ASSUME NEW d \in Closer, Close(d)
        PROVE  Types'
    <3>1. CASE CloseAgain(d)
      <4>1. FlagTypes'
        BY <3>1 DEF CloseAgain, Types, FlagTypes
      <4>2. UserTypes'
        BY <2>4, <3>1 DEF CloseAgain, Close, Types, UserTypes, build
      <4> QED
        BY <2>4, <3>1, <4>1, <4>2, UnchangedTypes DEF CloseAgain, Close, Types
    <3>2. CASE CloseFirst(d)
      <4>1. FlagTypes'
        BY <3>2 DEF CloseFirst, CallClosers, Types, FlagTypes
      <4>2. FileTypes'
        BY <3>2 DEF CloseFirst, CloseWatchers, Types, FileTypes
      <4>3. BuildTypes' /\ builds' = builds
        BY <3>2 DEF CloseFirst, CloseWatchers, Types, BuildTypes
      <4>4. UserTypes'
        BY <2>4, <3>2, <4>3 DEF CloseFirst, CallClosers, Close, Types, UserTypes
      <4> QED
        BY <2>4, <4>1, <4>2, <4>3, <4>4, UnchangedTypes DEF Close, Types
    <3> QED
      BY <2>4, <3>1, <3>2 DEF Close
  <2>5. CASE FirstTick
    <3>1. FileTypes' /\ BuildTypes' /\ builds' = builds
      <4>1. CASE initial
        BY <2>5, <4>1, InvalidateTypes DEF FirstTick, Types, FlagTypes, FileTypes
      <4>2. CASE ~initial
        BY <2>5, <4>2 DEF FirstTick, Types, BuildTypes, FileTypes, files
      <4> QED
        BY <4>1, <4>2
    <3> QED
      BY <2>5, <3>1, UnchangedTypes DEF FirstTick, Types
  <2>6. ASSUME NEW f \in File, FileChange(f)
        PROVE  Types'
    <3>1. FileTypes'
      BY <2>6 DEF FileChange, Types, FileTypes
    <3> QED
      BY <2>6, <3>1, UnchangedTypes DEF FileChange, Types
  <2>7. CASE Aggregated
    <3>1. FileTypes' /\ BuildTypes' /\ builds' = builds
      BY <2>7, InvalidateTypes DEF Aggregated, Types, FlagTypes, FileTypes, BuildTypes
    <3> QED
      BY <2>7, <3>1, UnchangedTypes DEF Aggregated, Types
  <2>8. CASE EndIdle
    <3>1. BuildTypes' /\ builds' = builds
      BY <2>8 DEF EndIdle, Run, NextStep, Types, BuildTypes, Phase
    <3> QED
      BY <2>8, <3>1, UnchangedTypes DEF EndIdle, Types
  <2>9. CASE ReadRecords
    <3>1. BuildTypes' /\ builds' = builds
      BY <2>9 DEF ReadRecords, Run, NextStep, Types, BuildTypes, Phase
    <3> QED
      BY <2>9, <3>1, UnchangedTypes DEF ReadRecords, Types
  <2>10. CASE Compile
    <3>1. BuildTypes'
      BY <2>10 DEF Compile, Types, BuildTypes, Phase
    <3>2. UserTypes'
      BY <2>10 DEF Compile, Types, UserTypes, BuildTypes, users
    <3>3. PathTypes'
      BY <2>10 DEF Compile, Types, PathTypes, BuildTypes, paths
    <3> QED
      BY <2>10, <3>1, <3>2, <3>3, UnchangedTypes DEF Compile, Types
  <2>11. CASE Continue
    <3>1. BuildTypes' /\ builds' = builds
      BY <2>11 DEF Continue, Types, BuildTypes, Phase
    <3> QED
      BY <2>11, <3>1, UnchangedTypes DEF Continue, Types
  <2>12. CASE DoneClosed
    <3>1. FlagTypes'
      BY <2>12 DEF DoneClosed, CallClosers, Types, FlagTypes
    <3>2. BuildTypes' /\ builds' = builds
      BY <2>12 DEF DoneClosed, Settle, Types, BuildTypes, Phase
    <3>3. UserTypes'
      BY <2>12, <3>2 DEF DoneClosed, CallClosers, Types, UserTypes
    <3> QED
      BY <2>12, <3>1, <3>2, <3>3, UnchangedTypes DEF DoneClosed, Types
  <2>13. CASE DoneAgain
    <3>1. FileTypes' /\ BuildTypes' /\ builds' = builds
      BY <2>13, GoTypes DEF DoneAgain, Types, FileTypes
    <3> QED
      BY <2>13, <3>1, UnchangedTypes DEF DoneAgain, Types
  <2>14. CASE DoneOk
    <3>1. BuildTypes' /\ builds' = builds
      BY <2>14 DEF DoneOk, Settle, Types, BuildTypes, Phase
    <3>2. UserTypes'
      BY <2>14, <3>1 DEF DoneOk, Types, UserTypes
    <3>3. PathTypes'
      BY <2>14, <3>1 DEF DoneOk, DonePathOf, Types, PathTypes, BuildTypes
    <3>4. FileTypes'
      BY <2>14, UnchangedTypes DEF DoneOk
    <3> QED
      BY <2>14, <3>1, <3>2, <3>3, <3>4, UnchangedTypes DEF DoneOk, Types
  <2>15. CASE DoneFailed
    <3>1. BuildTypes' /\ builds' = builds
      BY <2>15 DEF DoneFailed, Settle, Types, BuildTypes, Phase
    <3>2. PathTypes'
      BY <2>15, <3>1 DEF DoneFailed, Types, PathTypes, Stack
    <3> QED
      BY <2>15, <3>1, <3>2, UnchangedTypes DEF DoneFailed, Types
  <2>16. ASSUME NEW p \in finishing, DoneHook(p)
         PROVE  Types'
    <3>1. PathTypes'
      BY <2>16 DEF DoneHook, Types, PathTypes, Stack, build
    <3> QED
      BY <2>16, <3>1, UnchangedTypes DEF DoneHook, Types
  <2>17. ASSUME NEW p \in finishing, DoneHookFails(p)
         PROVE  Types'
    <3>1. BuildTypes' /\ builds' = builds
      BY <2>17 DEF DoneHookFails, Types, BuildTypes
    <3>2. PathTypes'
      BY <2>17, <3>1 DEF DoneHookFails, Types, PathTypes, Stack
    <3> QED
      BY <2>17, <3>1, <3>2, UnchangedTypes DEF DoneHookFails, Types
  <2>18. CASE HandlerReturns
    <3>1. BuildTypes' /\ builds' = builds
      BY <2>18 DEF HandlerReturns, Types, BuildTypes
    <3>2. UserTypes'
      BY <2>18, <3>1 DEF HandlerReturns, Answer, Types, UserTypes
    <3>3. PathTypes'
      BY <2>18, <3>1 DEF HandlerReturns, Types, PathTypes, Stack, NoPath, BuildTypes
    <3> QED
      BY <2>18, <3>1, <3>2, <3>3, UnchangedTypes DEF HandlerReturns, Types
  <2>19. CASE CallbacksReturn
    <3>1. FileTypes'
      BY <2>19 DEF CallbacksReturn, Types, FileTypes
    <3>2. BuildTypes' /\ builds' = builds
      BY <2>19 DEF CallbacksReturn, Types, BuildTypes
    <3>3. PathTypes'
      BY <2>19, <3>2 DEF CallbacksReturn, Types, PathTypes, Stack
    <3> QED
      BY <2>19, <3>1, <3>2, <3>3, UnchangedTypes DEF CallbacksReturn, Types
  <2>20. CASE FailedReturns
    <3>1. UserTypes'
      BY <2>20 DEF FailedReturns, Answer, Types, UserTypes, build
    <3>2. PathTypes'
      BY <2>20 DEF FailedReturns, Types, PathTypes, Stack, NoPath, BuildTypes, build
    <3> QED
      BY <2>20, <3>1, <3>2, UnchangedTypes DEF FailedReturns, Types
  <2>21. CASE UNCHANGED vars
    BY <2>21, UnchangedTypes DEF vars, build, Types
  <2> QED
    BY <2>1, <2>2, <2>3, <2>4, <2>5, <2>6, <2>7, <2>8, <2>9, <2>10, <2>11, <2>12, <2>13, <2>14, <2>15, <2>16, <2>17, <2>18, <2>19, <2>20, <2>21
       DEF Next, UserCall, BuildStep, DonePath, Done, Fail
<1>3. Types => RunningExact
  BY TypesAreRunningExact
<1> QED
  BY <1>1, <1>2, <1>3, PTL DEF Spec

(***************************************************************************)
(* No watcher is left behind.                                              *)
(***************************************************************************)

\* _invalidate pauses the watcher, it never loses it.
LEMMA InvalidateKeepsWatchers ==
  ASSUME Types, NoWatcherLeak, NEW changes, NEW s \in BOOLEAN,
         NEW w \in {"off", "live", "silent"}, w = "off" <=> wp = "off",
         InvalidateWith(s, changes, w), UNCHANGED closed
  PROVE  NoWatcherLeak' /\ (wp' = "off" <=> wp = "off")
<1>1. CASE ~s /\ ~running
  BY <1>1 DEF InvalidateWith, Go, NoWatcherLeak, Types, BuildTypes
<1>2. CASE s \/ running
  BY <1>2 DEF InvalidateWith, NoWatcherLeak, Types, BuildTypes
<1> QED
  BY <1>1, <1>2

\* A Watchpack that can still report is reachable for close(), and there is none
\* after close(), even if a done path was under way and goes on to watch().
THEOREM NoWatcherLeakCorrect == Spec => []NoWatcherLeak
<1>1. Init => NoWatcherLeak
  BY DEF Init, NoWatcherLeak
<1>2. Types /\ NoWatcherLeak /\ [Next]_vars => NoWatcherLeak'
  <2> SUFFICES ASSUME Types, NoWatcherLeak, [Next]_vars PROVE NoWatcherLeak'
    OBVIOUS
  <2>0. UNCHANGED <<closed, wp, watcher, pausedWatcher>> => NoWatcherLeak'
    BY DEF NoWatcherLeak
  <2>1. ASSUME NEW c \in Caller, Invalidate(c)
        PROVE  NoWatcherLeak'
    BY <2>1, InvalidateKeepsWatchers DEF Invalidate, Types, FlagTypes, FileTypes, flags
  <2>2. CASE Suspend
    BY <2>2, <2>0 DEF Suspend, files, build
  <2>3. CASE Resume
    BY <2>3, InvalidateKeepsWatchers DEF Resume, Types, FileTypes
  <2>4. ASSUME NEW d \in Closer, Close(d)
        PROVE  NoWatcherLeak'
    <3>1. CASE CloseAgain(d)
      BY <3>1, <2>0 DEF CloseAgain, files, build
    <3>2. CASE CloseFirst(d)
      BY <3>2 DEF CloseFirst, CloseWatchers, NoWatcherLeak
    <3> QED
      BY <2>4, <3>1, <3>2 DEF Close
  <2>5. CASE FirstTick
    <3>1. CASE initial
      BY <2>5, <3>1, InvalidateKeepsWatchers DEF FirstTick, Types, FlagTypes, FileTypes, flags
    <3>2. CASE ~initial
      BY <2>5, <3>2, <2>0 DEF FirstTick, flags, files
    <3> QED
      BY <3>1, <3>2
  <2>6. ASSUME NEW f \in File, FileChange(f)
        PROVE  NoWatcherLeak'
    BY <2>6, <2>0 DEF FileChange, flags, build
  <2>7. CASE Aggregated
    BY <2>7, InvalidateKeepsWatchers DEF Aggregated, Types, FlagTypes, flags
  <2>8. CASE EndIdle
    BY <2>8, <2>0 DEF EndIdle, flags, files
  <2>9. CASE ReadRecords
    BY <2>9, <2>0 DEF ReadRecords, flags, files
  <2>10. CASE Compile
    BY <2>10, <2>0 DEF Compile, flags, files
  <2>11. CASE Continue
    BY <2>11, <2>0 DEF Continue, flags, files
  <2>12. CASE DoneClosed
    BY <2>12, <2>0 DEF DoneClosed, files
  <2>13. CASE DoneAgain
    BY <2>13 DEF DoneAgain, Go, NoWatcherLeak, Types, BuildTypes, flags
  <2>14. CASE DoneOk
    BY <2>14, <2>0 DEF DoneOk, flags, files
  <2>15. CASE DoneFailed
    BY <2>15, <2>0 DEF DoneFailed, flags, files
  <2>16. ASSUME NEW p \in finishing, DoneHook(p)
         PROVE  NoWatcherLeak'
    BY <2>16, <2>0 DEF DoneHook, flags, files, build
  <2>17. ASSUME NEW p \in finishing, DoneHookFails(p)
         PROVE  NoWatcherLeak'
    BY <2>17, <2>0 DEF DoneHookFails, flags, files
  <2>18. CASE HandlerReturns
    BY <2>18, <2>0 DEF HandlerReturns, flags, files
  <2>19. CASE CallbacksReturn
    BY <2>19 DEF CallbacksReturn, NoWatcherLeak, flags
  <2>20. CASE FailedReturns
    BY <2>20, <2>0 DEF FailedReturns, flags, files, build
  <2>21. CASE UNCHANGED vars
    BY <2>21, <2>0 DEF vars, flags, files, build
  <2> QED
    BY <2>1, <2>2, <2>3, <2>4, <2>5, <2>6, <2>7, <2>8, <2>9, <2>10, <2>11, <2>12, <2>13, <2>14, <2>15, <2>16, <2>17, <2>18, <2>19, <2>20, <2>21
       DEF Next, UserCall, BuildStep, DonePath, Done, Fail
<1>3. RunningExact => Types
  BY TypesAreRunningExact
<1> QED
  BY <1>1, <1>2, <1>3, RunningExactCorrect, PTL DEF Spec

(***************************************************************************)
(* Builds know of every change.                                            *)
(***************************************************************************)

\* A failure only lowers the bound on failures.
FailureStep ==
    \/ UNCHANGED budget
    \/ budget.failures > 0 /\ budget' = [budget EXCEPT !.failures = @ - 1]

LEMMA FailureStepFacts ==
  ASSUME BudgetTypes, FailureStep
  PROVE  BudgetTypes' /\ (NeverSuspended' <=> NeverSuspended) /\ (Failed => Failed')
BY BoundAssumption DEF BudgetTypes, FailureStep, NeverSuspended, Failed

\* _go tells the build of what the watcher knows before the start time moves on.
LEMMA GoChange ==
  ASSUME Types, ChangeInv, NEW changes, changes = {} \/ changes = pend,
         NEW w \in {"off", "live", "silent"}, w = "off" <=> wp = "off",
         Go(changes, w), swapped' => closed', stack' = stack, Failed => Failed'
  PROVE  ChangeInv'
<1>1. ~watcher' /\ running' /\ collected' = {}
  BY DEF Go
<1>2. watcher' \/ pausedWatcher' => wp' # "off"
  BY DEF Go, ChangeInv, Types, BuildTypes, FileTypes
<1>3. unreported' \subseteq sinceStart'
  <2>1. CASE initial
    BY <2>1 DEF Go
  <2>2. CASE ~initial /\ watcher
    <3>1. unreported \subseteq pend \cup collected
      BY <2>2 DEF ChangeInv, NoChangeLost
    <3>2. pend \subseteq Known(changes, TRUE)
      BY DEF Known
    <3>3. unreported' = unreported \ (collected \cup Known(changes, TRUE))
      BY <2>2 DEF Go, Types, BuildTypes
    <3> QED
      BY <3>1, <3>2, <3>3
  <2>3. CASE ~initial /\ ~watcher
    BY <2>3 DEF Go, NewStart, ChangeInv
  <2> QED
    BY <2>1, <2>2, <2>3 DEF Types, BuildTypes
<1> QED
  BY <1>1, <1>2, <1>3 DEF ChangeInv, NoChangeLost

\* _invalidate tells a build of the changes, or collects them.
LEMMA InvalidateChange ==
  ASSUME Types, ChangeInv, NEW changes, changes = {} \/ changes = pend,
         NEW w \in {"off", "live", "silent"}, w = "off" <=> wp = "off",
         changes = {} => w = wp,
         suspended' \in BOOLEAN, suspended' => suspended, InvalidateWith(suspended', changes, w),
         swapped' => closed', stack' = stack, UNCHANGED finishing, Failed => Failed'
  PROVE  ChangeInv'
<1>1. CASE ~suspended' /\ ~running
  <2>1. Go(changes, w)
    BY <1>1 DEF InvalidateWith
  <2> QED
    BY <2>1, GoChange
<1>2. CASE suspended' \/ running
  <2>1. /\ UNCHANGED <<pend, sinceStart, unreported, running, watcher, pausedWatcher>>
        /\ collected' = collected \cup changes /\ wp' = w
    BY <1>2 DEF InvalidateWith, Collect, Types, BuildTypes
  <2> QED
    BY <1>2, <2>1 DEF ChangeInv, NoChangeLost, AtRest
<1> QED
  BY <1>1, <1>2 DEF Types, BuildTypes

\* No step loses a change: not a done path that ends during the next build, nor a
\* failure, nor suspend() and resume().
LEMMA ChangeStep ==
  ASSUME Types, BudgetTypes, NoWatcherLeak, ChangeInv, [Next]_vars
  PROVE  BudgetTypes' /\ ChangeInv'
<1>a. ASSUME UNCHANGED budget
      PROVE  BudgetTypes' /\ (Failed => Failed')
  BY <1>a, FailureStepFacts DEF FailureStep
<1>b. ASSUME UNCHANGED <<flags, files, stack>>, Failed => Failed',
              UNCHANGED <<watcher, pausedWatcher, collected, running, finishing>>
       PROVE  ChangeInv'
  BY <1>b DEF ChangeInv, NoChangeLost, AtRest, flags, files
<1>1. ASSUME NEW c \in Caller, Invalidate(c)
      PROVE  BudgetTypes' /\ ChangeInv'
  <2>1. ChangeInv'
    BY <1>1, <1>a, InvalidateChange DEF Invalidate, Types, FlagTypes, FileTypes, flags, ChangeInv
  <2> QED
    BY <1>1, <1>a, <2>1 DEF Invalidate
<1>2. CASE Suspend
  <2>1. BudgetTypes' /\ (Failed => Failed')
    BY <1>2, BoundAssumption DEF Suspend, BudgetTypes, Failed
  <2>2. ChangeInv'
    BY <1>2, <2>1 DEF Suspend, ChangeInv, NoChangeLost, AtRest, files, build, paths
  <2> QED
    BY <2>1, <2>2
<1>3. CASE Resume
  <2>1. ChangeInv'
    <3>1. suspended' = FALSE /\ InvalidateWith(suspended', {}, wp)
      BY <1>3 DEF Resume
    <3> QED
      BY <1>3, <1>a, <3>1, InvalidateChange DEF Resume, Types, FileTypes, ChangeInv, paths
  <2> QED
    BY <1>3, <1>a, <2>1 DEF Resume
<1>4. ASSUME NEW d \in Closer, Close(d)
      PROVE  BudgetTypes' /\ ChangeInv'
  <2>1. BudgetTypes' /\ (Failed => Failed')
    BY <1>4, <1>a DEF Close
  <2>2. CASE CloseAgain(d)
    BY <1>4, <2>1, <2>2 DEF Close, CloseAgain, ChangeInv, NoChangeLost, AtRest, files, build, paths
  <2>3. CASE CloseFirst(d)
    BY <1>4, <2>1, <2>3 DEF Close, CloseFirst, CloseWatchers, ChangeInv, NoChangeLost, paths
  <2> QED
    BY <1>4, <2>1, <2>2, <2>3 DEF Close
<1>5. CASE FirstTick
  <2>1. CASE initial
    <3>1. InvalidateWith(suspended', {}, wp)
      BY <1>5, <2>1 DEF FirstTick, flags
    <3>2. ChangeInv'
      BY <1>5, <1>a, <3>1, InvalidateChange
         DEF FirstTick, Types, FlagTypes, FileTypes, ChangeInv, paths, flags
    <3> QED
      BY <1>5, <1>a, <3>2 DEF FirstTick
  <2>2. CASE ~initial
    BY <1>5, <2>2, <1>a, <1>b DEF FirstTick, paths
  <2> QED
    BY <2>1, <2>2
<1>6. ASSUME NEW f \in File, FileChange(f)
      PROVE  BudgetTypes' /\ ChangeInv'
  <2>1. BudgetTypes' /\ (Failed => Failed')
    BY <1>6, BoundAssumption DEF FileChange, BudgetTypes, Failed
  <2>2. ChangeInv'
    BY <1>6, <2>1 DEF FileChange, ChangeInv, NoChangeLost, AtRest, flags, build, paths
  <2> QED
    BY <2>1, <2>2
<1>7. CASE Aggregated
  <2>1. ChangeInv'
    <3>1. InvalidateWith(suspended', pend, "silent") /\ wp = "live" /\ pend # {}
      BY <1>7 DEF Aggregated, flags
    <3> QED
      BY <1>7, <1>a, <3>1, InvalidateChange
         DEF Aggregated, Types, FlagTypes, ChangeInv, paths, flags
  <2> QED
    BY <1>7, <1>a, <2>1 DEF Aggregated
<1>8. CASE EndIdle
  BY <1>8, <1>a, <1>b DEF EndIdle, paths
<1>9. CASE ReadRecords
  BY <1>9, <1>a, <1>b DEF ReadRecords, paths
<1>10. CASE Compile
  BY <1>10, <1>a, <1>b DEF Compile, paths
<1>11. CASE Continue
  BY <1>11, <1>a, <1>b DEF Continue, paths
<1>12. ASSUME DoneClosed, FailureStep
       PROVE  BudgetTypes' /\ ChangeInv'
  <2>1. BudgetTypes' /\ (Failed => Failed')
    BY <1>12, FailureStepFacts
  <2>2. ~watcher
    BY <1>12 DEF DoneClosed, ChangeInv, NoWatcherLeak
  <2>3. ChangeInv'
    BY <1>12, <2>1, <2>2 DEF DoneClosed, ChangeInv, NoChangeLost, files, paths
  <2> QED
    BY <2>1, <2>3
<1>13. ASSUME DoneAgain, FailureStep
       PROVE  BudgetTypes' /\ ChangeInv'
  <2>1. BudgetTypes' /\ (Failed => Failed')
    BY <1>13, FailureStepFacts
  <2>2. ChangeInv'
    BY <1>13, <2>1, GoChange DEF DoneAgain, Types, FileTypes, ChangeInv, flags, paths
  <2> QED
    BY <2>1, <2>2
<1>14. ASSUME DoneOk, FailureStep
       PROVE  BudgetTypes' /\ ChangeInv'
  <2>1. BudgetTypes' /\ (Failed => Failed')
    BY <1>14, FailureStepFacts
  <2>2. finishing' # {}
    BY <1>14 DEF DoneOk
  <2>3. ChangeInv'
    BY <1>14, <2>1, <2>2 DEF DoneOk, ChangeInv, NoChangeLost, AtRest, flags, files
  <2> QED
    BY <2>1, <2>3
<1>15. ASSUME DoneFailed, budget.failures > 0, budget' = [budget EXCEPT !.failures = @ - 1]
       PROVE  BudgetTypes' /\ ChangeInv'
  <2>1. BudgetTypes' /\ Failed'
    BY <1>15, BoundAssumption DEF BudgetTypes, Failed
  <2>2. ChangeInv'
    BY <1>15, <2>1 DEF DoneFailed, ChangeInv, NoChangeLost, flags, files
  <2> QED
    BY <2>1, <2>2
<1>16. ASSUME NEW p \in finishing, DoneHook(p)
       PROVE  BudgetTypes' /\ ChangeInv'
  <2>1. BudgetTypes' /\ (Failed => Failed')
    BY <1>16, <1>a DEF DoneHook
  <2>2. ChangeInv'
    BY <1>16, <2>1 DEF DoneHook, ChangeInv, NoChangeLost, AtRest, flags, files, build
  <2> QED
    BY <2>1, <2>2
<1>17. ASSUME NEW p \in finishing, DoneHookFails(p)
       PROVE  BudgetTypes' /\ ChangeInv'
  <2>1. BudgetTypes' /\ Failed'
    BY <1>17, BoundAssumption DEF DoneHookFails, BudgetTypes, Failed
  <2>2. ChangeInv'
    BY <1>17, <2>1 DEF DoneHookFails, ChangeInv, NoChangeLost, flags, files
  <2> QED
    BY <2>1, <2>2
<1>18. CASE HandlerReturns
  <2>1. BudgetTypes' /\ (Failed => Failed')
    BY <1>18, <1>a DEF HandlerReturns
  <2>2. ChangeInv'
    BY <1>18, <2>1 DEF HandlerReturns, ChangeInv, NoChangeLost, AtRest, flags, files
  <2> QED
    BY <2>1, <2>2
<1>19. CASE CallbacksReturn
  <2>1. BudgetTypes' /\ (Failed => Failed')
    BY <1>19, <1>a DEF CallbacksReturn
  <2>2. CASE closed
    <3>1. ~watcher
      BY <2>2 DEF ChangeInv, NoWatcherLeak
    <3> QED
      BY <1>19, <2>1, <2>2, <3>1 DEF CallbacksReturn, ChangeInv, NoChangeLost, flags
  <2>3. CASE ~closed
    BY <1>19, <2>1, <2>3 DEF CallbacksReturn, ChangeInv, NoChangeLost, flags
  <2> QED
    BY <2>1, <2>2, <2>3
<1>20. CASE FailedReturns
  <2>1. BudgetTypes' /\ (Failed => Failed')
    BY <1>20, <1>a DEF FailedReturns
  <2>2. ChangeInv'
    BY <1>20, <2>1 DEF FailedReturns, ChangeInv, NoChangeLost, flags, files, build
  <2> QED
    BY <2>1, <2>2
<1>21. CASE UNCHANGED vars
  BY <1>21, <1>a, <1>b DEF vars, build, paths
<1>22. CASE Done
  BY <1>22, <1>12, <1>13, <1>14 DEF Done, FailureStep
<1>23. CASE Fail
  BY <1>23, <1>12, <1>13, <1>15 DEF Fail, FailureStep
<1> QED
  BY <1>1, <1>2, <1>3, <1>4, <1>5, <1>6, <1>7, <1>8, <1>9, <1>10, <1>11, <1>16, <1>17, <1>18, <1>19, <1>20, <1>21, <1>22, <1>23
     DEF Next, UserCall, BuildStep, DonePath

(***************************************************************************)
(* Callbacks hear of builds that know theirs.                              *)
(***************************************************************************)

Compiled == phase \in {"compile", "emit", "records"}

\* What CallbackInv says is kept while nobody waits anew, builds are not cut
\* loose from their mark, and no path is added.
LEMMA CallbacksKept ==
  ASSUME Types, CallbackInv,
         NeverSuspended' => NeverSuspended, NeverSuspended' => suspended' = suspended,
         Compiled' /\ ~invalid' => Compiled /\ ~invalid,
         UNCHANGED <<builds, seen>>, callbacks' \subseteq callbacks,
         \A c \in Caller : status[c] # "fresh" => status'[c] # "fresh",
         finishing' \cup {doing'} \subseteq finishing \cup {doing, NoPath}
  PROVE  CallbackInv'
<1>1. \A c \in callbacks' : status'[c] # "fresh"
  BY DEF CallbackInv, Types, PathTypes
<1>2. \A p \in finishing \cup {doing} : p.cbs \subseteq Caller
  BY DEF Types, PathTypes
<1>3. \A p \in finishing' \cup {doing'} : p \in finishing \cup {doing} \/ p.cbs = {}
  BY DEF NoPath
<1>4. \A p \in finishing' \cup {doing'} : \A c \in p.cbs : status'[c] # "fresh"
  BY <1>2, <1>3 DEF CallbackInv
<1>5. CallbackAfterRebuild'
  BY <1>3 DEF CallbackInv, CallbackAfterRebuild
<1> QED
  BY <1>1, <1>4, <1>5 DEF CallbackInv, Compiled

\* _invalidate during a build marks it invalid unless it is suspended.
LEMMA InvalidateMarks ==
  ASSUME Types, NEW changes, NEW s \in BOOLEAN, NEW w, InvalidateWith(s, changes, w)
  PROVE  /\ builds' = builds
         /\ Compiled' /\ ~invalid' => Compiled /\ ~invalid
         /\ ~s /\ Compiled' => invalid'
<1>1. CASE ~s /\ ~running
  BY <1>1 DEF InvalidateWith, Go, Run, NextStep, Compiled
<1>2. CASE s \/ running
  BY <1>2 DEF InvalidateWith, Compiled, Types, BuildTypes
<1> QED
  BY <1>1, <1>2

\* No step lets a callback hear of a build that cannot know his call.
LEMMA CallbackStep ==
  ASSUME Types, BudgetTypes, CallbackInv, [Next]_vars
  PROVE  CallbackInv'
<1>a. UNCHANGED budget => (NeverSuspended' <=> NeverSuspended)
  BY DEF NeverSuspended
<1>b. UNCHANGED users => UNCHANGED seen /\ \A c \in Caller : status[c] # "fresh" => status'[c] # "fresh"
  BY DEF users
<1>c. UNCHANGED paths => /\ callbacks' \subseteq callbacks
                         /\ finishing' \cup {doing'} \subseteq finishing \cup {doing, NoPath}
  BY DEF paths
<1>1. ASSUME NEW c \in Caller, Invalidate(c)
      PROVE  CallbackInv'
  <2>1. /\ builds' = builds
        /\ Compiled' /\ ~invalid' => Compiled /\ ~invalid
        /\ ~suspended /\ Compiled' => invalid'
    BY <1>1, InvalidateMarks DEF Invalidate, Types, FlagTypes
  <2>2. /\ status[c] = "fresh" /\ status' = [status EXCEPT ![c] = "waiting"]
        /\ seen' = [seen EXCEPT ![c] = builds] /\ callbacks' = callbacks \cup {c}
        /\ UNCHANGED <<suspended, finishing, doing, budget>>
    BY <1>1 DEF Invalidate, flags
  <2>3. \A p \in finishing \cup {doing} : p.cbs \subseteq Caller
    BY DEF Types, PathTypes
  <2>4. \A p \in finishing \cup {doing} : c \notin p.cbs
    BY <2>2 DEF CallbackInv
  <2>5. \A e \in callbacks' : status'[e] # "fresh"
    BY <2>2 DEF CallbackInv, Types, UserTypes, PathTypes
  <2>6. \A p \in finishing' \cup {doing'} : \A e \in p.cbs : status'[e] # "fresh"
    BY <2>2, <2>3, <2>4 DEF CallbackInv, Types, UserTypes
  <2>7. CallbackAfterRebuild'
    BY <2>2, <2>3, <2>4, <1>a DEF CallbackInv, CallbackAfterRebuild, Types, UserTypes
  <2>8. NeverSuspended' => ~suspended'
    BY <2>2, <1>a DEF CallbackInv
  <2>9. ~(NeverSuspended' /\ Compiled' /\ ~invalid')
    BY <2>1, <2>2, <1>a DEF CallbackInv
  <2> QED
    BY <2>5, <2>6, <2>7, <2>8, <2>9 DEF CallbackInv, Compiled
<1>2. CASE Suspend
  <2>1. ~NeverSuspended'
    BY <1>2, BoundAssumption DEF Suspend, NeverSuspended, BudgetTypes
  <2> QED
    BY <1>2, <2>1, <1>b, <1>c, CallbacksKept DEF Suspend, build, users, Compiled
<1>3. CASE Resume
  <2>1. /\ builds' = builds
        /\ Compiled' /\ ~invalid' => Compiled /\ ~invalid
    BY <1>3, InvalidateMarks DEF Resume
  <2>2. ~NeverSuspended'
    BY <1>3, <1>a DEF Resume, CallbackInv
  <2> QED
    BY <1>3, <2>1, <2>2, <1>b, <1>c, CallbacksKept DEF Resume
<1>4. ASSUME NEW d \in Closer, Close(d)
      PROVE  CallbackInv'
  <2>1. /\ suspended' = suspended /\ builds' = builds
        /\ Compiled' /\ ~invalid' => Compiled /\ ~invalid
    <3>1. CASE CloseAgain(d)
      BY <3>1 DEF CloseAgain, build, Compiled
    <3>2. CASE CloseFirst(d)
      BY <3>2 DEF CloseFirst, Compiled
    <3> QED
      BY <1>4, <3>1, <3>2 DEF Close
  <2> QED
    BY <1>4, <2>1, <1>a, <1>c, CallbacksKept DEF Close
<1>5. CASE FirstTick
  <2>1. /\ builds' = builds
        /\ Compiled' /\ ~invalid' => Compiled /\ ~invalid
    <3>1. CASE initial
      BY <1>5, <3>1, InvalidateMarks DEF FirstTick, Types, FlagTypes
    <3>2. CASE ~initial
      BY <1>5, <3>2 DEF FirstTick, Compiled
    <3> QED
      BY <3>1, <3>2
  <2> QED
    BY <1>5, <2>1, <1>a, <1>b, <1>c, CallbacksKept DEF FirstTick, flags
<1>6. ASSUME NEW f \in File, FileChange(f)
      PROVE  CallbackInv'
  <2>1. NeverSuspended' <=> NeverSuspended
    BY <1>6 DEF FileChange, NeverSuspended, BudgetTypes
  <2> QED
    BY <1>6, <2>1, <1>b, <1>c, CallbacksKept DEF FileChange, flags, build, Compiled
<1>7. CASE Aggregated
  <2>1. /\ builds' = builds
        /\ Compiled' /\ ~invalid' => Compiled /\ ~invalid
    BY <1>7, InvalidateMarks DEF Aggregated, Types, FlagTypes
  <2> QED
    BY <1>7, <2>1, <1>a, <1>b, <1>c, CallbacksKept DEF Aggregated, flags
<1>8. CASE EndIdle
  <2>1. ~Compiled'
    BY <1>8 DEF EndIdle, Run, NextStep, Compiled
  <2> QED
    BY <1>8, <2>1, <1>a, <1>b, <1>c, CallbacksKept DEF EndIdle, flags
<1>9. CASE ReadRecords
  <2>1. ~Compiled'
    BY <1>9 DEF ReadRecords, Run, NextStep, Compiled
  <2> QED
    BY <1>9, <2>1, <1>a, <1>b, <1>c, CallbacksKept DEF ReadRecords, flags
<1>10. CASE Compile
  <2>1. /\ builds' = builds + 1
        /\ UNCHANGED <<suspended, status, seen, callbacks, finishing, doing, budget>>
    BY <1>10 DEF Compile, flags, users, paths
  <2>2. \A c \in callbacks : seen[c] < builds'
    BY <2>1 DEF Types, PathTypes, UserTypes, BuildTypes
  <2>3. CallbackAfterRebuild'
    BY <2>1, <1>a DEF CallbackInv, CallbackAfterRebuild
  <2> QED
    BY <2>1, <2>2, <2>3, <1>a DEF CallbackInv
<1>11. CASE Continue
  BY <1>11, <1>a, <1>b, <1>c, CallbacksKept DEF Continue, Compiled, flags
<1>12. ASSUME DoneClosed, FailureStep
       PROVE  CallbackInv'
  <2>1. ~Compiled'
    BY <1>12 DEF DoneClosed, Compiled
  <2> QED
    BY <1>12, <2>1, <1>c, FailureStepFacts, CallbacksKept DEF DoneClosed
<1>13. ASSUME DoneAgain, FailureStep
       PROVE  CallbackInv'
  <2>1. ~Compiled' /\ builds' = builds
    BY <1>13 DEF DoneAgain, Go, Run, NextStep, Compiled
  <2> QED
    BY <1>13, <2>1, <1>b, <1>c, FailureStepFacts, CallbacksKept DEF DoneAgain, flags
<1>14. ASSUME DoneOk, UNCHANGED budget, Compiled
       PROVE  CallbackInv'
  <2>1. /\ finishing' = finishing \cup {[build |-> builds, cbs |-> callbacks]}
        /\ status' = [c \in Caller |-> IF c \in callbacks THEN "taken" ELSE status[c]]
        /\ callbacks' = {} /\ phase' = "none" /\ ~Rebuild
        /\ UNCHANGED <<suspended, builds, seen, doing>>
    BY <1>14 DEF DoneOk, DonePathOf, flags
  <2>2. \A p \in finishing \cup {doing} : p.cbs \subseteq Caller
    BY DEF Types, PathTypes
  <2>3. \A p \in finishing' \cup {doing'} : \A c \in p.cbs : status'[c] # "fresh"
    BY <2>1, <2>2 DEF CallbackInv, Types, PathTypes
  <2>4. NeverSuspended => \A c \in callbacks : builds > seen[c]
    <3>1. NeverSuspended => ~invalid
      BY <2>1 DEF Rebuild, CallbackInv
    <3>2. \A c \in callbacks : seen[c] \in Nat
      BY DEF Types, PathTypes, UserTypes, BuildTypes
    <3> QED
      BY <1>14, <3>1, <3>2 DEF CallbackInv, Compiled, Types, BuildTypes
  <2>5. CallbackAfterRebuild'
    BY <2>1, <2>4, <1>14, <1>a DEF CallbackInv, CallbackAfterRebuild
  <2> QED
    BY <2>1, <2>3, <2>5, <1>14, <1>a DEF CallbackInv
<1>15. ASSUME DoneFailed, FailureStep
       PROVE  CallbackInv'
  <2>1. ~Compiled'
    BY <1>15 DEF DoneFailed, Compiled
  <2> QED
    BY <1>15, <2>1, <1>b, FailureStepFacts, CallbacksKept DEF DoneFailed, flags
<1>16. ASSUME NEW p \in finishing, DoneHook(p)
       PROVE  CallbackInv'
  BY <1>16, <1>a, <1>b, CallbacksKept DEF DoneHook, flags, build, Compiled
<1>17. ASSUME NEW p \in finishing, DoneHookFails(p)
       PROVE  CallbackInv'
  <2>1. NeverSuspended' <=> NeverSuspended
    BY <1>17, FailureStepFacts DEF DoneHookFails, FailureStep
  <2> QED
    BY <1>17, <2>1, <1>b, CallbacksKept DEF DoneHookFails, flags, Compiled
<1>18. CASE HandlerReturns
  <2>1. \A c \in Caller : status[c] # "fresh" => status'[c] # "fresh"
    BY <1>18 DEF HandlerReturns, Answer
  <2> QED
    BY <1>18, <2>1, <1>a, CallbacksKept DEF HandlerReturns, Answer, flags, Compiled
<1>19. CASE CallbacksReturn
  BY <1>19, <1>a, <1>b, CallbacksKept DEF CallbacksReturn, flags, Compiled
<1>20. CASE FailedReturns
  <2>1. \A c \in Caller : status[c] # "fresh" => status'[c] # "fresh"
    BY <1>20 DEF FailedReturns, Answer
  <2> QED
    BY <1>20, <2>1, <1>a, CallbacksKept DEF FailedReturns, Answer, flags, build, Compiled
<1>21. CASE UNCHANGED vars
  BY <1>21, <1>a, <1>b, <1>c, CallbacksKept DEF vars, flags, build, Compiled
<1>22. CASE Done
  <2>1. Compiled
    BY <1>22 DEF Done, Compiled
  <2> QED
    BY <1>22, <2>1, <1>12, <1>13, <1>14 DEF Done, FailureStep
<1>23. CASE Fail
  BY <1>23, <1>12, <1>13, <1>15 DEF Fail, FailureStep
<1> QED
  BY <1>1, <1>2, <1>3, <1>4, <1>5, <1>6, <1>7, <1>8, <1>9, <1>10, <1>11, <1>16, <1>17, <1>18, <1>19, <1>20, <1>21, <1>22, <1>23
     DEF Next, UserCall, BuildStep, DonePath

\* A build is told of every change that no earlier build was told of, and a
\* callback of invalidate() is never told of a build that began before the call,
\* wherever the call, the done paths and the next build interleave.
THEOREM BuildsAreInformedCorrect == Spec => []BuildsAreInformed
<1>1. Init => BudgetTypes /\ CallbackInv /\ ChangeInv
  <2> SUFFICES ASSUME Init PROVE BudgetTypes /\ CallbackInv /\ ChangeInv
    OBVIOUS
  <2>1. BudgetTypes
    BY BoundAssumption DEF Init, BudgetTypes
  <2>2. CallbackInv
    BY DEF Init, CallbackInv, CallbackAfterRebuild, NoPath
  <2>3. ChangeInv
    BY DEF Init, ChangeInv, NoChangeLost
  <2> QED
    BY <2>1, <2>2, <2>3
<1>2. /\ RunningExact /\ NoWatcherLeak /\ BudgetTypes /\ CallbackInv /\ ChangeInv /\ [Next]_vars
      => BudgetTypes' /\ CallbackInv' /\ ChangeInv'
  BY TypesAreRunningExact, ChangeStep, CallbackStep
<1>3. CallbackInv /\ ChangeInv => BuildsAreInformed
  BY DEF CallbackInv, ChangeInv, BuildsAreInformed
<1> QED
  BY <1>1, <1>2, <1>3, RunningExactCorrect, NoWatcherLeakCorrect, PTL DEF Spec

===============================================================================
