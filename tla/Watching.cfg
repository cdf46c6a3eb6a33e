SPECIFICATION FairSpec
CONSTANTS
    File = {f1}
    Caller = {c1}
    Closer = {d1, d2}
    MaxChanges = 2
    MaxSuspends = 1
    MaxFailures = 1
CHECK_DEADLOCK FALSE
INVARIANTS
    RunningExact
    NoWatcherLeak
    BuildsAreInformed
PROPERTIES
    ChangeGetsBuilt
    CallbacksAnswered
