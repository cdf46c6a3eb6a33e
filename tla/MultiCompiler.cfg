SPECIFICATION FairSpec
CONSTANTS
    N = 3
    Parents <- MCChain
    Parallelism = 2
    MaxChanges = 1
    MaxEvents = 1
CHECK_DEADLOCK FALSE
INVARIANTS
    SlotsExact
    NothingForgotten
    DoneIsCurrent
PROPERTIES
    SessionGoesOn
