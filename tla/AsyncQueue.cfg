SPECIFICATION FairSpec
CONSTANTS
    NumChildren = 1
    Key = {k1, k2}
    Caller = {c1, c2}
    Parallelism = 1
    MaxExtra = 1
    MaxEntries = 2
CHECK_DEADLOCK FALSE
INVARIANTS
    NoLostWakeup
    SlotAccounting
    NoOrphanedCallback
PROPERTIES
    EveryCallbackAnswered
    ImplementsTaskQueue
