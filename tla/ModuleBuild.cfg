SPECIFICATION FairSpec
CONSTANTS
    a = a
    b = b
    c = c
    Module = {a, b, c}
    Project <- Projects
CHECK_DEADLOCK FALSE
INVARIANTS
    JobsBalanced
    MakeIsComplete
PROPERTIES
    EveryEntryAnswered
