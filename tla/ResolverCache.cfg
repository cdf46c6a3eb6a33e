SPECIFICATION FairSpec
CONSTANTS
    i1 = i1
    i2 = i2
    Caller = {1, 2, 3}
    Ident = {i1, i2}
    Settings <- MCSettings
CHECK_DEADLOCK FALSE
INVARIANTS
    AnsweredRight
    MemoryIsKept
PROPERTIES
    Answers
