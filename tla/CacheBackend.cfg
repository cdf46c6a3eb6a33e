SPECIFICATION FairBackendSpec
CONSTANTS
    p1 = p1
    p2 = p2
    r1 = r1
    r2 = r2
    Path = {p1, p2}
    Request = {r1, r2}
    Throwing = {r2}
    Op = {1, 2, 3}
    Levels = 3
    Tick = 2
    MaxLate = 1
    Sessions <- MCSessions
INVARIANTS
    ServedInTime
PROPERTIES
    KeptLongEnough
    NeverOlder
    AnsweredOnce
