SPECIFICATION SnapshotSpec
CONSTANTS
    Path = {"a", "b"}
    m1 = m1
    m2 = m2
    m3 = m3
    Build = {m1, m2, m3}
    Captures <- Modules
    Settings <- AllSettings
    Coarsest = 4
    Steps = {1, 2}
    MinCommon = 1
    Edited = {"b"}
    FirstTime = 8
    LastTime = 9
    MaxEdits = 1
    MaxRounds = 2
SYMMETRY Alike
CHECK_DEADLOCK FALSE
INVARIANTS
    NothingDropped
    ValidIsFresh
    QuietIsValid
