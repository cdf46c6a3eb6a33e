SPECIFICATION FairSpec
CONSTANTS
    main = main
    x = x
    y = y
    Module = {main, x, y}
    Main = main
    App <- Apps
    MaxChecks = 1
    MaxLoads = 2
    MaxInvalidated = 2
CHECK_DEADLOCK FALSE
INVARIANTS
    NoApplyWhileLoading
    NoStaleModule
    InvalidatedIsReplaced
PROPERTIES
    CheckSettles
