SPECIFICATION FairSpec
CONSTANTS
    L = 2
    Resource = TRUE
CHECK_DEADLOCK FALSE
INVARIANTS
    CalledBackOnce
    OnionOrder
PROPERTIES
    Answered
