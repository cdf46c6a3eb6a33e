SPECIFICATION FairSpec
CONSTANTS
    Key = {k1, k2}
    MaxVersion = 2
    MaxBuilds = 3
    MaxFailures = 1
    MaxWaiting = 3
CHECK_DEADLOCK FALSE
INVARIANTS
    NothingLost
PROPERTIES
    DiskNeverOlder
    StoredInTheEnd
