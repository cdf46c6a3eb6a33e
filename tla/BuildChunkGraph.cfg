SPECIFICATION FairChunkSpec
CONSTANTS
    Undefined = Undefined
    NoName = NoName
    Entry <- Entries
    Module <- Modules
    Block <- Blocks
    Graph <- AllGraphs
CHECK_DEADLOCK FALSE
INVARIANTS
    RequiredIsLoaded
    SetsAreKnown
PROPERTIES
    BuildEnds
