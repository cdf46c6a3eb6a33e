SPECIFICATION ChunkSpec
CONSTANTS
    Undefined = Undefined
    NoName = NoName
    Entry <- Entries
    Module <- Modules
    Block <- Blocks
    Graph <- LateRuntime
CHECK_DEADLOCK FALSE
INVARIANTS
    RequiredIsLoaded
