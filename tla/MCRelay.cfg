CONSTANTS
    MaxConns = 2
    MaxChunks = 1
    Capacity = 2
    MayCut = FALSE
SPECIFICATION Spec
INVARIANTS
    StreamIntegrity
    OwnCloseOnly
    EntryHasReader
PROPERTIES
    ImplementsStreams
