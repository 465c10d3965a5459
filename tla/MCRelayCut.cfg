CONSTANTS
    MaxConns = 1
    MaxChunks = 2
    Capacity = 2
    MayCut = TRUE
SPECIFICATION FairSpec
INVARIANTS
    NothingCutShort
PROPERTIES
    CloseReachesPeer
    SentArrives
    EntriesForgotten
