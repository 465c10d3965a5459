CONSTANTS
    Runs = {p1, p2}
    Relays = {r1}
    Cleans = {c1}
    None = none
SPECIFICATION FairSpec
INVARIANTS
    LiveKeepsSockets
    LeftoverNeverBlocks
    NothingLeft
PROPERTIES
    StartSettles
