CONSTANTS
    Writers = {w1, w2}
    MaxFrames = 2
    HeaderLen = 2
    MaxPayload = 2
    PipeSize = 3
    MaxNoise = 6
    None = none
SPECIFICATION FairSpec
INVARIANTS
    CleanEndLosesNothing
PROPERTIES
    ImplementsChannel
    FrameArrives
