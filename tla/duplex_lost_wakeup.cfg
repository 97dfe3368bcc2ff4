SPECIFICATION FairSpec
CONSTANTS
    EncCap = 2
    PreCap = 2
    Pipelined = TRUE
    MaxFrames = 1
    MaxSkips = 0
    MaxBreaks = 0
PROPERTIES
    DecodeReturns
CHECK_DEADLOCK FALSE
