SPECIFICATION FairSpec
CONSTANTS
    EncCap = 1
    PreCap = 2
    Pipelined = FALSE
    MaxFrames = 3
    MaxSkips = 1
    MaxBreaks = 1
INVARIANTS
    InFlightExact
    FramesInOrder
PROPERTIES
    AnsweredOnce
    RequestAnswered
CHECK_DEADLOCK FALSE
