SPECIFICATION SessionSpec
CONSTANTS
    EncCap = 1
    PreCap = 1
    Pipelined = TRUE
    MaxFrames = 3
    MaxSkips = 0
    MaxBreaks = 1
    PendingMax = 1
    MaxSessions = 2
INVARIANTS
    ResultsInOrder
    EndDrains
    ResultIsOwn
    DecodeSeesOwnFrame
PROPERTIES
    PipelineClient
    TurnTaking
CHECK_DEADLOCK FALSE
