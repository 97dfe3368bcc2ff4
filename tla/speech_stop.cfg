SPECIFICATION FairSpec
CONSTANTS
    MaxQueue = 1
    Chunk = 2
    Look = 1
    PerText = 3
    Tails = {0, 2}
    MaxItems = 3
    MaxBreaks = 1
PROPERTIES
    LlmJoins
CHECK_DEADLOCK FALSE
