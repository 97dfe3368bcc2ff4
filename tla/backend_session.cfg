SPECIFICATION FairSpec
CONSTANTS
    Handlers = {a, b}
    None = None
    MaxCalls = 2
    MaxPieces = 2
INVARIANTS
    ContextIsActives
    ReplyIsWhole
    DecodersAreActives
    InputsOwn
PROPERTIES
    HandlerEnds
    CloseReturns
CHECK_DEADLOCK FALSE
