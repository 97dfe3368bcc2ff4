SPECIFICATION Spec
CONSTANTS
    Handlers = {a, b}
    None = None
    MaxCalls = 2
    MaxPieces = 1
INVARIANT ListenReported
CHECK_DEADLOCK FALSE
