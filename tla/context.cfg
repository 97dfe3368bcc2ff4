SPECIFICATION Spec
CONSTANTS
    KeepLen = 1
    PrefixLen = 1
    Setups <- MCSetups
INVARIANTS
    CacheIsRecent
    BoundariesExact
    ContextFits
    Accounted
PROPERTIES
    RoundsStayWhole
    TurnsDropWhole
CHECK_DEADLOCK FALSE
