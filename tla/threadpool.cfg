SPECIFICATION FairSpec
CONSTANTS
    Pool = 3
    Nodes <- MCNodes
    Chunks = 4
    PerThread = 2
    MaxGraphs = 2
    MaxPauses = 1
INVARIANTS
    NodesInOrder
    GraphWhole
PROPERTIES
    GraphReturns
    FreeReturns
CHECK_DEADLOCK FALSE
