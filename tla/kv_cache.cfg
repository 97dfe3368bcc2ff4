SPECIFICATION Spec
CONSTANTS
    Size = 2
    Seqs <- MCSeqs
    MaxPos = 2
    MaxTokens = 3
    MaxCalls = 2
    MaxBatch = 2
    MaxUbatch = 2
    Groups <- MCGroups
    Failing <- MCSingle
    Deltas <- MCDeltas
    Divisors = {2}
INVARIANTS
    BooksExact
    KeysFollow
PROPERTIES
    ImplementsStore
CHECK_DEADLOCK FALSE
