SPECIFICATION FairSpec
CONSTANTS
    NSlots = 1
    Jobs <- MCJobs
    MaxRounds = 1
    MaxSpoils = 1
    MaxSleeps = 2
INVARIANTS
    DeferredRuns
CHECK_DEADLOCK FALSE
