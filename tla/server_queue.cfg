SPECIFICATION FairSpec
CONSTANTS
    NSlots = 1
    Jobs <- MCJobs
    MaxRounds = 1
    MaxSpoils = 1
    MaxSleeps = 2
INVARIANTS
    TasksOnce
    NothingLeft
PROPERTIES
    Answered
    WakersReturn
CHECK_DEADLOCK FALSE
