CONSTANTS
    None = None
    Keys <- MCKeys
    Workers <- MCTwoWorkers
    MaxEvents = 1
    MaxChildren = 0
    MaxRetry = 1
    Outcomes <- MCRetryOutcomes
    ChildOutcomes <- MCChildOutcomes
    StopEnabled = TRUE

SPECIFICATION FairSpec

CHECK_DEADLOCK FALSE
PROPERTY StopCompletes
