CONSTANTS
    None = None
    Keys <- MCKeys
    Workers <- MCTwoWorkers
    MaxEvents = 2
    MaxChildren = 1
    MaxRetry = 1
    Outcomes <- MCOutcomes
    ChildOutcomes <- MCChildOutcomes
    StopEnabled = FALSE

SPECIFICATION FairSpec

INVARIANT TypeOK
INVARIANT NoChannelPanic
INVARIANT RetryBudget
PROPERTY EveryEventConcluded
PROPERTY QueueRefinement
