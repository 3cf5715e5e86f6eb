CONSTANTS
    None = None
    Keys <- MCKeys
    Workers <- MCOneWorker
    MaxEvents = 2
    MaxChildren = 1
    MaxRetry = 1
    Outcomes <- MCOutcomes
    ChildOutcomes <- MCChildOutcomes
    StopEnabled = TRUE

SPECIFICATION FairSpec

INVARIANT NoChannelPanic
PROPERTY StopCompletes
PROPERTY QueueRefinement
CHECK_DEADLOCK FALSE
