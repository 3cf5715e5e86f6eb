CONSTANTS
    NoKey = NoKey
    NoMeta = NoMeta
    None = None
    Keys <- MCKeys
    Gens <- MCGens
    InputKeys <- MCInputKeysEmpty
    InputGens <- MCInputGens
    MonotoneGens = TRUE
    MaxEvents = 4
    MaxGoRoutines = 3

SPECIFICATION FairSpec

CONSTRAINT MCOneEmptyKey

INVARIANT TypeOK
INVARIANT StatusClosedAtMostOnce
INVARIANT SingleWaiter
INVARIANT InFlightCounted
INVARIANT LatestGenerationRuns
PROPERTY EveryEventClosed
