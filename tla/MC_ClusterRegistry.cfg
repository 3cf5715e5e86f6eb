CONSTANTS
    None = None
    Secrets <- MCSecrets
    Clusters <- MCTwoClusters
    Kinds <- MCKinds
    SecretData <- MCWideShrinkData
    ContextOf <- MCContextOf
    Lower <- MCLower
    NameContains <- MCNameContains
    MaxEvents = 8
    SpacedEvents = TRUE
    ResolveMayFail = TRUE
    StartMayFail = TRUE

SPECIFICATION FairSpec

INVARIANT TypeOK
INVARIANT StopChClosedAtMostOnce
INVARIANT NoOrphanController
INVARIANT ServedClusterCached
