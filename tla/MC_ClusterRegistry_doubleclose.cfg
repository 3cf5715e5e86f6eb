CONSTANTS
    None = None
    Secrets <- MCOneSecret
    Clusters <- MCOneCluster
    Kinds <- MCKinds
    SecretData <- MCOneData
    ContextOf <- MCContextOf
    Lower <- MCLower
    NameContains <- MCNameContains
    MaxEvents = 4
    SpacedEvents = FALSE
    ResolveMayFail = FALSE
    StartMayFail = FALSE

SPECIFICATION FairSpec

INVARIANT StopChClosedAtMostOnce
