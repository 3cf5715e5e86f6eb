CONSTANTS
    None = None
    Secrets <- MCOneSecret
    Clusters <- MCTwoClusters
    Kinds <- MCKinds
    SecretData <- MCShrinkData
    ContextOf <- MCContextOf
    Lower <- MCLower
    NameContains <- MCNameContains
    MaxEvents = 4
    SpacedEvents = TRUE
    ResolveMayFail = FALSE
    StartMayFail = FALSE

SPECIFICATION FairSpec

PROPERTY ControllersFollowSecrets
