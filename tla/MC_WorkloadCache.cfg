CONSTANTS
    None = None
    NoId = NoId
    Clusters = {c1}
    Identities = {i1}
    Envs = {e1, e2}
    WorkloadNames = {n1}
    SvcNames <- MCSvcNames
    NsOf <- MCNsOf
    MaxEvents = 4
    MaxRestarts = 1
    ChangesWhileStopped = FALSE

SPECIFICATION FairSpec

INVARIANT TypeOK
INVARIANT IndexSound
INVARIANT ServiceCacheExact
PROPERTY WorkloadEventuallyCached
