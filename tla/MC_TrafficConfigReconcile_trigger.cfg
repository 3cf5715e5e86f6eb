CONSTANTS
    None = None
    i1 = i1  i2 = i2  e1 = e1  e2 = e2  w1 = w1  w2 = w2
    c1 = c1  c2 = c2  t1 = t1  t2 = t2
    Identities = {i1, i2}
    TEnvs = {e1}
    WEnvs = {w1, w2}
    Clusters = {c1, c2}
    TcNames = {t1}
    TcKey <- TcKeyTrig
    TcWenvs <- TcWenvsTrig
    TcDisabled = {FALSE}
    TcIgnored = {FALSE}
    TcOps = {"add"}
    MaxRev = 1
    WlInit <- WlInitTrig
    WlAdds <- WlAddsTrig
    DepInit <- DepInitTc
    DepSources = {i2}
    DepChoices <- DepChoicesTrig
    InScope = {c1, c2}
    IgnoredAssets = {}
    ReadOnly = FALSE
    CacheWarmedUp = TRUE
    EdgeOf <- EdgeTrig
    VsEnvs = {e1}
    ApiMayFail = FALSE
    QuotaOf <- QuotaTc
    PortsOf <- PortsTc
    MaxEvents = 7

SPECIFICATION FairSpec

INVARIANT ThrottleFiltersExact
INVARIANT VirtualServiceRoutesServed
