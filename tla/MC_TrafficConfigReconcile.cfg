CONSTANTS
    None = None
    i1 = i1  i2 = i2  e1 = e1  e2 = e2  w1 = w1  w2 = w2
    c1 = c1  c2 = c2  t1 = t1  t2 = t2
    Identities = {i1, i2}
    TEnvs = {e1, e2}
    WEnvs = {w1, w2}
    Clusters = {c1, c2}
    TcNames = {t1, t2}
    TcKey <- TcKeyTc
    TcWenvs <- TcWenvsTc
    TcDisabled = {FALSE}
    TcIgnored = {FALSE}
    TcOps = {"add", "update", "delete"}
    MaxRev = 3
    WlInit <- WlInitTc
    WlAdds = {}
    DepInit <- DepInitTc
    DepSources = {}
    DepChoices = {}
    InScope = {c1}
    IgnoredAssets = {}
    ReadOnly = FALSE
    CacheWarmedUp = TRUE
    EdgeOf <- EdgeTc
    VsEnvs = {e1, e2}
    ApiMayFail = FALSE
    QuotaOf <- QuotaTc
    PortsOf <- PortsTc
    MaxEvents = 6

SPECIFICATION FairSpec

INVARIANT TypeOK
INVARIANT ThrottleFiltersExact
INVARIANT ThrottleQuotasEnforced
INVARIANT PathRegexWildcards
INVARIANT VirtualServiceCurrent
INVARIANT VirtualServiceRoutesServed
