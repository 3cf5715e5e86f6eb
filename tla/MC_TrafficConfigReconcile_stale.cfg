CONSTANTS
    None = None
    i1 = i1  i2 = i2  e1 = e1  e2 = e2  w1 = w1  w2 = w2
    c1 = c1  c2 = c2  t1 = t1  t2 = t2
    Identities = {i1}
    TEnvs = {e1}
    WEnvs = {w1}
    Clusters = {c1, c2}
    TcNames = {t1}
    TcKey <- TcKeyStale
    TcWenvs <- TcWenvsStale
    TcDisabled = {FALSE}
    TcIgnored = {FALSE}
    TcOps = {"add", "update"}
    MaxRev = 2
    WlInit <- WlInitStale
    WlAdds = {}
    DepInit <- DepInitStale
    DepSources = {}
    DepChoices = {}
    InScope = {c1, c2}
    IgnoredAssets = {}
    ReadOnly = FALSE
    CacheWarmedUp = TRUE
    EdgeOf <- EdgeTc
    VsEnvs = {e1}
    ApiMayFail = FALSE
    QuotaOf <- QuotaTc
    PortsOf <- PortsTc
    MaxEvents = 2

SPECIFICATION Spec

INVARIANT TrafficConfigCacheCurrent
