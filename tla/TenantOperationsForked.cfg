SPECIFICATION FairSpec
CONSTANTS
    None = None
    t1 = t1
    t2 = t2
    k1 = k1
    k2 = k2
    c1 = c1
    c2 = c2
    c3 = c3
    o1 = o1
    Calls = {c1, o1}
    Onboardings = {o1}
    Tenants = {t1, t2}
    Keys = {k1, k2}
    TenantOf <- CallTenant
    KeyOf <- CallKey
    Requests <- FewRequests
    RedisConfigured = TRUE
    Production = TRUE
    Crashes = TRUE
    MaxCalls = 2
PROPERTIES
    ChainedUnderLocks
