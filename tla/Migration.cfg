SPECIFICATION Spec
CONSTANTS
    None = None
    c1 = c1
    c2 = c2
    c3 = c3
    c4 = c4
    t1 = t1
    t2 = t2
    k1 = k1
    k2 = k2
    Calls = {c1, c2, c3, c4}
    Tenants = {t1, t2}
    TenantOf <- TwoTenants
    Keys = {k1, k2}
    KeyOf <- RetryAndOthers
    StartLevel = 3
    Pending = 1
    StartRoute <- PublishedOnce
    ControlVersion = 2
    Failing = TRUE
    Crashes = TRUE
    MaxCalls = 2
PROPERTIES
    RevertsOncePerOperation
    UndoneOnlyWhenRolledBack
    ImplementsLedger
