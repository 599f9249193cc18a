SPECIFICATION FairSpec
CONSTANTS
    None = None
    p1 = p1
    p2 = p2
    p3 = p3
    t1 = t1
    Posts = {p1, p2, p3}
    Tenants = {t1}
    TenantOf <- Thrice
    Failures = TRUE
    Crashes = TRUE
INVARIANTS
    ProvisionedOnce
    SeededAfterSwitching
PROPERTIES
    ImplementsLedger
    OutcomeRecorded
    LockFreed
