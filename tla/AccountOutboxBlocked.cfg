SPECIFICATION FairSpec
CONSTANTS
    None = None
    r1 = r1
    r2 = r2
    r3 = r3
    p1 = p1
    acme = acme
    cash = cash
    bank = bank
    Requests = {r1, r2, r3}
    Processes = {p1}
    HomeOf <- AtFirst
    TenantOf <- AtAcme
    CodeOf <- TwoCash
    Charts = {{}}
    Chart = {cash, bank}
    Pool = 2
    Batch = 1
    Times = {1, 2}
    Poisoned = {}
    Guards = {TRUE}
    Failures = FALSE
    Crashes = FALSE
PROPERTIES
    EventuallyPublished
CHECK_DEADLOCK FALSE
