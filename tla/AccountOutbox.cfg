SPECIFICATION FairSpec
CONSTANTS
    None = None
    r1 = r1
    r2 = r2
    r3 = r3
    p1 = p1
    acme = acme
    cash = cash
    bank = bank
    Requests = {r1, r2, r3}
    Processes = {p1}
    HomeOf <- AtFirst
    TenantOf <- AtAcme
    CodeOf <- TwoCash
    Charts = {{}, {r2}, {r1, r2}}
    Chart = {cash, bank}
    Pool = 2
    Batch = 2
    Times = {1, 2}
    Poisoned = {r3}
    Guards = {TRUE, FALSE}
    Failures = TRUE
    Crashes = TRUE
INVARIANTS
    AccountIsAnnounced
    MarkedIsPublished
    CodesAreUnique
PROPERTIES
    RequestsEnd
    PublishedUnlessBlocked
CHECK_DEADLOCK FALSE
