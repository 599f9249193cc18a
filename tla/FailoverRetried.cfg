SPECIFICATION FairSpec
CONSTANTS
    None = None
    c1 = c1
    c2 = c2
    m1 = m1
    k1 = k1
    k2 = k2
    Calls = {c1, c2}
    Drills = {}
    Keys = {k1}
    KeyOf <- Retry
    Migrations = {}
    StartVersion = 2
    StartGens = {0, 3}
    Lifecycle = {"ARCHIVED", "PURGED"}
    MaxVersion = 4
    Failing = {"check", "recover", "record"}
    Outages = {"flush", "journal"}
    Crashes = TRUE
PROPERTIES
    SwitchesOncePerKey
    ImplementsLedger
    CallsEnd
