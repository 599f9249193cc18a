SPECIFICATION Spec
CONSTANTS
    None = None
    c1 = c1
    c2 = c2
    m1 = m1
    k1 = k1
    k2 = k2
    Calls = {c1, c2}
    Drills = {c2}
    Keys = {k1, k2}
    KeyOf <- OwnKeys
    Migrations = {m1}
    StartVersion = 2
    StartGens = {3}
    Lifecycle = {"LEGAL_HOLD"}
    MaxVersion = 3
    Failing = {"recover"}
    Outages = {"flush"}
    Crashes = FALSE
INVARIANTS
    CopiesAgree
    FreezeLifted
PROPERTIES
    ImplementsFence
    RouteSwitchedUnderFence
    GenerationsAdvance
