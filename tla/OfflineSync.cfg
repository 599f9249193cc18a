SPECIFICATION Spec
CONSTANTS
    None = None
    o1 = o1
    o2 = o2
    r1 = r1
    r2 = r2
    Ops = {o1, o2}
    Runs = {r1, r2}
    MaxFaults = 2
INVARIANTS
    TypeOK
    QueuedIsKept
    DiskFollowsSignal
    RepeatedOnlyByFault
PROPERTIES
    RunsEnd
