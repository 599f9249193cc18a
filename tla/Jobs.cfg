SPECIFICATION Spec
CONSTANTS
    None = None
    j1 = j1
    j2 = j2
    w1 = w1
    w2 = w2
    Jobs = {j1, j2}
    Workers = {w1, w2}
    Kinds <- KnownAndAny
    MaxAttempts <- OneAndThree
    QueueAttempts = 2
    MaxStalls = 1
    MaxAdds = 2
    MaxFaults = 2
INVARIANTS
    TypeOK
    InboxAgreesWithJob
    HandledAgainByFault
PROPERTIES
    DecisionIsFinal
    CompletedOnlyWhenRecorded
    JobsSettle
CHECK_DEADLOCK FALSE
