SPECIFICATION FairSpec
CONSTANTS
    u1 = u1  p1 = p1  r1 = r1  r2 = r2  l1 = l1  l2 = l2  d1 = d1
    NoPlan = NoPlan  NoUser = NoUser
    User = {u1}
    Plan = {p1}
    Owner <- OnePlan
    LogId = {l1, l2}
    Request = {r1, r2}
    Client <- Overlapping
    Eraser = {d1}
    PipelineLimit = 1
    MaxCrashes = 1
    MaxDbFailures = 1
INVARIANTS ResultsOnlyOnCompleted ProcessingIsAttended WithdrawnOwnsNothing
PROPERTIES ImplementsLifecycle OneRunPerUser RunEnds EraseEnds
CHECK_DEADLOCK FALSE
