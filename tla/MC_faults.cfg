SPECIFICATION Spec

CONSTANTS
    s1 = s1
    Slots = {s1}
    RerunTargets = {}
    MaxConfirms = 2
    MaxOverlaps = 0
    MaxCrashes = 2
    MaxLostWrites = 3
    Durable = TRUE
    QueueConfigured = FALSE

INVARIANTS
    RecoverableRest
    HandedOverOnce

CHECK_DEADLOCK FALSE
