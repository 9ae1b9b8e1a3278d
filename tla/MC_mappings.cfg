SPECIFICATION Spec

CONSTANTS
    s1 = s1
    Slots = {s1}
    RerunTargets = {}
    MaxConfirms = 1
    MaxOverlaps = 0
    MaxCrashes = 0
    MaxLostWrites = 0
    Durable = TRUE
    QueueConfigured = FALSE

INVARIANTS
    MappingsWrittenOnce

CHECK_DEADLOCK FALSE
