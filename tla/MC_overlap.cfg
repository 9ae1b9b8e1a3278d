SPECIFICATION Spec

CONSTANTS
    s1 = s1
    s2 = s2
    Slots = {s1, s2}
    RerunTargets = {}
    MaxConfirms = 2
    MaxOverlaps = 1
    MaxCrashes = 1
    MaxLostWrites = 0
    Durable = TRUE
    QueueConfigured = TRUE

SYMMETRY SlotSymmetry

INVARIANTS
    ConfirmationSpentOnce
    CompleteMeansApplied
    ColumnsBeforeRecords

PROPERTIES
    HandoverAsConfirmed

CHECK_DEADLOCK FALSE
