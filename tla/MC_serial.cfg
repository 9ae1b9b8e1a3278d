SPECIFICATION FairSpec

CONSTANTS
    s1 = s1
    Slots = {s1}
    RerunTargets = {"ingest_node", "preprocess_node"}
    MaxConfirms = 2
    MaxOverlaps = 0
    MaxCrashes = 1
    MaxLostWrites = 0
    Durable = FALSE
    QueueConfigured = TRUE

INVARIANTS
    TypeOK
    RestingAgreement
    DecisionMeetsItsGate

PROPERTIES
    EndedStays
    RunningIsAttended
    LostThreadIsReported

CHECK_DEADLOCK FALSE
