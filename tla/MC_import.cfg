SPECIFICATION FairSpec
CONSTANTS
    Jobs = {"j1", "j2"}
    Callers = {"c1"}
    RowsOf <- MCRowsOf
    BatchSize = 1
    MaxCancels = 1
    MaxFailures = 2
    MaxCrashes = 1
INVARIANTS
    RolledBackLeavesNothing
    CompletedIsWhole
PROPERTIES
    JobEnds
CHECK_DEADLOCK FALSE
