CONSTANTS
    f1 = f1  f2 = f2  f3 = f3
    Files = {f1, f2, f3}
    Concurrency = 2
    MaxDbErrors = 1
    MaxCrashes = 1
SPECIFICATION FairSpec
CHECK_DEADLOCK FALSE
INVARIANTS TypeOK CountsMatchItems FilesOutliveTheirTasks
PROPERTIES NothingStartsAfterCancel BatchSettles
