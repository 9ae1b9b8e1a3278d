CONSTANTS
    f1 = f1  f2 = f2  f3 = f3
    Files = {f1, f2}
    Concurrency = 2
    MaxDbErrors = 0
    MaxCrashes = 0
SPECIFICATION Spec
CHECK_DEADLOCK FALSE
INVARIANT SuccessSatisfiesIngestion
