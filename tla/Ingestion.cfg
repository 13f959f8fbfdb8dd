SPECIFICATION Spec
CONSTANTS
    Codes = {"m1", "m2"}
    Times = {"t1", "t2"}
    Files <- Crossed
    MaxImports = 2
    MaxMeters = 3
    MaxDeletes = 1
    MaxPosts = 1
    MaxFaults = 1
INVARIANTS BatchCountsAreTrue SuccessMeansStored ErrorLeavesNothing
PROPERTIES HistoryInOneMeter EveryUploadEnds
CHECK_DEADLOCK FALSE
