SPECIFICATION Spec
CONSTANTS
    MaxAsync = 1
    MaxTimers = 1
    MayDump = FALSE
    RequestLimit = 0
    CloseLimit = 1
INVARIANTS NoMutualWait
CHECK_DEADLOCK FALSE
