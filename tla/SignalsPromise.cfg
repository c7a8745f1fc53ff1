SPECIFICATION Spec
CONSTANTS
    MaxAsync = 1
    MaxTimers = 1
    MayDump = TRUE
    RequestLimit = 0
    CloseLimit = 1
INVARIANTS PromiseKept
