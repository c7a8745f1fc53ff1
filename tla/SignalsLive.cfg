SPECIFICATION FairSpec
CONSTANTS
    MaxAsync = 1
    MaxTimers = 1
    MayDump = FALSE
    RequestLimit = 0
    CloseLimit = 1
PROPERTIES CloseEnds RequestEnds
