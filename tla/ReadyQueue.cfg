SPECIFICATION Spec
CONSTANTS
    Thread = {t1, t2}
    NumQueues = 4
    None = None
INVARIANTS
    ChainOK
    NothingStranded
    NoNullDereference
PROPERTIES
    ImplementsPriorityQueue
    LoopsTerminate
    WalksMakeProgress
