SPECIFICATION Spec
CONSTANTS
    t1 = t1  t2 = t2  t3 = t3  m1 = m1  s1 = s1  e1 = e1  p1 = p1  p2 = p2
    None = None
    Thread = {t1, t2, t3}
    Process = {p1}
    Mutex = {m1}
    Semaphore = {}
    Event = {}
    NumCores = 1
    NumPriorities = 3
    CoreOf <- OneCore
    ProcessOf <- OneProcess
    MainThreads = {t3}
    InitPriority <- Ascending
    ResetType <- OneShot
    MaxCount <- MaxOne
    InitCount <- Zero
    WaitLists <- MutexOnly
    TimedThreads = {t1}
    ReleaseCounts = {}
    SetPriorities = {1}
    Controllable = {}
    Terminable = {}
    StaleHandles = FALSE
    MaxLockCount = 2
INVARIANTS NoPriorityInversion MutexOwnership BoostEnds ReadyExactlyQueued
