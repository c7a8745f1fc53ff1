SPECIFICATION FairSpec
CONSTANTS
    t1 = t1  t2 = t2  t3 = t3  m1 = m1  s1 = s1  e1 = e1  p1 = p1  p2 = p2
    None = None
    Thread = {t1, t2}
    Process = {p1}
    Mutex = {m1}
    Semaphore = {}
    Event = {e1}
    NumCores = 2
    NumPriorities = 2
    CoreOf <- TwoCores
    ProcessOf <- OneProcess
    MainThreads = {t1}
    InitPriority <- LowLow
    ResetType <- Pulse
    MaxCount <- MaxOne
    InitCount <- Zero
    WaitLists <- EventJoins
    TimedThreads = {t1}
    ReleaseCounts = {}
    SetPriorities = {}
    Controllable = {{t2}}
    Terminable = {p1}
    StaleHandles = FALSE
    MaxLockCount = 1
INVARIANTS TypeOK ExecutingIsRunning LevelsPrepared
PROPERTIES KernelCallEnds TimedWaitEnds SchedulerCatchesUp
