SPECIFICATION Spec
CONSTANTS
    t1 = t1  t2 = t2  t3 = t3  m1 = m1  s1 = s1  e1 = e1  p1 = p1  p2 = p2
    None = None
    Thread = {t1, t2, t3}
    Process = {p1, p2}
    Mutex = {m1}
    Semaphore = {s1}
    Event = {e1}
    NumCores = 2
    NumPriorities = 2
    CoreOf <- TwoCores
    ProcessOf <- TwoProcesses
    MainThreads = {t1, t3}
    InitPriority <- LowLow
    ResetType <- OneShot
    MaxCount <- MaxOne
    InitCount <- Zero
    WaitLists <- Mixed
    TimedThreads = {t1}
    ReleaseCounts = {1}
    SetPriorities = {}
    Controllable = {}
    Terminable = {p1}
    StaleHandles = FALSE
    MaxLockCount = 1
INVARIANTS NoLostWakeup WaitListsExact NoStaleTimeout NoPanic
            TerminationIsComplete
PROPERTIES OutcomeIsFinal CallsMakeProgress
