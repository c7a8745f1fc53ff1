----------------------------- MODULE KernelThread -----------------------------
(***************************************************************************)
(* The kernel's state and the thread operations every other part is built  *)
(* on (core/hle/kernel/thread.cpp): priorities, the ready queue, resuming  *)
(* a thread, and the scheduler of a core.                                  *)
(*                                                                         *)
(* The whole kernel runs on the emulation thread, so a kernel call is not  *)
(* interrupted.  Its loops (over waiters, wait objects, held mutexes and   *)
(* the threads of a process) are nevertheless taken one iteration per step:*)
(* the registers sync, stop and term say how far the call in progress has  *)
(* got, and while one is busy only its next iteration can happen.          *)
(***************************************************************************)
EXTENDS Integers, FiniteSets, Sequences

CONSTANTS
    Thread, Process, Mutex, Semaphore, Event,
    NumCores,       \* cores are 0 .. NumCores - 1
    NumPriorities,  \* priorities are 0 (best) .. NumPriorities - 1
    CoreOf,         \* [Thread -> Core], processor_id
    ProcessOf,      \* [Thread -> Process], owner_process
    MainThreads,    \* the main threads of the processes (SetupMainThread)
    InitPriority,   \* [Thread -> Priority], the priority a thread is created with
    ResetType,      \* [Event -> {"OneShot", "Sticky", "Pulse"}]
    MaxCount,       \* [Semaphore -> Nat], max_count
    InitCount,      \* [Semaphore -> Nat], the initial available_count
    None            \* nullptr

Core     == 0 .. NumCores - 1
Priority == 0 .. NumPriorities - 1
ThreadPrioLowestOffByOne == NumPriorities  \* mutant: one past the last level
ThreadPrioLowest == NumPriorities - 1
Object   == Mutex \cup Semaphore \cup Event \cup Thread

ASSUME KernelAssumption ==
    /\ NumCores \in Nat \ {0}
    /\ NumPriorities \in Nat \ {0}
    /\ CoreOf \in [Thread -> Core]
    /\ ProcessOf \in [Thread -> Process]
    /\ MainThreads \subseteq Thread
    /\ InitPriority \in [Thread -> Priority]
    /\ ResetType \in [Event -> {"OneShot", "Sticky", "Pulse"}]
    /\ MaxCount \in [Semaphore -> Nat]
    /\ InitCount \in [Semaphore -> Nat]
    /\ \A s \in Semaphore : InitCount[s] <= MaxCount[s]
    /\ None \notin Object

\* The kinds of objects are distinct.
ASSUME KindsAssumption ==
    /\ Mutex \cap (Semaphore \cup Event \cup Thread) = {}
    /\ Semaphore \cap (Event \cup Thread) = {}
    /\ Event \cap Thread = {}

VARIABLES
    \* threads
    status, nominal_priority, current_priority, held_mutexes, wait_objects,
    wakeup_callback,   \* is a wakeup callback set
    result,            \* r0 of a thread that blocked: what its wait returned
    can_schedule,
    wakeups,           \* threads with a scheduled ThreadWakeupCallback event
    \* wait objects
    waiting_threads, lock_count, holding_thread, mutex_priority,
    available_count, signaled,
    \* per core
    current_thread,
    ready_queue,       \* [Core -> [Priority -> Seq(Thread)]]
    prepared,          \* priorities ready_queue.prepare was called for
    executing,         \* the core may run guest code of current_thread
    \* processes, and the kernel call in progress
    process_status,
    thread_count,      \* threads the process' resource_limit counts
    running_core,      \* the core whose thread made the call, None for an event
    sync, stop, term,  \* the loops in progress, innermost first
    panic              \* assertions that failed; the emulator stops at the first

threadVars == <<status, nominal_priority, current_priority, held_mutexes, wait_objects,
                wakeup_callback, result, can_schedule, wakeups>>
objectVars == <<waiting_threads, lock_count, holding_thread, mutex_priority,
                available_count, signaled>>
coreVars   == <<current_thread, ready_queue, prepared, executing>>
callVars   == <<process_status, thread_count, running_core, sync, stop, term, panic>>
vars       == <<threadVars, objectVars, coreVars, callVars>>

\* ThreadStatus, with "None" for a thread that does not exist yet.
Waiting   == {"WaitSynchAny", "WaitSynchAll"}
Resumable == Waiting \cup {"WaitSleep", "Dormant"}
Status    == Resumable \cup {"None", "Ready", "Running", "Dead"}

\* The assertions a call may fail.
Assertion == {"wakeup_callback != nullptr", "already resumed or dead",
              "Thread must be ready to become running.",
              "Inconsistent thread statuses in waiting_threads", "object unavailable!",
              "Process has already exited"}

SyncIdle == [pc |-> "idle", obj |-> None, thr |-> None, todo |-> <<>>, muts |-> {}]
StopIdle == [pc |-> "idle", thr |-> None, muts |-> {}]
TermIdle == [pc |-> "idle", process |-> None, core |-> 0]

TypeOK ==
    /\ status \in [Thread -> Status]
    /\ nominal_priority \in [Thread -> Priority]
    /\ current_priority \in [Thread -> Priority]
    /\ held_mutexes \in [Thread -> SUBSET Mutex]
    /\ wait_objects \in [Thread -> Seq(Object)]
    /\ wakeup_callback \in [Thread -> BOOLEAN]
    /\ result \in [Thread -> {"None", "Success", "Timeout"}]
    /\ can_schedule \in [Thread -> BOOLEAN]
    /\ wakeups \in SUBSET Thread
    /\ waiting_threads \in [Object -> Seq(Thread)]
    /\ lock_count \in [Mutex -> Nat]
    /\ holding_thread \in [Mutex -> Thread \cup {None}]
    /\ mutex_priority \in [Mutex -> Priority]
    /\ available_count \in [Semaphore -> Int]
    /\ signaled \in [Event -> BOOLEAN]
    /\ current_thread \in [Core -> Thread \cup {None}]
    /\ ready_queue \in [Core -> [Priority -> Seq(Thread)]]
    /\ prepared \in [Core -> SUBSET Priority]
    /\ executing \in [Core -> BOOLEAN]
    /\ process_status \in [Process -> {"Created", "Running", "Exited"}]
    /\ thread_count \in [Process -> Int]
    /\ running_core \in Core \cup {None}
    /\ sync \in [pc : {"idle", "scan", "acquire", "remove", "detach", "add", "update"},
                 obj : Object \cup {None}, thr : Thread \cup {None},
                 todo : Seq(Object), muts : SUBSET Mutex]
    /\ stop \in [pc : {"idle", "detach", "mutexes"}, thr : Thread \cup {None},
                 muts : SUBSET Mutex]
    /\ term \in [pc : {"idle", "cores"}, process : Process \cup {None}, core : Nat]
    /\ panic \in SUBSET Assertion

-------------------------------------------------------------------------------
(* Helpers on sequences and priorities                                     *)

Elems(s) == {s[i] : i \in 1 .. Len(s)}

\* Removal of a value that occurs at most once.
Without(s, x) ==
    IF \E i \in 1 .. Len(s) : s[i] = x
    THEN LET k == CHOOSE i \in 1 .. Len(s) : s[i] = x
         IN  [j \in 1 .. Len(s) - 1 |-> IF j < k THEN s[j] ELSE s[j + 1]]
    ELSE s

Reversed(s) == [i \in 1 .. Len(s) |-> s[Len(s) + 1 - i]]

\* The best, that is lowest, of a set of priorities.
Best(S) == CHOOSE p \in S : \A q \in S : p <= q

PushBack(q, t, p)  == [q EXCEPT ![CoreOf[t]][p] = Append(@, t)]
PushFront(q, t, p) == [q EXCEPT ![CoreOf[t]][p] = <<t>> \o @]
Dequeue(q, t, p)   == [q EXCEPT ![CoreOf[t]][p] = Without(@, t)]

-------------------------------------------------------------------------------
(* Thread operations: conjuncts that say what they change                  *)

\* KernelSystem::PrepareReschedule ends the slice of the core that made the
\* call; other cores run on.  In an event no core is executing.
PrepareReschedule ==
    executing' = IF running_core = None THEN executing
                 ELSE [executing EXCEPT ![running_core] = FALSE]

\* The slice of the core that made the call ends, and the core is rescheduled
\* before it runs on.
EndSliceNot(c) == executing  \* mutant: no PrepareReschedule
EndSlice(c) == [executing EXCEPT ![c] = FALSE]

\* UnscheduleEvent of the thread's wakeup.
CancelWakeupNot(t) == wakeups  \* mutant: the event stays scheduled
CancelWakeupAll(t) == {}  \* mutant: the events of other threads are cancelled too
CancelWakeup(t) == wakeups \ {t}

\* Thread::WakeAfterDelay; a thread that waits for ever gets no wakeup event.
WakeAfterDelay(t, timed) == IF timed THEN wakeups \cup {t} ELSE wakeups

\* Mutants: move forgets to remove the thread from its old level; the new
\* level is not prepared.
BoostPriorityNoRemove(t, p) ==
    /\ ready_queue' = IF status[t] = "Ready" THEN PushBack(ready_queue, t, p) ELSE ready_queue
    /\ prepared' = [prepared EXCEPT ![CoreOf[t]] = @ \cup {p}]
    /\ current_priority' = [current_priority EXCEPT ![t] = p]

BoostPriorityUnprepared(t, p) ==
    /\ ready_queue' = IF status[t] = "Ready"
                      THEN PushBack(Dequeue(ready_queue, t, current_priority[t]), t, p)
                      ELSE ready_queue
    /\ current_priority' = [current_priority EXCEPT ![t] = p]
    /\ UNCHANGED prepared

\* Thread::BoostPriority.  A ready thread moves to the back of its new level,
\* also when the level is the old one.
BoostPriority(t, p) ==
    /\ ready_queue' = IF status[t] = "Ready"
                      THEN PushBack(Dequeue(ready_queue, t, current_priority[t]), t, p)
                      ELSE ready_queue
    /\ prepared' = [prepared EXCEPT ![CoreOf[t]] = @ \cup {p}]
    /\ current_priority' = [current_priority EXCEPT ![t] = p]

\* The priority Thread::UpdatePriority gives t when it holds the mutexes held
\* and these have the priorities mp.
Inherited(t, held, mp) == Best({nominal_priority[t]} \cup {mp[m] : m \in held})

\* Mutant: a boost is never taken back.
UpdatePriorityRaises(t, held, mp) ==
    BoostPriority(t, Best({current_priority[t], Inherited(t, held, mp)}))

UpdatePriority(t, held, mp) == BoostPriority(t, Inherited(t, held, mp))

\* Thread::ResumeFromWait.  wait_objects has been cleared by every caller.
ResumeFromWait(t) ==
    IF status[t] \in Resumable
    THEN /\ wakeup_callback' = [wakeup_callback EXCEPT ![t] = FALSE]
         /\ ready_queue' = PushBack(ready_queue, t, current_priority[t])
         /\ status' = [status EXCEPT ![t] = "Ready"]
         /\ PrepareReschedule
         /\ UNCHANGED panic
    ELSE /\ panic' = CASE status[t] = "Ready" /\ ~wakeup_callback[t] -> panic
                       [] status[t] = "Ready" /\ wakeup_callback[t] ->
                              panic \cup {"wakeup_callback != nullptr"}
                       [] OTHER -> panic \cup {"already resumed or dead"}
         /\ UNCHANGED <<wakeup_callback, ready_queue, status, executing>>

-------------------------------------------------------------------------------
(* The scheduler of a core                                                 *)

IsRunning(t) == t # None /\ status[t] = "Running"

\* PopNextReadyThread only looks at levels better than a running current
\* thread's.
PopLimitOffByOne(c) == IF IsRunning(current_thread[c])  \* mutant: skips the worst level
                       THEN current_priority[current_thread[c]] ELSE ThreadPrioLowest

PopLimit(c) == IF IsRunning(current_thread[c])
               THEN current_priority[current_thread[c]] ELSE NumPriorities

\* The thread at position i of level p is the first that may be scheduled.
IsNext(c, p, i) ==
    /\ p < PopLimit(c)
    /\ can_schedule[ready_queue[c][p][i]]
    /\ \A j \in 1 .. i - 1 : ~can_schedule[ready_queue[c][p][j]]
    /\ \A q \in Priority : q < p =>
         \A j \in 1 .. Len(ready_queue[c][q]) : ~can_schedule[ready_queue[c][q][j]]

\* Level s after its first i - 1 threads were popped, set aside in
\* unscheduled_ready_queue, and pushed back last popped first; i itself is
\* taken.
Popped(s, i) == SubSeq(s, i + 1, Len(s)) \o Reversed(SubSeq(s, 1, i - 1))

\* The queues of core c when the thread at position i of level p is taken.
AfterPop(c, p, i) ==
    [ready_queue EXCEPT ![c] = [q \in Priority |->
        IF q < p THEN Reversed(ready_queue[c][q])
        ELSE IF q = p THEN Popped(ready_queue[c][q], i)
        ELSE ready_queue[c][q]]]

\* The queues of core c when no thread is taken: everything in range was set
\* aside and pushed back.
AfterNoPop(c) ==
    [ready_queue EXCEPT ![c] = [q \in Priority |->
        IF q < PopLimit(c) THEN Reversed(ready_queue[c][q]) ELSE ready_queue[c][q]]]

\* ThreadManager::SwitchContext with the queues q PopNextReadyThread left.
SwitchContext(c, next, q) ==
    LET prev    == current_thread[c]
        yields  == IsRunning(prev)
        status1 == IF yields THEN [status EXCEPT ![prev] = "Ready"] ELSE status
        queue1  == IF yields THEN PushFront(q, prev, current_priority[prev]) ELSE q
    IN  /\ current_thread' = [current_thread EXCEPT ![c] = next]
        /\ executing' = [executing EXCEPT ![c] = next # None]
        /\ IF next = None
           THEN /\ status' = status1
                /\ ready_queue' = queue1
                /\ UNCHANGED <<wakeups, panic>>
           ELSE /\ panic' = IF status1[next] = "Ready" THEN panic
                            ELSE panic \cup {"Thread must be ready to become running."}
                /\ wakeups' = CancelWakeup(next)
                /\ ready_queue' = Dequeue(queue1, next, current_priority[next])
                /\ status' = [status1 EXCEPT ![next] = "Running"]

\* ThreadManager::Reschedule.  The emulation loop calls it for every core at
\* least once between two slices of that core.
RescheduleCore(c) ==
    /\ \/ \E p \in Priority : \E i \in 1 .. Len(ready_queue[c][p]) :
            /\ IsNext(c, p, i)
            /\ SwitchContext(c, ready_queue[c][p][i], AfterPop(c, p, i))
       \/ /\ \A p \in Priority : \A i \in 1 .. Len(ready_queue[c][p]) : ~IsNext(c, p, i)
          /\ SwitchContext(c, IF IsRunning(current_thread[c]) THEN current_thread[c] ELSE None,
                           AfterNoPop(c))
    /\ running_core' = None  \* only read during a kernel call, which sets it
    /\ UNCHANGED <<nominal_priority, current_priority, held_mutexes, wait_objects,
                   wakeup_callback, result, can_schedule, objectVars, prepared,
                   process_status, thread_count, sync, stop, term>>
===============================================================================
