------------------------------ MODULE KernelSvc -------------------------------
(***************************************************************************)
(* The system calls on threads, processes and synchronization objects      *)
(* (core/hle/kernel/svc.cpp), thread termination (thread.cpp, process.cpp),*)
(* the wakeup timer, and the emulation loop that reschedules each core     *)
(* between two slices (core/core.cpp).                                     *)
(*                                                                         *)
(* A core runs guest code while executing[c]; guest code may make any call *)
(* the constants allow.  A call that fails without effect (a poll of a     *)
(* busy object, a mutex the caller does not hold, a count out of range) is *)
(* a stuttering step.                                                      *)
(***************************************************************************)
EXTENDS KernelWait

CONSTANTS
    WaitLists,         \* [Thread -> SUBSET Seq(Object)], the lists a thread waits on
    TimedThreads,      \* threads that pass timeouts
    ReleaseCounts,     \* the release_count values of ReleaseSemaphore
    SetPriorities,     \* the priorities given to SetThreadPriority
    Controllable,      \* the sets of threads ControlProcess stops or starts scheduling
    Terminable,        \* processes that exit or that somebody terminates
    StaleHandles,      \* may the handle of an exited process be passed again
    MaxLockCount       \* bound on recursive locking

ASSUME SvcAssumption ==
    /\ WaitLists \in [Thread -> SUBSET Seq(Object)]
    /\ TimedThreads \subseteq Thread
    /\ ReleaseCounts \subseteq Int
    /\ SetPriorities \subseteq Priority
    /\ Controllable \subseteq SUBSET Thread
    /\ Terminable \subseteq Process
    /\ StaleHandles \in BOOLEAN
    /\ MaxLockCount \in Nat

\* No process has been loaded.
Init ==
    /\ status = [t \in Thread |-> "None"]
    /\ nominal_priority = InitPriority
    /\ current_priority = InitPriority
    /\ held_mutexes = [t \in Thread |-> {}]
    /\ wait_objects = [t \in Thread |-> <<>>]
    /\ wakeup_callback = [t \in Thread |-> FALSE]
    /\ result = [t \in Thread |-> "None"]
    /\ can_schedule = [t \in Thread |-> TRUE]
    /\ wakeups = {}
    /\ waiting_threads = [o \in Object |-> <<>>]
    /\ lock_count = [m \in Mutex |-> 0]
    /\ holding_thread = [m \in Mutex |-> None]
    /\ mutex_priority = [m \in Mutex |-> 0]  \* not read before the first Acquire sets it
    /\ available_count = InitCount
    /\ signaled = [e \in Event |-> FALSE]
    /\ current_thread = [c \in Core |-> None]
    /\ ready_queue = [c \in Core |-> [p \in Priority |-> <<>>]]
    /\ prepared = [c \in Core |-> {}]
    /\ executing = [c \in Core |-> FALSE]
    /\ process_status = [p \in Process |-> "Created"]
    /\ thread_count = [p \in Process |-> 0]
    /\ running_core = None
    /\ sync = SyncIdle /\ stop = StopIdle /\ term = TermIdle
    /\ panic = {}

KernelIdle == sync.pc = "idle" /\ stop.pc = "idle" /\ term.pc = "idle"

\* The outer loops continue when the inner ones are done.
StopAt(pc) == panic = {} /\ sync.pc = "idle" /\ stop.pc = pc
TermAt(pc) == StopAt("idle") /\ term.pc = pc

\* The next call, timer event or reschedule may begin.
MayBegin == TermAt("idle")

\* Thread t, current on core c, makes a system call.  CallSVC asserts that the
\* process runs (svc.cpp 2396, a DEBUG_ASSERT): in a release build a thread that
\* still executes after its process has exited on another core goes on calling.
Calls(c, t) ==
    /\ MayBegin
    /\ executing[c] /\ current_thread[c] = t /\ t # None
    /\ process_status[ProcessOf[t]] = "Running"

ScanOf(o) == [SyncIdle EXCEPT !.pc = "scan", !.obj = o]

\* KernelSystem::CreateThread.  A main thread that is not made ready is put to
\* sleep at once by SetupMainThread, its only caller that does so.
NewThread(t, make_ready) ==
    LET p == InitPriority[t]
    IN  /\ prepared' = [prepared EXCEPT ![CoreOf[t]] = @ \cup {p}]
        /\ ready_queue' = IF make_ready THEN PushBack(ready_queue, t, p) ELSE ready_queue
        /\ status' = [status EXCEPT ![t] = IF make_ready THEN "Ready" ELSE "WaitSleep"]

\* Process::Run and SetupMainThread, called by the loader before the emulation
\* loop starts and by services that launch a title later.  The start of an
\* application may be delayed.
ProcessRun(t, delayed) ==
    /\ t \in MainThreads /\ process_status[ProcessOf[t]] = "Created"
    /\ MayBegin
    /\ thread_count' = [thread_count EXCEPT ![ProcessOf[t]] = @ + 1]
    /\ process_status' = [process_status EXCEPT ![ProcessOf[t]] = "Running"]
    /\ NewThread(t, ~delayed)
    /\ wakeups' = WakeAfterDelay(t, delayed)
    /\ UNCHANGED <<nominal_priority, current_priority, held_mutexes, wait_objects,
                   wakeup_callback, result, can_schedule, objectVars, current_thread, executing,
                   running_core, sync, stop, term, panic>>

-------------------------------------------------------------------------------
(* Waiting                                                                 *)

\* The handles t may pass name objects that exist.  MaxLockCount bounds how
\* often t locks a mutex it holds.
IsWaitList(t, list) ==
    /\ list \in WaitLists[t]
    /\ \A o \in Elems(list) \cap Thread : status[o] # "None"
    /\ \A m \in Elems(list) \cap held_mutexes[t] : lock_count[m] < MaxLockCount

Available(list, t) == {i \in 1 .. Len(list) : ~ShouldWait(list[i], t)}

\* WaitSynchronization1 and N when the objects (all of them, or the first
\* available one) can be acquired at once.
WaitAcquires(c, all, list) ==
    LET t == current_thread[c]
    IN  /\ Calls(c, t)
        /\ IsWaitList(t, list) /\ list # <<>>
        /\ \/ /\ all
              /\ Available(list, t) = 1 .. Len(list)
              /\ sync' = [SyncIdle EXCEPT !.pc = "acquire", !.thr = t, !.todo = list]
           \/ /\ ~all
              /\ \E i \in Available(list, t) :
                   /\ \A j \in Available(list, t) : i <= j
                   /\ sync' = [SyncIdle EXCEPT !.pc = "acquire", !.thr = t,
                                               !.todo = <<list[i]>>]
        /\ running_core' = c
        /\ UNCHANGED <<threadVars, objectVars, coreVars, process_status, thread_count,
                       stop, term, panic>>

\* The same calls when the thread has to wait, for ever or with a timeout.
WaitBlocks(c, all, list, timed) ==
    LET t == current_thread[c]
    IN  /\ Calls(c, t)
        /\ IsWaitList(t, list)
        /\ timed => t \in TimedThreads
        /\ IF all THEN Available(list, t) # 1 .. Len(list) ELSE Available(list, t) = {}
        /\ status' = [status EXCEPT ![t] = IF all THEN "WaitSynchAll" ELSE "WaitSynchAny"]
        /\ wait_objects' = [wait_objects EXCEPT ![t] = list]
        /\ wakeup_callback' = [wakeup_callback EXCEPT ![t] = TRUE]
        /\ result' = [result EXCEPT ![t] = "Timeout"]
        /\ wakeups' = WakeAfterDelay(t, timed)
        /\ executing' = EndSlice(c)
        /\ sync' = IF list = <<>> THEN SyncIdle
                   ELSE [SyncIdle EXCEPT !.pc = "add", !.thr = t, !.todo = list]
        /\ running_core' = c
        /\ UNCHANGED <<nominal_priority, current_priority, held_mutexes, can_schedule,
                       objectVars, current_thread, ready_queue, prepared, process_status,
                       thread_count, stop, term, panic>>

SleepThread(c, timed) ==
    LET t == current_thread[c]
    IN  /\ Calls(c, t)
        /\ status' = [status EXCEPT ![t] = "WaitSleep"]
        /\ wakeups' = WakeAfterDelay(t, timed)
        /\ executing' = EndSlice(c)
        /\ UNCHANGED <<nominal_priority, current_priority, held_mutexes, wait_objects,
                       wakeup_callback, result, can_schedule, objectVars, current_thread,
                       ready_queue, prepared, callVars>>

\* The thread is still waiting for objects when its wakeup event fires.
WaitTimesOut(t) == status[t] \in Waiting

\* SVC_SyncCallback, reason Timeout.
ResultAfterTimeoutAlways(t) == [result EXCEPT ![t] = "Timeout"]  \* mutant: also when woken
ResultAfterTimeout(t) ==
    IF WaitTimesOut(t) /\ wakeup_callback[t] THEN [result EXCEPT ![t] = "Timeout"] ELSE result

\* ThreadManager::ThreadWakeupCallback, run by the timer of a core between
\* slices.
TimeoutFires(t) ==
    /\ MayBegin /\ t \in wakeups
    /\ wakeups' = wakeups \ {t}
    /\ running_core' = None
    /\ result' = ResultAfterTimeout(t)
    /\ IF WaitTimesOut(t)
       THEN /\ sync' = [SyncIdle EXCEPT !.pc = "remove", !.thr = t, !.todo = wait_objects[t]]
            /\ UNCHANGED <<status, wakeup_callback, ready_queue, executing, panic>>
       ELSE /\ ResumeFromWait(t)
            /\ UNCHANGED sync
    /\ UNCHANGED <<nominal_priority, current_priority, held_mutexes, wait_objects, can_schedule,
                   objectVars, current_thread, prepared, process_status, thread_count, stop,
                   term>>

-------------------------------------------------------------------------------
(* Threads                                                                 *)

CreateThread(c, t) ==
    LET caller == current_thread[c]
    IN  /\ Calls(c, caller)
        /\ t \notin MainThreads /\ status[t] = "None" /\ ProcessOf[t] = ProcessOf[caller]
        /\ NewThread(t, TRUE)
        /\ thread_count' = [thread_count EXCEPT ![ProcessOf[t]] = @ + 1]
        /\ executing' = EndSlice(c)
        /\ UNCHANGED <<nominal_priority, current_priority, held_mutexes, wait_objects,
                       wakeup_callback, result, can_schedule, wakeups, objectVars,
                       current_thread, process_status, running_core, sync, stop, term, panic>>

\* SetPriority, UpdatePriority, then the mutexes the thread is waiting for.
SetThreadPriority(c, t, p) ==
    LET best    == Best({p} \cup {mutex_priority[m] : m \in held_mutexes[t]})
        pending == {m \in Mutex : t \in Elems(waiting_threads[m])}
    IN  /\ Calls(c, current_thread[c])
        /\ status[t] # "None"
        /\ nominal_priority' = [nominal_priority EXCEPT ![t] = p]
        /\ current_priority' = [current_priority EXCEPT ![t] = best]
        /\ ready_queue' = IF status[t] = "Ready"
                          THEN PushBack(Dequeue(ready_queue, t, current_priority[t]), t, best)
                          ELSE ready_queue
        /\ prepared' = [prepared EXCEPT ![CoreOf[t]] = @ \cup {p, best}]
        /\ executing' = EndSlice(c)
        /\ sync' = IF pending = {} THEN SyncIdle
                   ELSE [SyncIdle EXCEPT !.pc = "update", !.muts = pending]
        /\ running_core' = c
        /\ UNCHANGED <<status, held_mutexes, wait_objects, wakeup_callback, result, can_schedule,
                       wakeups, objectVars, current_thread, process_status, thread_count,
                       stop, term, panic>>

\* Thread::Stop up to and including the start of WakeupAllWaitingThreads.
BeginStop(t) ==
    /\ wakeups' = CancelWakeup(t)
    /\ ready_queue' = IF status[t] = "Ready"
                      THEN Dequeue(ready_queue, t, current_priority[t]) ELSE ready_queue
    /\ status' = [status EXCEPT ![t] = "Dead"]
    /\ sync' = ScanOf(t)
    /\ stop' = [pc |-> "detach", thr |-> t, muts |-> {}]
    /\ UNCHANGED <<nominal_priority, current_priority, held_mutexes, wait_objects,
                   wakeup_callback, result, can_schedule, objectVars, current_thread,
                   prepared, process_status, thread_count, panic>>

ExitThread(c) ==
    /\ Calls(c, current_thread[c])
    /\ BeginStop(current_thread[c])
    /\ executing' = EndSlice(c)
    /\ running_core' = c
    /\ UNCHANGED term

\* The thread leaves the waiting lists it is still on.
StopDetach ==
    /\ StopAt("detach")
    /\ sync' = IF wait_objects[stop.thr] = <<>> THEN SyncIdle
               ELSE [SyncIdle EXCEPT !.pc = "detach", !.thr = stop.thr,
                                     !.todo = wait_objects[stop.thr]]
    /\ stop' = [stop EXCEPT !.pc = "mutexes", !.muts = held_mutexes[stop.thr]]
    /\ UNCHANGED <<threadVars, objectVars, coreVars, process_status, thread_count,
                   running_core, term, panic>>

\* The mutexes left to release after m.
StillToReleaseSame(m) == stop.muts  \* mutant: the iterator does not advance
StillToRelease(m) == stop.muts \ {m}

\* ReleaseThreadMutexes, one mutex.  held_mutexes is ordered by address.
StopRelease ==
    /\ StopAt("mutexes")
    /\ \E m \in stop.muts :
         /\ lock_count' = [lock_count EXCEPT ![m] = 0]
         /\ holding_thread' = [holding_thread EXCEPT ![m] = None]
         /\ sync' = ScanOf(m)
         /\ stop' = [stop EXCEPT !.muts = StillToRelease(m)]
    /\ UNCHANGED <<threadVars, waiting_threads, mutex_priority, available_count, signaled,
                   coreVars, process_status, thread_count, running_core, term, panic>>

StopDone ==
    /\ StopAt("mutexes") /\ stop.muts = {}
    /\ held_mutexes' = [held_mutexes EXCEPT ![stop.thr] = {}]
    /\ thread_count' = [thread_count EXCEPT ![ProcessOf[stop.thr]] = @ - 1]
    /\ stop' = StopIdle
    /\ UNCHANGED <<status, nominal_priority, current_priority, wait_objects, wakeup_callback,
                   result, can_schedule, wakeups, objectVars, coreVars, process_status,
                   running_core, sync, term, panic>>

-------------------------------------------------------------------------------
(* Processes                                                               *)

\* ExitProcess, or TerminateProcess with a handle.
TerminateProcess(c, p) ==
    LET t == current_thread[c]
    IN  /\ Calls(c, t)
        /\ p \in Terminable
        /\ process_status[p] # "Created"
        /\ process_status[p] = "Exited" => StaleHandles
        /\ IF process_status[p] = "Exited"
           THEN /\ panic' = panic \cup {"Process has already exited"}
                /\ UNCHANGED <<process_status, term>>
           ELSE /\ process_status' = [process_status EXCEPT ![p] = "Exited"]
                /\ term' = [pc |-> "cores", process |-> p, core |-> 0]
                /\ UNCHANGED panic
        /\ running_core' = c
        /\ UNCHANGED <<threadVars, objectVars, coreVars, thread_count, sync, stop>>

\* Mutants: the current thread is stopped like the others; only waiting threads
\* are stopped.
VictimsWithCurrent == {t \in Thread : /\ CoreOf[t] = term.core /\ ProcessOf[t] = term.process
                                      /\ status[t] \notin {"None", "Dead"}}

VictimsWaiting == {t \in Thread : /\ CoreOf[t] = term.core /\ ProcessOf[t] = term.process
                                  /\ t # current_thread[term.core]
                                  /\ status[t] \in Waiting}

\* The threads TerminateProcessThreads finds in the list of core term.core.
Victims == {t \in Thread : /\ CoreOf[t] = term.core /\ ProcessOf[t] = term.process
                           /\ t # current_thread[term.core]
                           /\ status[t] \notin {"None", "Dead"}}

TermVictim ==
    /\ TermAt("cores") /\ term.core < NumCores
    /\ \E t \in Victims : BeginStop(t)
    /\ UNCHANGED <<executing, running_core, term>>

\* The current thread of the core is killed last, also when it is dead already.
TermCurrent ==
    /\ TermAt("cores") /\ term.core < NumCores
    /\ Victims = {}
    /\ LET t == current_thread[term.core]
       IN  IF t # None /\ ProcessOf[t] = term.process
           THEN BeginStop(t) /\ PrepareReschedule
           ELSE UNCHANGED <<threadVars, objectVars, coreVars, process_status, thread_count,
                            sync, stop, panic>>
    /\ term' = [term EXCEPT !.core = @ + 1]
    /\ UNCHANGED running_core

TermDone ==
    /\ TermAt("cores") /\ term.core = NumCores
    /\ term' = TermIdle
    /\ UNCHANGED <<threadVars, objectVars, coreVars, process_status, thread_count,
                   running_core, sync, stop, panic>>

\* PROCESSOP_SCHEDULE_THREADS_WITHOUT_TLS_MAGIC; S are the threads whose local
\* storage does not hold the magic value.
ControlProcess(c, p, S, stopped) ==
    LET t == current_thread[c]
        T == {u \in S : ProcessOf[u] = p /\ u # t /\ status[u] \notin {"None", "Dead"}}
    IN  /\ Calls(c, t)
        /\ can_schedule' = [u \in Thread |-> IF u \in T THEN ~stopped ELSE can_schedule[u]]
        /\ UNCHANGED <<status, nominal_priority, current_priority, held_mutexes, wait_objects,
                       wakeup_callback, result, wakeups, objectVars, coreVars, callVars>>

-------------------------------------------------------------------------------
(* Mutexes, semaphores, events                                             *)

\* The mutexes t holds after it released m.
HeldAfterReleaseAll(t, m) == held_mutexes[t]  \* mutant: m is not erased
HeldAfterRelease(t, m) == held_mutexes[t] \ {m}

ReleaseMutex(c, m) ==
    LET t    == current_thread[c]
        held == HeldAfterRelease(t, m)
    IN  /\ Calls(c, t)
        /\ holding_thread[m] = t /\ lock_count[m] > 0
        /\ lock_count' = [lock_count EXCEPT ![m] = @ - 1]
        /\ IF lock_count[m] = 1
           THEN /\ held_mutexes' = [held_mutexes EXCEPT ![t] = held]
                /\ UpdatePriority(t, held, mutex_priority)
                /\ holding_thread' = [holding_thread EXCEPT ![m] = None]
                /\ executing' = EndSlice(c)
                /\ sync' = ScanOf(m)
           ELSE UNCHANGED <<held_mutexes, prioVars, holding_thread, executing, sync>>
        /\ running_core' = c
        /\ UNCHANGED <<status, nominal_priority, wait_objects, wakeup_callback, result,
                       can_schedule, wakeups, waiting_threads, mutex_priority,
                       available_count, signaled, current_thread, process_status,
                       thread_count, stop, term, panic>>

ReleaseSemaphore(c, s, n) ==
    /\ Calls(c, current_thread[c])
    /\ MaxCount[s] >= n + available_count[s]
    /\ available_count' = [available_count EXCEPT ![s] = @ + n]
    /\ sync' = ScanOf(s)
    /\ running_core' = c
    /\ UNCHANGED <<threadVars, waiting_threads, lock_count, holding_thread, mutex_priority,
                   signaled, coreVars, process_status, thread_count, stop, term, panic>>

Signal(e) ==
    /\ signaled' = [signaled EXCEPT ![e] = TRUE]
    /\ sync' = ScanOf(e)
    /\ UNCHANGED <<threadVars, waiting_threads, lock_count, holding_thread, mutex_priority,
                   available_count, coreVars, process_status, thread_count, stop, term, panic>>

SignalEvent(c, e) ==
    /\ Calls(c, current_thread[c])
    /\ Signal(e)
    /\ running_core' = c

\* A service signals an event from a timing callback, between slices.
ServiceSignal(e) ==
    /\ MayBegin
    /\ Signal(e)
    /\ running_core' = None

ClearEvent(c, e) ==
    /\ Calls(c, current_thread[c])
    /\ signaled' = [signaled EXCEPT ![e] = FALSE]
    /\ UNCHANGED <<threadVars, waiting_threads, lock_count, holding_thread, mutex_priority,
                   available_count, coreVars, callVars>>

-------------------------------------------------------------------------------
Reschedule(c) == MayBegin /\ RescheduleCore(c)

StopStep == StopDetach \/ StopRelease \/ StopDone
TermStep == TermVictim \/ TermCurrent \/ TermDone
KernelStep == SyncStep \/ StopStep \/ TermStep

\* WaitSynchronization1 and N, with one of the lists the thread may pass.
WaitReturns(c) ==
    \E t \in Thread : \E list \in WaitLists[t] : \E all \in BOOLEAN :
      current_thread[c] = t /\ WaitAcquires(c, all, list)
WaitBegins(c) ==
    \E t \in Thread : \E list \in WaitLists[t] : \E all, timed \in BOOLEAN :
      current_thread[c] = t /\ WaitBlocks(c, all, list, timed)

ThreadCall(c) ==
    \/ WaitReturns(c) \/ WaitBegins(c)
    \/ \E timed \in BOOLEAN : SleepThread(c, timed)
    \/ \E t \in Thread : CreateThread(c, t)
    \/ \E t \in Thread, p \in SetPriorities : SetThreadPriority(c, t, p)
    \/ ExitThread(c)
    \/ \E p \in Process : TerminateProcess(c, p)
    \/ \E p \in Process, S \in Controllable, stopped \in BOOLEAN :
         ControlProcess(c, p, S, stopped)
    \/ \E m \in Mutex : ReleaseMutex(c, m)
    \/ \E s \in Semaphore, n \in ReleaseCounts : ReleaseSemaphore(c, s, n)
    \/ \E e \in Event : SignalEvent(c, e)
    \/ \E e \in Event : ClearEvent(c, e)

Next ==
    \/ KernelStep
    \/ \E c \in Core : ThreadCall(c) \/ Reschedule(c)
    \/ \E t \in Thread : TimeoutFires(t)
    \/ \E t \in Thread, delayed \in BOOLEAN : ProcessRun(t, delayed)
    \/ \E e \in Event : ServiceSignal(e)

Spec == Init /\ [][Next]_vars
===============================================================================
