-------------------------------- MODULE Kernel --------------------------------
(***************************************************************************)
(* What the kernel promises to the guest and to itself.  The specification *)
(* with fairness, and the properties the runs check.                       *)
(***************************************************************************)
EXTENDS KernelSvc

\* A kernel call that was entered is executed to its end.  The emulation loop
\* comes back to every core and time advances also while cores idle, but a
\* call may be in progress in between: strong fairness.
Fairness ==
    /\ WF_vars(KernelStep)
    /\ \A c \in Core : SF_vars(Reschedule(c))
    /\ \A t \in Thread : SF_vars(TimeoutFires(t))

FairSpec == Spec /\ Fairness

-------------------------------------------------------------------------------
(* Waiting                                                                 *)

\* What thread t waits for is available to it.
Satisfiable(t) ==
    IF status[t] = "WaitSynchAll"
    THEN \A o \in Elems(wait_objects[t]) : ~ShouldWait(o, t)
    ELSE status[t] = "WaitSynchAny" /\ \E o \in Elems(wait_objects[t]) : ~ShouldWait(o, t)

\* No wakeup is lost: between kernel calls no thread sleeps on objects it could
\* have (WakeupAllWaitingThreads is called wherever an object may have become
\* available, and wakes everybody it can).
NoLostWakeup == KernelIdle => \A t \in Thread : ~Satisfiable(t)

\* Between kernel calls an object lists a thread as waiting, once, exactly when
\* the thread waits on it (AddWaitingThread, RemoveWaitingThread, Stop).
WaitListsExact ==
    KernelIdle =>
      /\ \A o \in Object, t \in Thread :
           t \in Elems(waiting_threads[o]) <=> o \in Elems(wait_objects[t])
      /\ \A o \in Object : \A i, j \in 1 .. Len(waiting_threads[o]) :
           waiting_threads[o][i] = waiting_threads[o][j] => i = j
      /\ \A t \in Thread : wait_objects[t] # <<>> => status[t] \in Waiting

\* The outcome of a wait is decided once: after a thread was made ready neither
\* its timeout nor another object changes what the wait returned.
OutcomeIsFinal ==
    [][\A t \in Thread : status[t] = "Ready" => result'[t] = result[t]]_vars

\* A wakeup event is never pending for a thread that runs or is dead: a timeout
\* cannot hit a later wait of the same thread (SwitchContext and Stop cancel it).
NoStaleTimeout == \A t \in wakeups : status[t] \notin {"None", "Running", "Dead"}

-------------------------------------------------------------------------------
(* Mutexes                                                                 *)

\* Between kernel calls a mutex is locked exactly when a live thread holds it,
\* and holder and held_mutexes agree (Acquire, Release, ReleaseThreadMutexes).
MutexOwnership ==
    KernelIdle =>
      \A m \in Mutex :
        /\ lock_count[m] > 0 <=> holding_thread[m] # None
        /\ \A t \in Thread : holding_thread[m] = t <=> m \in held_mutexes[t]
        /\ \A t \in Thread : holding_thread[m] = t => status[t] # "Dead"

\* The holder of a mutex never has a worse priority than a thread that waits
\* for the mutex: "This prevents priority inversion via priority inheritance"
\* (thread.h, UpdatePriority).
NoPriorityInversion ==
    KernelIdle =>
      \A m \in Mutex : \A w \in Elems(waiting_threads[m]) :
        holding_thread[m] # None => current_priority[holding_thread[m]] <= current_priority[w]

\* A boost ends with the mutexes that caused it: a live thread that holds no
\* mutex has its own priority (Mutex::Release calls UpdatePriority).
BoostEnds ==
    KernelIdle =>
      \A t \in Thread : held_mutexes[t] = {} /\ status[t] # "Dead" =>
        current_priority[t] = nominal_priority[t]

-------------------------------------------------------------------------------
(* Scheduling                                                              *)

InQueue(t, c, p, i) == i \in 1 .. Len(ready_queue[c][p]) /\ ready_queue[c][p][i] = t

\* A thread is ready exactly when it is queued, once, on its own core and at
\* its current priority, whatever boosts, stops and unscheduled threads do to
\* the queues.
ReadyExactlyQueued ==
    /\ \A c \in Core, p \in Priority, t \in Thread :
         t \in Elems(ready_queue[c][p]) <=>
           status[t] = "Ready" /\ CoreOf[t] = c /\ current_priority[t] = p
    /\ \A c \in Core, p \in Priority : \A i, j \in 1 .. Len(ready_queue[c][p]) :
         ready_queue[c][p][i] = ready_queue[c][p][j] => i = j

\* The ready queue is only used at levels it was prepared for; a push to an
\* unprepared level would never be popped (the contract of ReadyQueue).
LevelsPrepared ==
    \A t \in Thread : status[t] # "None" => current_priority[t] \in prepared[CoreOf[t]]

\* A core that executes guest code of a running process executes a running
\* thread, and a running thread is the current one of its core.
ExecutingIsRunning ==
    /\ \A c \in Core : executing[c] =>
         LET t == current_thread[c]
         IN  t # None /\ (process_status[ProcessOf[t]] = "Running" => status[t] = "Running")
    /\ \A t \in Thread : status[t] = "Running" => current_thread[CoreOf[t]] = t

\* Only threads of running processes execute: "Running threads from exiting
\* processes is unimplemented" (svc.cpp, CallSVC).
OnlyRunningProcessesExecute ==
    KernelIdle => \A c \in Core : executing[c] =>
      process_status[ProcessOf[current_thread[c]]] = "Running"

LiveThreads(p) == {t \in Thread : ProcessOf[t] = p /\ status[t] \notin {"None", "Dead"}}

\* CreateThread and Run reserve a thread of the resource limit, Stop releases it.
\* Between kernel calls the limit counts exactly the live threads of a process that
\* has not exited.  Terminating it leaks nothing, but may release too much: on each
\* core other than the one of the caller it stops the current thread, also one
\* that has exited already (thread.cpp 245).
ThreadAccounting ==
    KernelIdle => \A p \in Process :
      LET live == Cardinality(LiveThreads(p))
      IN  IF process_status[p] = "Exited"
          THEN thread_count[p] \in live - (NumCores - 1) .. live
          ELSE thread_count[p] = live

\* No thread of an exited process is left alive.
TerminationIsComplete ==
    KernelIdle => \A t \in Thread :
      process_status[ProcessOf[t]] = "Exited" => status[t] \in {"None", "Dead"}

\* None of the kernel's assertions fails.
NoPanic == panic = {}

-------------------------------------------------------------------------------
(* Progress of a kernel call                                               *)

\* What is left to do, from the outermost loop to the innermost: the cores
\* TerminateProcess has not come to, the threads that may still be stopped, the
\* phases of Stop, the mutexes it has to release, the threads the wakeup loop
\* may still wake, the phases of waking one, and the objects of a phase.
CoresLeft    == IF term.pc = "cores" THEN 1 + NumCores - term.core ELSE 0
ThreadsLeft  == Cardinality({t \in Thread : status[t] \notin {"None", "Dead"}})
StopLeft     == CASE stop.pc = "detach" -> 2 [] stop.pc = "mutexes" -> 1 [] OTHER -> 0
MutexesLeft  == Cardinality(stop.muts)
Sleepers     == IF sync.obj = None THEN {} ELSE Elems(waiting_threads[sync.obj]) \ {sync.thr}
SleepersLeft == Cardinality(Sleepers) + (IF sync.thr = None THEN 0 ELSE 1)
PhasesLeft   == CASE sync.pc = "scan" -> 3 [] sync.pc = "acquire" -> 2
                  [] sync.pc = "idle" -> 0 [] OTHER -> 1
ObjectsLeft  == Len(sync.todo) + Cardinality(sync.muts)

\* The lexicographic order of lists of one length.
Below(a, b) == \E i \in 1 .. Len(a) : a[i] < b[i] /\ \A j \in 1 .. i - 1 : a[j] <= b[j]

Work == <<CoresLeft, ThreadsLeft, StopLeft, MutexesLeft, SleepersLeft, PhasesLeft, ObjectsLeft>>

\* Every iteration of the nested loops of WakeupAllWaitingThreads, Stop,
\* ReleaseThreadMutexes and TerminateProcess leaves less to do, or fails an
\* assertion.  What is left are natural numbers, so none of the loops can go on
\* for ever on the state it changes.
CallsMakeProgress ==
    [][KernelStep => Work \in Seq(Nat) /\ (panic' # {} \/ Below(Work', Work))]_vars

-------------------------------------------------------------------------------
(* Liveness                                                                *)

\* Every kernel call ends: the nested loops of Stop, TerminateProcess and
\* WakeupAllWaitingThreads terminate.
KernelCallEnds == ~KernelIdle ~> KernelIdle

\* A wait or a sleep with a timeout ends.
TimedWaitEnds ==
    \A t \in Thread : (t \in wakeups) ~> (status[t] \in {"Ready", "Running", "Dead"})

\* Every core again and again runs a thread no schedulable ready thread beats.
SchedulerCatchesUp ==
    \A c \in Core : []<>(\A t \in Thread :
      status[t] = "Ready" /\ can_schedule[t] /\ CoreOf[t] = c =>
        /\ IsRunning(current_thread[c])
        /\ current_priority[current_thread[c]] <= current_priority[t])
===============================================================================
