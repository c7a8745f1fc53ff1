------------------------------ MODULE KernelWait ------------------------------
(***************************************************************************)
(* Waiting and waking (core/hle/kernel/wait_object.cpp, mutex.cpp,         *)
(* semaphore.cpp, event.cpp and the Thread overrides in thread.cpp): when  *)
(* an object makes a thread wait, what acquiring it does, and the loops    *)
(* that put a thread on waiting lists, take it off, and wake waiters.      *)
(*                                                                         *)
(* The loop in progress is sync.pc:                                        *)
(*   scan     WakeupAllWaitingThreads of sync.obj is at its loop head      *)
(*   acquire  Acquire is being called on the objects of sync.todo for      *)
(*            sync.thr, inside the wakeup loop of sync.obj, or, when       *)
(*            sync.obj is None, directly in a system call                  *)
(*   remove   sync.thr is being taken off the waiting lists of sync.todo   *)
(*            and is resumed afterwards                                    *)
(*   detach   the same for a thread that is being stopped                  *)
(*   add      sync.thr is being put on the waiting lists of sync.todo      *)
(*   update   the mutexes sync.muts recompute their priority               *)
(***************************************************************************)
EXTENDS KernelThread

\* ShouldWait of the four kinds of objects.
ShouldWait(o, t) ==
    \/ o \in Mutex /\ lock_count[o] > 0 /\ holding_thread[o] # t
    \/ o \in Semaphore /\ available_count[o] <= 0
    \/ o \in Event /\ ~signaled[o]
    \/ o \in Thread /\ status[o] # "Dead"

\* GetHighestPriorityReadyThread's test of one waiting thread.
ReadyToRunFirst(o, t) == ~ShouldWait(o, t)  \* mutant: the other objects are not looked at

ReadyToRun(o, t) ==
    /\ ~ShouldWait(o, t)
    /\ status[t] = "WaitSynchAll" => \A x \in Elems(wait_objects[t]) : ~ShouldWait(x, t)

\* What the assertion in that loop excludes.
Inconsistent(o) == \E t \in Elems(waiting_threads[o]) : status[t] \notin Waiting

\* Position i of o's waiting list is what GetHighestPriorityReadyThread
\* returns: of the ready threads the first with the best priority.
IsHighestPriorityReady(o, i) ==
    LET list == waiting_threads[o]
    IN  /\ ReadyToRun(o, list[i])
        /\ \A j \in 1 .. Len(list) : ReadyToRun(o, list[j]) =>
             \/ current_priority[list[i]] < current_priority[list[j]]
             \/ current_priority[list[i]] = current_priority[list[j]] /\ i <= j

-------------------------------------------------------------------------------
(* Acquiring one object                                                    *)

prioVars == <<current_priority, ready_queue, prepared>>

AcquireMutex(m, t) ==
    /\ lock_count' = [lock_count EXCEPT ![m] = @ + 1]
    /\ IF lock_count[m] = 0
       THEN LET held == held_mutexes[t] \cup {m}
                mp   == [mutex_priority EXCEPT ![m] = current_priority[t]]
            IN  /\ mutex_priority' = mp
                /\ held_mutexes' = [held_mutexes EXCEPT ![t] = held]
                /\ holding_thread' = [holding_thread EXCEPT ![m] = t]
                /\ UpdatePriority(t, held, mp)
                /\ PrepareReschedule
       ELSE UNCHANGED <<mutex_priority, held_mutexes, holding_thread, prioVars, executing>>
    /\ UNCHANGED <<available_count, signaled>>

mutexVars == <<lock_count, mutex_priority, held_mutexes, holding_thread, prioVars, executing>>

AcquireSemaphore(s) ==
    /\ available_count' = [available_count EXCEPT ![s] = IF @ <= 0 THEN @ ELSE @ - 1]
    /\ UNCHANGED <<signaled, mutexVars>>

AcquireEvent(e) ==
    /\ signaled' = [signaled EXCEPT ![e] = @ /\ ResetType[e] # "OneShot"]
    /\ UNCHANGED <<available_count, mutexVars>>

Acquire(o, t) ==
    \/ o \in Mutex /\ AcquireMutex(o, t)
    \/ o \in Semaphore /\ AcquireSemaphore(o)
    \/ o \in Event /\ AcquireEvent(o)
    \/ o \in Thread /\ UNCHANGED <<available_count, signaled, mutexVars>>

-------------------------------------------------------------------------------
(* Mutex::UpdatePriority when the mutex has the given waiting list         *)

MutexUpdatePriority(m, waiters) ==
    LET best == Best({ThreadPrioLowest} \cup {current_priority[w] : w \in Elems(waiters)})
        mp   == [mutex_priority EXCEPT ![m] = best]
        h    == holding_thread[m]
    IN  IF h = None \/ best = mutex_priority[m]
        THEN UNCHANGED <<mutex_priority, prioVars>>
        ELSE mutex_priority' = mp /\ UpdatePriority(h, held_mutexes[h], mp)

\* Mutant: the override for mutexes does not update the priority.
SetWaitingThreadsOnly(o, list) ==
    /\ waiting_threads' = [waiting_threads EXCEPT ![o] = list]
    /\ UNCHANGED <<mutex_priority, prioVars>>

\* AddWaitingThread and RemoveWaitingThread end here: object o has the new
\* waiting list.
SetWaitingThreads(o, list) ==
    /\ waiting_threads' = [waiting_threads EXCEPT ![o] = list]
    /\ IF o \in Mutex THEN MutexUpdatePriority(o, list) ELSE UNCHANGED <<mutex_priority, prioVars>>

-------------------------------------------------------------------------------
(* The steps of the loops                                                  *)

keptVars == <<nominal_priority, can_schedule, current_thread, process_status,
              thread_count, running_core, stop, term>>

\* The call in progress is in one of these loops; a failed assertion ends the
\* emulation.
SyncAt(pcs) == panic = {} /\ sync.pc \in pcs

\* GetHighestPriorityReadyThread returns null.
NobodyToWakeFirst(o) ==  \* mutant: only the first thread of the list is looked at
    \A i \in 1 .. Len(waiting_threads[o]) : i = 1 => ~ReadyToRun(o, waiting_threads[o][i])
NobodyToWake(o) == \A t \in Elems(waiting_threads[o]) : ~ReadyToRun(o, t)

\* Loop head of WakeupAllWaitingThreads, a thread was found.
WakeNext ==
    /\ SyncAt({"scan"})
    /\ ~Inconsistent(sync.obj)
    /\ \E i \in 1 .. Len(waiting_threads[sync.obj]) :
         LET t == waiting_threads[sync.obj][i]
         IN  /\ IsHighestPriorityReady(sync.obj, i)
             /\ sync' = [sync EXCEPT !.pc = "acquire", !.thr = t,
                             !.todo = IF status[t] = "WaitSynchAll" THEN wait_objects[t]
                                      ELSE <<sync.obj>>]
    /\ UNCHANGED <<threadVars, objectVars, coreVars, process_status, thread_count,
                   running_core, stop, term, panic>>

\* Loop head, nobody left to wake: a pulse event resets itself.
WakeupDone ==
    /\ SyncAt({"scan"})
    /\ IF Inconsistent(sync.obj)
       THEN /\ panic' = panic \cup {"Inconsistent thread statuses in waiting_threads"}
            /\ UNCHANGED <<signaled, sync>>
       ELSE /\ NobodyToWake(sync.obj)
            /\ signaled' = [e \in Event |->
                              signaled[e] /\ ~(e = sync.obj /\ ResetType[e] = "Pulse")]
            /\ sync' = SyncIdle
            /\ UNCHANGED panic
    /\ UNCHANGED <<threadVars, waiting_threads, lock_count, holding_thread, mutex_priority,
                   available_count, coreVars, process_status, thread_count, running_core,
                   stop, term>>

\* One call of Acquire.  Only a semaphore does not assert that it is available.
AcquireNext ==
    /\ SyncAt({"acquire"}) /\ sync.todo # <<>>
    /\ LET o == Head(sync.todo)
           t == sync.thr
       IN  IF o \notin Semaphore /\ ShouldWait(o, t)
           THEN /\ panic' = panic \cup {"object unavailable!"}
                /\ UNCHANGED <<available_count, signaled, mutexVars>>
           ELSE Acquire(o, t) /\ UNCHANGED panic
    /\ sync' = [sync EXCEPT !.todo = Tail(@)]
    /\ UNCHANGED <<keptVars, status, wait_objects, wakeup_callback, result, wakeups,
                   waiting_threads>>

\* The lists the woken thread is taken off.
LeavesOnlyObject(t) == <<sync.obj>>  \* mutant: it stays on the others
LeavesNothing(t) == <<>>  \* mutant: it stays on all of them
Leaves(t) == wait_objects[t]

\* The wakeup callback (SVC_SyncCallback, reason Signal); a system call that
\* acquired directly is finished instead.
AcquireDone ==
    /\ SyncAt({"acquire"}) /\ sync.todo = <<>>
    /\ IF sync.obj = None
       THEN sync' = SyncIdle /\ UNCHANGED result
       ELSE /\ sync' = [sync EXCEPT !.pc = "remove", !.todo = Leaves(sync.thr)]
            /\ result' = IF wakeup_callback[sync.thr]
                         THEN [result EXCEPT ![sync.thr] = "Success"] ELSE result
    /\ UNCHANGED <<keptVars, status, wait_objects, wakeup_callback, wakeups, waiting_threads,
                   available_count, signaled, mutexVars, panic>>

\* One call of RemoveWaitingThread.
RemoveNext ==
    /\ SyncAt({"remove", "detach"}) /\ sync.todo # <<>>
    /\ LET o == Head(sync.todo)
       IN  SetWaitingThreads(o, Without(waiting_threads[o], sync.thr))
    /\ sync' = [sync EXCEPT !.todo = Tail(@)]
    /\ UNCHANGED <<keptVars, status, held_mutexes, wait_objects, wakeup_callback, result,
                   wakeups, lock_count, holding_thread, available_count, signaled, executing,
                   panic>>

\* Back to the head of the wakeup loop, if the thread was woken by one.
LoopOn == IF sync.obj = None THEN SyncIdle ELSE [SyncIdle EXCEPT !.pc = "scan", !.obj = sync.obj]

\* wait_objects.clear() and, unless the thread is being stopped, ResumeFromWait.
RemoveDone ==
    /\ SyncAt({"remove", "detach"}) /\ sync.todo = <<>>
    /\ wait_objects' = [wait_objects EXCEPT ![sync.thr] = <<>>]
    /\ IF sync.pc = "remove" THEN ResumeFromWait(sync.thr)
       ELSE UNCHANGED <<wakeup_callback, ready_queue, status, executing, panic>>
    /\ sync' = LoopOn
    /\ UNCHANGED <<keptVars, held_mutexes, result, wakeups, objectVars, current_priority,
                   prepared>>

\* One call of AddWaitingThread.
AddNext ==
    /\ SyncAt({"add"})
    /\ LET o    == Head(sync.todo)
           list == waiting_threads[o]
       IN  SetWaitingThreads(o, IF sync.thr \in Elems(list) THEN list
                                ELSE Append(list, sync.thr))
    /\ sync' = IF Len(sync.todo) = 1 THEN SyncIdle ELSE [sync EXCEPT !.todo = Tail(@)]
    /\ UNCHANGED <<keptVars, status, held_mutexes, wait_objects, wakeup_callback, result,
                   wakeups, lock_count, holding_thread, available_count, signaled, executing,
                   panic>>

\* The loop over pending_mutexes in SetThreadPriority.  The set is ordered by
\* address, so any order is possible.
UpdateNext ==
    /\ SyncAt({"update"})
    /\ \E m \in sync.muts :
         /\ MutexUpdatePriority(m, waiting_threads[m])
         /\ sync' = IF sync.muts = {m} THEN SyncIdle
                    ELSE [sync EXCEPT !.muts = @ \ {m}]
    /\ UNCHANGED <<keptVars, status, held_mutexes, wait_objects, wakeup_callback, result,
                   wakeups, waiting_threads, lock_count, holding_thread, available_count,
                   signaled, executing, panic>>

SyncStep == \/ WakeNext \/ WakeupDone \/ AcquireNext \/ AcquireDone
            \/ RemoveNext \/ RemoveDone \/ AddNext \/ UpdateNext
===============================================================================
