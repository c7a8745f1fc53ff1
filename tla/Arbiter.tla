-------------------------------- MODULE Arbiter -------------------------------
(***************************************************************************)
(* Address arbiters (hle/kernel/address_arbiter.cpp) and what the kernel   *)
(* does for their waiting threads: the timeout (ThreadWakeupCallback), the *)
(* switch to a thread that was woken, and Stop.                            *)
(*                                                                         *)
(* One arbiter of one process.  Every ready thread may be switched to:     *)
(* which one is the scheduler's business (KernelThread).                   *)
(***************************************************************************)
EXTENDS Integers, Lists, TLC

CONSTANTS
    Thread,
    Address,
    Priority,      \* lower is better
    Value,         \* values of the memory at an address; the decrement wraps
    Counts         \* values of a signal: negative wakes everybody

ASSUME ArbiterAssumption ==
    /\ Priority \subseteq Nat /\ Counts \subseteq Int
    /\ \E lo, hi \in Value : Value = lo .. hi

VARIABLES
    waiting_threads,     \* list of the arbiter
    wait_address,
    status,
    current_priority,
    wakeup_callback,     \* threads with the callback of the arbiter
    wakeups,             \* threads with a pending wakeup event
    memory,
    arrivals             \* waiting threads as they came, whatever the list does

vars == <<waiting_threads, wait_address, status, current_priority, wakeup_callback, wakeups,
          memory, arrivals>>

Init ==
    /\ waiting_threads = <<>> /\ arrivals = <<>>
    /\ wait_address \in [Thread -> Address]
    /\ \A t, u \in Thread : wait_address[t] = wait_address[u]
    /\ status = [t \in Thread |-> "Running"]
    /\ current_priority \in [Thread -> Priority]
    /\ wakeup_callback = {} /\ wakeups = {}
    /\ memory = [a \in Address |-> CHOOSE v \in Value : \A w \in Value : w <= v]

-------------------------------------------------------------------------------
(* Signal                                                                  *)

At(a, list) == Keep(list, {t \in Thread : wait_address[t] = a})
NotAt(a, list) == Keep(list, {t \in Thread : wait_address[t] # a})

\* ResumeAllThreads: who stays.
AfterResumeAll(a) == NotAt(a, waiting_threads)

\* The first of the threads with the best priority: min_element.
BestLast(q) ==
    CHOOSE i \in DOMAIN q :
        \A j \in DOMAIN q :
            \/ current_priority[q[i]] < current_priority[q[j]]
            \/ current_priority[q[i]] = current_priority[q[j]] /\ i >= j
Best(q) ==
    CHOOSE i \in DOMAIN q :
        \A j \in DOMAIN q :
            \/ current_priority[q[i]] < current_priority[q[j]]
            \/ current_priority[q[i]] = current_priority[q[j]] /\ i <= j

\* ResumeHighestPriorityThread: the list without the thread it resumes.
AfterResumeHighest(a, list) ==
    LET q == At(a, list)
    IN  NotAt(a, list) \o (IF q = <<>> THEN q ELSE RemoveAt(q, Best(q)))

\* ... as often as the signal says.
AfterResume(a, count) ==
    LET after[n \in 0 .. count] ==
          IF n = 0 THEN waiting_threads ELSE AfterResumeHighest(a, after[n - 1])
    IN  after[count]

\* The threads that leave the list are made ready: ResumeFromWait.
Resume(list) ==
    LET woken == ToSet(waiting_threads) \ ToSet(list)
    IN  /\ waiting_threads' = list
        /\ status' = [t \in Thread |-> IF t \in woken THEN "Ready" ELSE status[t]]
        /\ wakeup_callback' = wakeup_callback \ woken
        /\ arrivals' = Keep(arrivals, Thread \ woken)

Signal(t, a, count) ==
    /\ status[t] = "Running"
    /\ Resume(IF count < 0 THEN AfterResumeAll(a) ELSE AfterResume(a, count))
    /\ UNCHANGED <<wait_address, current_priority, wakeups, memory>>

-------------------------------------------------------------------------------
(* Wait                                                                    *)

WaitThread(t, a) ==
    /\ wait_address' = [wait_address EXCEPT ![t] = a]
    /\ status' = [status EXCEPT ![t] = "WaitArb"]
    /\ waiting_threads' = Append(waiting_threads, t)
    /\ arrivals' = Append(arrivals, t)

Decremented(v) == IF v - 1 \in Value THEN v - 1 ELSE CHOOSE w \in Value : \A x \in Value : x <= w

\* The four ways to wait: only a thread that waits decrements.
ArbitrateWait(t, a, value, decrement, timeout) ==
    /\ status[t] = "Running" /\ memory[a] < value
    /\ memory' = IF decrement THEN [memory EXCEPT ![a] = Decremented(@)] ELSE memory
    /\ IF timeout
       THEN wakeup_callback' = wakeup_callback \cup {t} /\ wakeups' = wakeups \cup {t}
       ELSE UNCHANGED <<wakeup_callback, wakeups>>
    /\ WaitThread(t, a)
    /\ UNCHANGED current_priority

\* WakeUp, the callback of a timeout, takes the thread off the list.
ListAfterTimeoutSame(t) == waiting_threads
ListAfterTimeout(t) == Keep(waiting_threads, Thread \ {t})

\* ThreadWakeupCallback, and ResumeFromWait; a ready thread stays ready.
TimeoutFires(t) ==
    /\ t \in wakeups
    /\ wakeups' = wakeups \ {t}
    /\ IF status[t] = "WaitArb" /\ t \in wakeup_callback
       THEN /\ waiting_threads' = ListAfterTimeout(t)
            /\ arrivals' = Keep(arrivals, Thread \ {t})
       ELSE UNCHANGED <<waiting_threads, arrivals>>
    /\ status' = [status EXCEPT ![t] = IF @ = "Dead" THEN @ ELSE "Ready"]
    /\ wakeup_callback' = wakeup_callback \ {t}
    /\ UNCHANGED <<wait_address, current_priority, memory>>

-------------------------------------------------------------------------------
(* Threads                                                                 *)

\* SwitchContext to a ready thread cancels its wakeup event.
SwitchContext(t) ==
    /\ status[t] = "Ready"
    /\ status' = [status EXCEPT ![t] = "Running"]
    /\ wakeups' = wakeups \ {t}
    /\ UNCHANGED <<waiting_threads, wait_address, current_priority, wakeup_callback, memory,
                   arrivals>>

\* The guest writes its memory, and sets priorities of any thread.
Stores(t, a, v) ==
    /\ status[t] = "Running"
    /\ memory' = [memory EXCEPT ![a] = v]
    /\ UNCHANGED <<waiting_threads, wait_address, status, current_priority, wakeup_callback,
                   wakeups, arrivals>>

SetThreadPriority(t, u, p) ==
    /\ status[t] = "Running" /\ status[u] # "Dead"
    /\ current_priority' = [current_priority EXCEPT ![u] = p]
    /\ UNCHANGED <<waiting_threads, wait_address, status, wakeup_callback, wakeups, memory,
                   arrivals>>

\* Stop, of the thread itself or of all threads of the process: the wakeup event
\* is cancelled, the list of the arbiter stays as it is.
ExitThread(t) ==
    /\ status[t] = "Running"
    /\ status' = [status EXCEPT ![t] = "Dead"]
    /\ wakeups' = wakeups \ {t}
    /\ UNCHANGED <<waiting_threads, wait_address, current_priority, wakeup_callback, memory,
                   arrivals>>

ExitProcess(t) ==
    /\ status[t] = "Running"
    /\ status' = [u \in Thread |-> "Dead"]
    /\ wakeups' = {}
    /\ UNCHANGED <<waiting_threads, wait_address, current_priority, wakeup_callback, memory,
                   arrivals>>

Next ==
    \/ \E t \in Thread : TimeoutFires(t) \/ SwitchContext(t) \/ ExitThread(t) \/ ExitProcess(t)
    \/ \E t \in Thread, a \in Address :
          \/ \E count \in Counts : Signal(t, a, count)
          \/ \E v \in Value : Stores(t, a, v)
          \/ \E v \in Value, decrement, timeout \in BOOLEAN :
                ArbitrateWait(t, a, v, decrement, timeout)
    \/ \E t, u \in Thread, p \in Priority : SetThreadPriority(t, u, p)

Spec == Init /\ [][Next]_vars

\* What the model tells of threads does not depend on their names.
ThreadSymmetry == Permutations(Thread)

-------------------------------------------------------------------------------
(* Properties                                                              *)

\* As long as a thread is left to use the arbiter, it lists exactly the threads
\* that wait for it, once each: "Inconsistent AddressArbiter state" is asserted
\* of every entry (address_arbiter.cpp 35), and a thread that is not listed would
\* never be signalled.  A timeout and a signal race for the same entry.
ListsExactlyWaiting ==
    (\E t \in Thread : status[t] \in {"Running", "Ready"}) =>
        /\ ToSet(waiting_threads) = {t \in Thread : status[t] = "WaitArb"}
        /\ IsInjective(waiting_threads)

\* A signal passes over a thread only for one with a better priority, or one with
\* the same priority that came earlier: "The real kernel will pick the first
\* thread in the list" (address_arbiter.cpp 59), although the list is reordered
\* by each signal.
WakesInOrder ==
    [][\A i, j \in DOMAIN arrivals :
         LET t == arrivals[i]
             u == arrivals[j]
         IN  /\ wait_address[t] = wait_address[u]
             /\ status[t] = "WaitArb" /\ status'[t] = "Ready" /\ wakeups' = wakeups
             /\ status'[u] = "WaitArb"
             => \/ current_priority[t] < current_priority[u]
                \/ current_priority[t] = current_priority[u] /\ i < j]_vars
===============================================================================
