----------------------------- MODULE KernelProofs -----------------------------
(***************************************************************************)
(* The kernel: types, scheduling, wait objects, mutexes, its assertions    *)
(* and the thread limit, for any threads, processes, cores, objects,       *)
(* priorities and wait lists.                                              *)
(*                                                                         *)
(* TypeOK needs PhaseOK: a step of a loop uses the thread and the object   *)
(* in the registers of the loop.  SchedInv then says that the ready queues *)
(* hold exactly the ready threads, that cores run the threads they should, *)
(* that timeouts are never stale and that a terminated process leaves no   *)
(* thread alive.                                                           *)
(*                                                                         *)
(* Wakeups: a thread that waits is on the list of every object it          *)
(* waits for (Listed), except while it is being put on the lists, or being *)
(* taken off them because its wait is over.  A wait can only become        *)
(* satisfiable by a change of an object whose wakeup loop then runs, and   *)
(* stays on that loop's account until the loop ends (Attended).  The loop  *)
(* ends when it finds nobody on the list that can go, so then there is     *)
(* nobody.                                                                 *)
(*                                                                         *)
(* Mutexes: lock count, holder and the threads' held_mutexes agree, and a  *)
(* thread's priority is the one its mutexes give it.  While a thread is    *)
(* being stopped it is dead and still holds mutexes: those it has not      *)
(* released yet.  Those it has released are still in its held_mutexes,     *)
(* which is only cleared at the end.                                       *)
(*                                                                         *)
(* Waiting lists: an object lists only threads that wait for it, once; the *)
(* converse is Listed.  While a thread is taken off its lists, those it is *)
(* still on are the ones the loop has to come to.                          *)
(*                                                                         *)
(* Assertions: what a wakeup loop or a system call acquires was available  *)
(* when it looked and stays so until it gets there.                        *)
(*                                                                         *)
(* Resource limits: a thread that is being stopped is dead and still       *)
(* counted; a core that is not the caller's may cost an ending process one *)
(* thread of its count.                                                    *)
(***************************************************************************)
EXTENDS Kernel, SequenceTheorems, WellFoundedInduction, FiniteSetTheorems, TLAPS

-------------------------------------------------------------------------------
(* Sequences, priorities and queues                                        *)

\* Removing an element leaves a sequence over the same set.
LEMMA WithoutSeq ==
    ASSUME NEW T, NEW s \in Seq(T), NEW x
    PROVE  Without(s, x) \in Seq(T)
<1>1. CASE \E i \in 1 .. Len(s) : s[i] = x
  <2> DEFINE k == CHOOSE i \in 1 .. Len(s) : s[i] = x
             w == [j \in 1 .. Len(s) - 1 |-> IF j < k THEN s[j] ELSE s[j + 1]]
  <2>1. k \in 1 .. Len(s)
    BY <1>1
  <2>2. Len(s) - 1 \in Nat
    BY <2>1
  <2>3. \A j \in 1 .. Len(s) - 1 : w[j] \in T
    BY <2>1
  <2> HIDE DEF w
  <2>4. w \in [1 .. Len(s) - 1 -> T]
    BY <2>3 DEF w
  <2>5. w \in Seq(T)
    BY <2>2, <2>4, IsASeq
  <2> QED BY <1>1, <2>5 DEF Without, w
<1>2. CASE ~ \E i \in 1 .. Len(s) : s[i] = x
  BY <1>2 DEF Without
<1> QED BY <1>1, <1>2

\* Removing x keeps every other element.
LEMMA WithoutKeeps ==
    ASSUME NEW T, NEW s \in Seq(T), NEW x, NEW y \in Elems(s), y # x
    PROVE  y \in Elems(Without(s, x))
<1>1. CASE \E i \in 1 .. Len(s) : s[i] = x
  <2> DEFINE k == CHOOSE i \in 1 .. Len(s) : s[i] = x
             w == [j \in 1 .. Len(s) - 1 |-> IF j < k THEN s[j] ELSE s[j + 1]]
  <2>1. k \in 1 .. Len(s) /\ s[k] = x
    BY <1>1
  <2>2. PICK n \in 1 .. Len(s) : s[n] = y
    BY DEF Elems
  <2>3. Without(s, x) = w
    BY <1>1 DEF Without
  <2>4. Len(s) - 1 \in Nat
    BY <2>1
  <2> HIDE DEF k
  <2>5. Len(w) = Len(s) - 1 /\ DOMAIN w = 1 .. Len(s) - 1
    <3>1. w \in Seq(T)
      BY <2>3, WithoutSeq
    <3>2. DOMAIN w = 1 .. Len(s) - 1
      OBVIOUS
    <3> HIDE DEF w
    <3> QED BY <2>4, <3>1, <3>2, LenProperties
  <2>6. CASE n < k
    <3>1. n \in 1 .. Len(s) - 1 /\ w[n] = y
      BY <2>1, <2>2, <2>6
    <3> QED BY <2>3, <2>5, <3>1 DEF Elems
  <2>7. CASE n > k
    <3>1. n - 1 \in 1 .. Len(s) - 1 /\ w[n - 1] = y
      BY <2>1, <2>2, <2>7
    <3> QED BY <2>3, <2>5, <3>1 DEF Elems
  <2> QED BY <2>1, <2>2, <2>6, <2>7
<1>2. CASE ~ \E i \in 1 .. Len(s) : s[i] = x
  BY <1>2 DEF Without
<1> QED BY <1>1, <1>2

\* What a nonempty sequence contains.
LEMMA ElemsHeadTail ==
    ASSUME NEW T, NEW s \in Seq(T), s # <<>>
    PROVE  /\ Head(s) \in T /\ Tail(s) \in Seq(T)
           /\ \A x : x \in Elems(s) => x = Head(s) \/ x \in Elems(Tail(s))
<1>1. Head(s) \in T /\ Tail(s) \in Seq(T) /\ Len(Tail(s)) = Len(s) - 1 /\ Len(s) > 0
      /\ \A i \in 1 .. Len(s) - 1 : Tail(s)[i] = s[i + 1]
  BY HeadTailProperties, EmptySeq, LenProperties
<1>2. ASSUME NEW x, x \in Elems(s), x # Head(s)
      PROVE  x \in Elems(Tail(s))
  <2>1. PICK i \in 1 .. Len(s) : s[i] = x
    BY <1>2 DEF Elems
  <2>2. i # 1 /\ Len(s) \in Nat
    BY <1>2, <2>1
  <2>3. i - 1 \in 1 .. Len(s) - 1 /\ Tail(s)[i - 1] = x
    BY <1>1, <2>1, <2>2
  <2> QED BY <1>1, <2>3 DEF Elems
<1> QED BY <1>1, <1>2

\* Appending adds one element.
LEMMA ElemsAppend ==
    ASSUME NEW T, NEW s \in Seq(T), NEW x \in T
    PROVE  /\ Append(s, x) \in Seq(T)
           /\ Elems(s) \subseteq Elems(Append(s, x))
           /\ x \in Elems(Append(s, x))
<1>1. Append(s, x) \in Seq(T) /\ Len(Append(s, x)) = Len(s) + 1 /\ Len(s) \in Nat
      /\ (\A i \in 1 .. Len(s) : Append(s, x)[i] = s[i]) /\ Append(s, x)[Len(s) + 1] = x
  BY AppendProperties, LenProperties
<1> QED BY <1>1 DEF Elems

\* Reversing a sequence keeps its type (the threads PopNextReadyThread puts back).
LEMMA ReversedSeq ==
    ASSUME NEW T, NEW s \in Seq(T)
    PROVE  Reversed(s) \in Seq(T)
<1>1. Len(s) \in Nat /\ \A i \in 1 .. Len(s) : s[Len(s) + 1 - i] \in T
  OBVIOUS
<1> DEFINE r == [i \in 1 .. Len(s) |-> s[Len(s) + 1 - i]]
<1>2. r \in [1 .. Len(s) -> T]
  BY <1>1
<1> HIDE DEF r
<1>3. r \in Seq(T)
  BY <1>1, <1>2, IsASeq
<1> QED BY <1>3 DEF r, Reversed

\* A nonempty set of priorities has a best one.
LEMMA BestIsLeast ==
    ASSUME NEW S, S \subseteq Priority, S # {}
    PROVE  Best(S) \in S /\ \A q \in S : Best(S) <= q
<1>1. S \subseteq Nat
  BY KernelAssumption DEF Priority
<1> DEFINE R == OpToRel(<, Nat)
<1>2. PICK p \in S : \A q \in S : ~ (<<q, p>> \in R)
  BY <1>1, NatLessThanWellFounded, WFMin
<1>3. ASSUME NEW q \in S PROVE p <= q
  <2>1. p \in Nat /\ q \in Nat
    BY <1>1
  <2>2. q < p => <<q, p>> \in R
    <3> DEFINE z == <<q, p>>
    <3>1. z \in Nat \X Nat /\ z[1] = q /\ z[2] = p
      BY <2>1
    <3> HIDE DEF z
    <3>2. q < p => z \in R
      BY <3>1 DEF OpToRel
    <3> QED BY <3>2 DEF z
  <2> HIDE DEF R
  <2> QED BY <1>2, <2>1, <2>2
<1> QED BY <1>3 DEF Best

\* The operations on the ready queues.
LEMMA QueueTypes ==
    ASSUME NEW q \in [Core -> [Priority -> Seq(Thread)]], NEW t \in Thread, NEW p \in Priority
    PROVE  /\ PushBack(q, t, p) \in [Core -> [Priority -> Seq(Thread)]]
           /\ PushFront(q, t, p) \in [Core -> [Priority -> Seq(Thread)]]
           /\ Dequeue(q, t, p) \in [Core -> [Priority -> Seq(Thread)]]
<1>1. CoreOf[t] \in Core
  BY KernelAssumption
<1>2. q[CoreOf[t]][p] \in Seq(Thread)
  BY <1>1
<1>3. Append(q[CoreOf[t]][p], t) \in Seq(Thread)
  BY <1>2
<1>4. <<t>> \o q[CoreOf[t]][p] \in Seq(Thread)
  BY <1>2
<1>5. Without(q[CoreOf[t]][p], t) \in Seq(Thread)
  BY <1>2, WithoutSeq
<1>6. ASSUME NEW s \in Seq(Thread)
      PROVE  [q EXCEPT ![CoreOf[t]][p] = s] \in [Core -> [Priority -> Seq(Thread)]]
  BY <1>1
<1>7. PushBack(q, t, p) \in [Core -> [Priority -> Seq(Thread)]]
  BY <1>3, <1>6 DEF PushBack
<1>8. PushFront(q, t, p) \in [Core -> [Priority -> Seq(Thread)]]
  BY <1>4, <1>6 DEF PushFront
<1>9. Dequeue(q, t, p) \in [Core -> [Priority -> Seq(Thread)]]
  BY <1>5, <1>6 DEF Dequeue
<1> QED BY <1>7, <1>8, <1>9

-------------------------------------------------------------------------------
(* Types of what the thread operations change                              *)

QueueType == [Core -> [Priority -> Seq(Thread)]]

\* BoostPriority moves the thread to a level that exists.
LEMMA BoostPriorityType ==
    ASSUME TypeOK, NEW t \in Thread, NEW p \in Priority, BoostPriority(t, p)
    PROVE  /\ ready_queue' \in QueueType
           /\ prepared' \in [Core -> SUBSET Priority]
           /\ current_priority' \in [Thread -> Priority]
<1>1. ready_queue \in QueueType /\ current_priority[t] \in Priority /\ CoreOf[t] \in Core
      /\ prepared \in [Core -> SUBSET Priority] /\ current_priority \in [Thread -> Priority]
  BY KernelAssumption DEF TypeOK, QueueType
<1>2. Dequeue(ready_queue, t, current_priority[t]) \in QueueType
  BY <1>1, QueueTypes DEF QueueType
<1>3. PushBack(Dequeue(ready_queue, t, current_priority[t]), t, p) \in QueueType
  BY <1>2, QueueTypes DEF QueueType
<1>4. ready_queue' \in QueueType
  BY <1>1, <1>3 DEF BoostPriority
<1>5. prepared' \in [Core -> SUBSET Priority]
  BY <1>1 DEF BoostPriority
<1>6. current_priority' \in [Thread -> Priority]
  BY <1>1 DEF BoostPriority
<1> QED BY <1>4, <1>5, <1>6

\* The inherited priority is a priority.
LEMMA InheritedType ==
    ASSUME NEW n \in Priority, NEW held, NEW mp \in [Mutex -> Priority], held \subseteq Mutex
    PROVE  Best({n} \cup {mp[m] : m \in held}) \in Priority
<1>1. {n} \cup {mp[m] : m \in held} \subseteq Priority
  OBVIOUS
<1> QED BY <1>1, BestIsLeast

\* UpdatePriority likewise.
LEMMA UpdatePriorityType ==
    ASSUME TypeOK, NEW t \in Thread, NEW held, held \subseteq Mutex,
           NEW mp \in [Mutex -> Priority], UpdatePriority(t, held, mp)
    PROVE  /\ ready_queue' \in QueueType
           /\ prepared' \in [Core -> SUBSET Priority]
           /\ current_priority' \in [Thread -> Priority]
<1>1. nominal_priority[t] \in Priority
  BY DEF TypeOK
<1>2. Inherited(t, held, mp) \in Priority
  BY <1>1, InheritedType DEF Inherited
<1> QED BY <1>2, BoostPriorityType DEF UpdatePriority

\* Mutex::UpdatePriority gives the mutex and its holder a priority.
LEMMA MutexUpdatePriorityType ==
    ASSUME TypeOK, NEW m \in Mutex, NEW list \in Seq(Thread), MutexUpdatePriority(m, list)
    PROVE  /\ ready_queue' \in QueueType
           /\ prepared' \in [Core -> SUBSET Priority]
           /\ current_priority' \in [Thread -> Priority]
           /\ mutex_priority' \in [Mutex -> Priority]
<1> DEFINE S == {ThreadPrioLowest} \cup {current_priority[w] : w \in Elems(list)}
           best == Best(S)
           mp   == [mutex_priority EXCEPT ![m] = best]
           h    == holding_thread[m]
<1>1. ThreadPrioLowest \in Priority
  BY KernelAssumption DEF ThreadPrioLowest, Priority
<1>2. S \subseteq Priority /\ S # {}
  <2>1. Elems(list) \subseteq Thread
    BY DEF Elems
  <2>2. current_priority \in [Thread -> Priority]
    BY DEF TypeOK
  <2> QED BY <1>1, <2>1, <2>2
<1>3. best \in Priority
  <2> HIDE DEF S
  <2> QED BY <1>2, BestIsLeast
<1>4. mp \in [Mutex -> Priority]
  <2> HIDE DEF best
  <2> QED BY <1>3 DEF TypeOK
<1>5. CASE h = None \/ best = mutex_priority[m]
  <2>1. UNCHANGED <<mutex_priority, prioVars>>
    BY <1>5 DEF MutexUpdatePriority
  <2> QED BY <2>1 DEF TypeOK, prioVars, QueueType
<1>6. CASE ~(h = None \/ best = mutex_priority[m])
  <2>1. mutex_priority' = mp /\ UpdatePriority(h, held_mutexes[h], mp)
    BY <1>6 DEF MutexUpdatePriority
  <2>2. h \in Thread
    BY <1>6 DEF TypeOK
  <2>3. held_mutexes[h] \subseteq Mutex
    BY <2>2 DEF TypeOK
  <2> HIDE DEF h, mp
  <2> QED BY <1>4, <2>1, <2>2, <2>3, UpdatePriorityType
<1> QED BY <1>5, <1>6

\* A new waiting list leaves lists, mutexes and queues well typed.
LEMMA SetWaitingThreadsType ==
    ASSUME TypeOK, NEW o \in Object, NEW list \in Seq(Thread), SetWaitingThreads(o, list)
    PROVE  /\ ready_queue' \in QueueType
           /\ prepared' \in [Core -> SUBSET Priority]
           /\ current_priority' \in [Thread -> Priority]
           /\ mutex_priority' \in [Mutex -> Priority]
           /\ waiting_threads' \in [Object -> Seq(Thread)]
<1>1. waiting_threads' \in [Object -> Seq(Thread)]
  BY DEF SetWaitingThreads, TypeOK
<1>2. CASE o \in Mutex
  BY <1>1, <1>2, MutexUpdatePriorityType DEF SetWaitingThreads
<1>3. CASE o \notin Mutex
  BY <1>1, <1>3 DEF SetWaitingThreads, TypeOK, prioVars, QueueType
<1> QED BY <1>2, <1>3

\* PrepareReschedule only ends a slice.
LEMMA PrepareRescheduleType ==
    ASSUME TypeOK, PrepareReschedule
    PROVE  executing' \in [Core -> BOOLEAN]
BY DEF TypeOK, PrepareReschedule

\* ResumeFromWait, also where it finds the thread resumed or dead.
LEMMA ResumeFromWaitType ==
    ASSUME TypeOK, NEW t \in Thread, ResumeFromWait(t)
    PROVE  /\ wakeup_callback' \in [Thread -> BOOLEAN]
           /\ ready_queue' \in QueueType
           /\ status' \in [Thread -> Status]
           /\ executing' \in [Core -> BOOLEAN]
           /\ panic' \in SUBSET Assertion
<1>1. ready_queue \in QueueType /\ current_priority[t] \in Priority
  BY DEF TypeOK, QueueType
<1>2. CASE status[t] \in Resumable
  <2>1. wakeup_callback' \in [Thread -> BOOLEAN]
    BY <1>2 DEF ResumeFromWait, TypeOK
  <2>2. ready_queue' \in QueueType
    BY <1>1, <1>2, QueueTypes DEF ResumeFromWait, QueueType
  <2>3. status' \in [Thread -> Status]
    BY <1>2 DEF ResumeFromWait, TypeOK, Status
  <2>4. executing' \in [Core -> BOOLEAN]
    BY <1>2, PrepareRescheduleType DEF ResumeFromWait
  <2>5. panic' \in SUBSET Assertion
    BY <1>2 DEF ResumeFromWait, TypeOK
  <2> QED BY <2>1, <2>2, <2>3, <2>4, <2>5
<1>3. CASE status[t] \notin Resumable
  <2>1. UNCHANGED <<wakeup_callback, ready_queue, status, executing>>
    BY <1>3 DEF ResumeFromWait
  <2>2. panic' \in {panic, panic \cup {"wakeup_callback != nullptr"},
                    panic \cup {"already resumed or dead"}}
    <3>1. CASE status[t] = "Ready" /\ ~wakeup_callback[t]
      BY <1>3, <3>1 DEF ResumeFromWait
    <3>2. CASE status[t] = "Ready" /\ wakeup_callback[t]
      BY <1>3, <3>2 DEF ResumeFromWait
    <3>3. CASE status[t] # "Ready"
      BY <1>3, <3>3 DEF ResumeFromWait
    <3> QED BY <3>1, <3>2, <3>3
  <2>3. panic' \in SUBSET Assertion
    BY <2>2 DEF TypeOK, Assertion
  <2> QED BY <2>1, <2>3 DEF TypeOK, QueueType
<1> QED BY <1>2, <1>3

\* The queues PopNextReadyThread leaves.
LEMMA AfterPopType ==
    ASSUME TypeOK, NEW c \in Core, NEW p \in Priority,
           NEW i \in 1 .. Len(ready_queue[c][p])
    PROVE  /\ AfterPop(c, p, i) \in QueueType
           /\ ready_queue[c][p][i] \in Thread
<1>0. ready_queue \in QueueType
  BY DEF TypeOK, QueueType
<1>1. ready_queue \in QueueType /\ \A q \in Priority : ready_queue[c][q] \in Seq(Thread)
  BY <1>0 DEF QueueType
<1>2. \A q \in Priority : Reversed(ready_queue[c][q]) \in Seq(Thread)
  BY <1>1, ReversedSeq
<1> DEFINE s == ready_queue[c][p]
<1>3. s \in Seq(Thread) /\ i \in 1 .. Len(s) /\ Len(s) \in Nat
  BY <1>1
<1> HIDE DEF s
<1>4. SubSeq(s, i + 1, Len(s)) \in Seq(Thread) /\ SubSeq(s, 1, i - 1) \in Seq(Thread)
  <2>1. \A k \in (i + 1) .. Len(s) : k \in 1 .. Len(s)
    BY <1>3
  <2>2. \A k \in 1 .. (i - 1) : k \in 1 .. Len(s)
    BY <1>3
  <2> QED BY <1>3, <2>1, <2>2
<1>5. Reversed(SubSeq(s, 1, i - 1)) \in Seq(Thread)
  BY <1>4, ReversedSeq
<1>6. Popped(s, i) \in Seq(Thread)
  <2> DEFINE x == SubSeq(s, i + 1, Len(s))
             y == Reversed(SubSeq(s, 1, i - 1))
  <2>1. x \in Seq(Thread) /\ y \in Seq(Thread)
    BY <1>4, <1>5
  <2>2. Popped(s, i) = x \o y
    BY DEF Popped
  <2> HIDE DEF x, y
  <2> QED BY <2>1, <2>2
<1>7. [q \in Priority |->
         IF q < p THEN Reversed(ready_queue[c][q])
         ELSE IF q = p THEN Popped(ready_queue[c][q], i)
         ELSE ready_queue[c][q]] \in [Priority -> Seq(Thread)]
  BY <1>1, <1>2, <1>6 DEF s
<1>8. AfterPop(c, p, i) \in QueueType
  BY <1>1, <1>7 DEF AfterPop, QueueType
<1>9. ready_queue[c][p][i] \in Thread
  BY <1>3 DEF s
<1> QED BY <1>8, <1>9

\* The queues after a pop that took nothing.
LEMMA AfterNoPopType ==
    ASSUME TypeOK, NEW c \in Core
    PROVE  AfterNoPop(c) \in QueueType
<1>0. ready_queue \in QueueType
  BY DEF TypeOK, QueueType
<1>1. ready_queue \in QueueType /\ \A q \in Priority : ready_queue[c][q] \in Seq(Thread)
  BY <1>0 DEF QueueType
<1>2. \A q \in Priority : Reversed(ready_queue[c][q]) \in Seq(Thread)
  BY <1>1, ReversedSeq
<1>3. [q \in Priority |->
         IF q < PopLimit(c) THEN Reversed(ready_queue[c][q]) ELSE ready_queue[c][q]]
        \in [Priority -> Seq(Thread)]
  BY <1>1, <1>2
<1> QED BY <1>1, <1>3 DEF AfterNoPop, QueueType

\* A thread that becomes the current one was not waiting afterwards, and no
\* thread starts to wait or dies.
LEMMA SwitchContextType ==
    ASSUME TypeOK, NEW c \in Core, NEW next \in Thread \cup {None}, NEW q \in QueueType,
           SwitchContext(c, next, q)
    PROVE  /\ current_thread' \in [Core -> Thread \cup {None}]
           /\ executing' \in [Core -> BOOLEAN]
           /\ status' \in [Thread -> Status]
           /\ ready_queue' \in QueueType
           /\ wakeups' \in SUBSET Thread
           /\ panic' \in SUBSET Assertion
           /\ \A t \in Thread : status'[t] = status[t] \/ status'[t] \in {"Ready", "Running"}
<1> DEFINE prev    == current_thread[c]
           yields  == IsRunning(prev)
           status1 == IF yields THEN [status EXCEPT ![prev] = "Ready"] ELSE status
           queue1  == IF yields THEN PushFront(q, prev, current_priority[prev]) ELSE q
<1>1. yields => prev \in Thread
  BY DEF TypeOK, IsRunning
<1>2. status1 \in [Thread -> Status]
      /\ \A t \in Thread : status1[t] = status[t] \/ status1[t] = "Ready"
  BY <1>1 DEF TypeOK, Status
<1>3. queue1 \in QueueType
  <2>1. CASE yields
    <3>1. prev \in Thread /\ current_priority[prev] \in Priority
      BY <1>1, <2>1 DEF TypeOK
    <3> HIDE DEF prev, yields
    <3> QED BY <2>1, <3>1, QueueTypes DEF QueueType
  <2>2. CASE ~yields
    BY <2>2
  <2> QED BY <2>1, <2>2
<1>4. current_thread' \in [Core -> Thread \cup {None}] /\ executing' \in [Core -> BOOLEAN]
  BY DEF SwitchContext, TypeOK
<1>5. next = None => /\ status' = status1 /\ ready_queue' = queue1 /\ UNCHANGED <<wakeups, panic>>
  BY DEF SwitchContext
<1>6. next # None => /\ panic' = IF status1[next] = "Ready" THEN panic
                                 ELSE panic \cup {"Thread must be ready to become running."}
                     /\ wakeups' = CancelWakeup(next)
                     /\ ready_queue' = Dequeue(queue1, next, current_priority[next])
                     /\ status' = [status1 EXCEPT ![next] = "Running"]
  BY DEF SwitchContext
<1> HIDE DEF status1, queue1
<1>7. CASE next = None
  BY <1>2, <1>3, <1>4, <1>5, <1>7 DEF TypeOK
<1>8. CASE next # None
  <2>1. next \in Thread /\ current_priority[next] \in Priority
    BY <1>8 DEF TypeOK
  <2>2. ready_queue' \in QueueType
    <3>1. Dequeue(queue1, next, current_priority[next]) \in QueueType
      BY <1>3, <2>1, QueueTypes DEF QueueType
    <3> QED BY <1>6, <1>8, <3>1
  <2>3. panic' \in SUBSET Assertion
    BY <1>6, <1>8 DEF TypeOK, Assertion
  <2>4. wakeups' \in SUBSET Thread
    BY <1>6, <1>8 DEF TypeOK, CancelWakeup
  <2>5. status' \in [Thread -> Status]
        /\ \A t \in Thread : status'[t] = status[t] \/ status'[t] \in {"Ready", "Running"}
    BY <1>2, <1>6, <1>8, <2>1 DEF Status
  <2> QED BY <1>4, <2>2, <2>3, <2>4, <2>5
<1> QED BY <1>7, <1>8

\* Reschedule of a core.
LEMMA RescheduleType ==
    ASSUME TypeOK, NEW c \in Core, RescheduleCore(c)
    PROVE  /\ TypeOK'
           /\ \A t \in Thread : status'[t] = status[t] \/ status'[t] \in {"Ready", "Running"}
<1>1. \E next \in Thread \cup {None}, q \in QueueType : SwitchContext(c, next, q)
  <2>1. CASE \E p \in Priority : \E i \in 1 .. Len(ready_queue[c][p]) :
               /\ IsNext(c, p, i)
               /\ SwitchContext(c, ready_queue[c][p][i], AfterPop(c, p, i))
    <3>0. PICK p \in Priority : \E i \in 1 .. Len(ready_queue[c][p]) :
               SwitchContext(c, ready_queue[c][p][i], AfterPop(c, p, i))
      BY <2>1
    <3>1. PICK i \in 1 .. Len(ready_queue[c][p]) :
               SwitchContext(c, ready_queue[c][p][i], AfterPop(c, p, i))
      BY <3>0
    <3>2. AfterPop(c, p, i) \in QueueType /\ ready_queue[c][p][i] \in Thread
      BY AfterPopType
    <3> QED BY <3>1, <3>2
  <2>2. CASE SwitchContext(c, IF IsRunning(current_thread[c]) THEN current_thread[c] ELSE None,
                           AfterNoPop(c))
    <3>1. (IF IsRunning(current_thread[c]) THEN current_thread[c] ELSE None)
            \in Thread \cup {None}
      BY DEF TypeOK
    <3> QED BY <2>2, <3>1, AfterNoPopType
  <2> QED BY <2>1, <2>2 DEF RescheduleCore
<1>2. /\ current_thread' \in [Core -> Thread \cup {None}]
      /\ executing' \in [Core -> BOOLEAN]
      /\ status' \in [Thread -> Status]
      /\ ready_queue' \in QueueType
      /\ wakeups' \in SUBSET Thread
      /\ panic' \in SUBSET Assertion
      /\ \A t \in Thread : status'[t] = status[t] \/ status'[t] \in {"Ready", "Running"}
  BY <1>1, SwitchContextType
<1>3. running_core' = None
      /\ UNCHANGED <<nominal_priority, current_priority, held_mutexes, wait_objects,
                     wakeup_callback, result, can_schedule, objectVars, prepared,
                     process_status, thread_count, sync, stop, term>>
  BY DEF RescheduleCore
<1>4. TypeOK'
  BY <1>2, <1>3, ZenonT(30) DEF TypeOK, QueueType, objectVars
<1> QED BY <1>2, <1>4

-------------------------------------------------------------------------------
(* Type correctness                                                        *)

\* The registers of the loops in progress name what the loops work on, and a
\* thread that is being stopped is dead.
PhaseOK ==
    /\ sync.pc = "scan" => sync.obj \in Object
    /\ sync.pc \in {"acquire", "remove", "detach", "add"} => sync.thr \in Thread
    /\ sync.pc = "add" => sync.todo # <<>>
    /\ sync.pc = "detach" => status[sync.thr] = "Dead"
    /\ stop.pc # "idle" => stop.thr \in Thread /\ status[stop.thr] = "Dead"

SyncPC  == {"idle", "scan", "acquire", "remove", "detach", "add", "update"}
SyncSet == [pc : SyncPC, obj : Object \cup {None}, thr : Thread \cup {None},
            todo : Seq(Object), muts : SUBSET Mutex]

\* The registers when they are set afresh.
LEMMA SyncIdleType == SyncIdle \in SyncSet
<1>1. <<>> \in Seq(Object)
  OBVIOUS
<1> QED BY <1>1 DEF SyncIdle, SyncSet, SyncPC

\* The wakeup loop finds a thread: the thread and its objects exist.
LEMMA WakeNextType ==
    ASSUME TypeOK, PhaseOK, WakeNext
    PROVE  TypeOK' /\ PhaseOK'
<1>1. sync.obj \in Object /\ sync.pc = "scan"
  BY DEF PhaseOK, WakeNext, SyncAt
<1>2. PICK i \in 1 .. Len(waiting_threads[sync.obj]) :
        LET t == waiting_threads[sync.obj][i]
        IN  sync' = [sync EXCEPT !.pc = "acquire", !.thr = t,
                         !.todo = IF status[t] = "WaitSynchAll" THEN wait_objects[t]
                                  ELSE <<sync.obj>>]
  BY DEF WakeNext
<1> DEFINE t == waiting_threads[sync.obj][i]
<1>3. t \in Thread
  <2>1. waiting_threads[sync.obj] \in Seq(Thread)
    BY <1>1 DEF TypeOK
  <2> QED BY <2>1
<1>4. wait_objects[t] \in Seq(Object) /\ <<sync.obj>> \in Seq(Object)
  BY <1>1, <1>3 DEF TypeOK
<1>5. UNCHANGED <<threadVars, objectVars, coreVars, process_status, thread_count,
                   running_core, stop, term, panic>>
  BY DEF WakeNext
<1>6. sync' \in SyncSet /\ sync'.pc = "acquire" /\ sync'.thr = t
  <2>1. sync \in SyncSet
    BY DEF TypeOK, SyncSet, SyncPC
  <2> HIDE DEF t
  <2> QED BY <1>2, <1>3, <1>4, <2>1 DEF SyncSet, SyncPC, t
<1>7. PhaseOK'
  BY <1>3, <1>5, <1>6 DEF PhaseOK, threadVars
<1> QED BY <1>5, <1>6, <1>7 DEF TypeOK, SyncSet, SyncPC, threadVars, objectVars, coreVars

\* The wakeup loop ends, or its assertion fails.
LEMMA WakeupDoneType ==
    ASSUME TypeOK, PhaseOK, WakeupDone
    PROVE  TypeOK' /\ PhaseOK'
<1>1. UNCHANGED <<threadVars, waiting_threads, lock_count, holding_thread, mutex_priority,
                  available_count, coreVars, process_status, thread_count, running_core,
                  stop, term>>
  BY DEF WakeupDone
<1>2. CASE Inconsistent(sync.obj)
  <2>1. panic' = panic \cup {"Inconsistent thread statuses in waiting_threads"}
        /\ UNCHANGED <<signaled, sync>>
    BY <1>2 DEF WakeupDone
  <2>2. panic' \in SUBSET Assertion
    BY <2>1 DEF TypeOK, Assertion
  <2>3. PhaseOK'
    BY <1>1, <2>1 DEF PhaseOK, threadVars
  <2>4. UNCHANGED <<signaled, sync>>
    BY <2>1
  <2> QED BY <1>1, <2>2, <2>3, <2>4 DEF TypeOK, threadVars, coreVars
<1>3. CASE ~Inconsistent(sync.obj)
  <2>1. /\ signaled' = [e \in Event |->
                          signaled[e] /\ ~(e = sync.obj /\ ResetType[e] = "Pulse")]
        /\ sync' = SyncIdle /\ UNCHANGED panic
    BY <1>3 DEF WakeupDone
  <2>2. signaled' \in [Event -> BOOLEAN]
    BY <2>1
  <2>3. PhaseOK'
    BY <1>1, <2>1 DEF PhaseOK, threadVars, SyncIdle
  <2>4. sync' \in SyncSet
    BY <2>1, SyncIdleType
  <2> QED BY <1>1, <2>1, <2>2, <2>3, <2>4 DEF TypeOK, SyncSet, SyncPC, threadVars, coreVars
<1> QED BY <1>2, <1>3

\* What acquiring an object may change.
AcquireVarsOK ==
    /\ available_count \in [Semaphore -> Int]
    /\ signaled \in [Event -> BOOLEAN]
    /\ lock_count \in [Mutex -> Nat]
    /\ mutex_priority \in [Mutex -> Priority]
    /\ held_mutexes \in [Thread -> SUBSET Mutex]
    /\ holding_thread \in [Mutex -> Thread \cup {None}]
    /\ current_priority \in [Thread -> Priority]
    /\ ready_queue \in QueueType
    /\ prepared \in [Core -> SUBSET Priority]
    /\ executing \in [Core -> BOOLEAN]

\* Mutex::Acquire counts up and may boost the new holder.
LEMMA AcquireMutexType ==
    ASSUME TypeOK, NEW m \in Mutex, NEW t \in Thread, AcquireMutex(m, t)
    PROVE  AcquireVarsOK'
<1>1. lock_count' \in [Mutex -> Nat]
  BY SMTT(30) DEF AcquireMutex, TypeOK
<1>2. UNCHANGED <<available_count, signaled>>
  BY DEF AcquireMutex
<1>3. CASE lock_count[m] = 0
  <2> DEFINE held == held_mutexes[t] \cup {m}
             mp   == [mutex_priority EXCEPT ![m] = current_priority[t]]
  <2>1. /\ mutex_priority' = mp
        /\ held_mutexes' = [held_mutexes EXCEPT ![t] = held]
        /\ holding_thread' = [holding_thread EXCEPT ![m] = t]
        /\ UpdatePriority(t, held, mp)
        /\ PrepareReschedule
    BY <1>3 DEF AcquireMutex
  <2>2. held \subseteq Mutex
    BY DEF TypeOK
  <2>3. mp \in [Mutex -> Priority]
    BY DEF TypeOK
  <2> HIDE DEF held, mp
  <2>4. /\ ready_queue' \in QueueType
        /\ prepared' \in [Core -> SUBSET Priority]
        /\ current_priority' \in [Thread -> Priority]
    BY <2>1, <2>2, <2>3, UpdatePriorityType
  <2>5. executing' \in [Core -> BOOLEAN]
    BY <2>1, PrepareRescheduleType
  <2>6. held_mutexes' \in [Thread -> SUBSET Mutex]
    BY <2>1, <2>2 DEF TypeOK
  <2>7. holding_thread' \in [Mutex -> Thread \cup {None}]
    BY <2>1 DEF TypeOK
  <2> QED BY <1>1, <1>2, <2>1, <2>3, <2>4, <2>5, <2>6, <2>7 DEF AcquireVarsOK, TypeOK
<1>4. CASE lock_count[m] # 0
  <2>1. UNCHANGED <<mutex_priority, held_mutexes, holding_thread, prioVars, executing>>
    BY <1>4 DEF AcquireMutex
  <2> QED BY <1>1, <1>2, <2>1 DEF AcquireVarsOK, TypeOK, prioVars, QueueType
<1> QED BY <1>3, <1>4

\* Acquire of any kind of object.
LEMMA AcquireType ==
    ASSUME TypeOK, NEW o \in Object, NEW t \in Thread, Acquire(o, t)
    PROVE  AcquireVarsOK'
<1>1. CASE o \in Mutex /\ AcquireMutex(o, t)
  BY <1>1, AcquireMutexType
<1>2. CASE o \in Semaphore /\ AcquireSemaphore(o)
  <2>1. available_count' \in [Semaphore -> Int]
    BY <1>2 DEF AcquireSemaphore, TypeOK
  <2>2. UNCHANGED <<signaled, mutexVars>>
    BY <1>2 DEF AcquireSemaphore
  <2> QED BY <2>1, <2>2 DEF AcquireVarsOK, TypeOK, mutexVars, prioVars, QueueType
<1>3. CASE o \in Event /\ AcquireEvent(o)
  <2>1. signaled' \in [Event -> BOOLEAN]
    BY <1>3 DEF AcquireEvent, TypeOK
  <2>2. UNCHANGED <<available_count, mutexVars>>
    BY <1>3 DEF AcquireEvent
  <2> QED BY <2>1, <2>2 DEF AcquireVarsOK, TypeOK, mutexVars, prioVars, QueueType
<1>4. CASE UNCHANGED <<available_count, signaled, mutexVars>>
  BY <1>4 DEF AcquireVarsOK, TypeOK, mutexVars, prioVars, QueueType
<1> QED BY <1>1, <1>2, <1>3, <1>4 DEF Acquire

\* One object of a wait is acquired, or the assertion fails.
LEMMA AcquireNextType ==
    ASSUME TypeOK, PhaseOK, AcquireNext
    PROVE  TypeOK' /\ PhaseOK'
<1> DEFINE o == Head(sync.todo)
           t == sync.thr
<1>1. sync.todo \in Seq(Object) /\ sync.todo # <<>> /\ sync.pc = "acquire" /\ t \in Thread
  BY DEF TypeOK, PhaseOK, AcquireNext, SyncAt
<1>2. o \in Object /\ Tail(sync.todo) \in Seq(Object)
  BY <1>1, ElemsHeadTail
<1>3. /\ sync' = [sync EXCEPT !.todo = Tail(@)]
      /\ UNCHANGED <<keptVars, status, wait_objects, wakeup_callback, result, wakeups,
                     waiting_threads>>
  BY DEF AcquireNext
<1> HIDE DEF o, t
<1>4. AcquireVarsOK' /\ panic' \in SUBSET Assertion
  <2>1. CASE o \notin Semaphore /\ ShouldWait(o, t)
    <3>1. /\ panic' = panic \cup {"object unavailable!"}
          /\ UNCHANGED <<available_count, signaled, mutexVars>>
      BY <2>1 DEF AcquireNext, o, t
    <3>2. panic' \in SUBSET Assertion
      BY <3>1 DEF TypeOK, Assertion
    <3>3. AcquireVarsOK'
      BY <3>1 DEF AcquireVarsOK, TypeOK, mutexVars, prioVars, QueueType
    <3> QED BY <3>2, <3>3
  <2>2. CASE ~(o \notin Semaphore /\ ShouldWait(o, t))
    <3>1. Acquire(o, t) /\ UNCHANGED panic
      BY <2>2 DEF AcquireNext, o, t
    <3>2. panic' \in SUBSET Assertion
      BY <3>1 DEF TypeOK
    <3> QED BY <1>1, <1>2, <3>1, <3>2, AcquireType
  <2> QED BY <2>1, <2>2
<1>5. sync' \in SyncSet /\ sync'.pc = "acquire" /\ sync'.thr = t
  <2>1. sync \in SyncSet
    BY DEF TypeOK, SyncSet, SyncPC
  <2> QED BY <1>1, <1>2, <1>3, <2>1 DEF SyncSet, SyncPC, t
<1>6. PhaseOK'
  BY <1>1, <1>3, <1>5 DEF PhaseOK, keptVars
<1> QED BY <1>3, <1>4, <1>5, <1>6
        DEF TypeOK, AcquireVarsOK, SyncSet, SyncPC, keptVars, QueueType

\* All objects are acquired: the callback sets the result.
LEMMA AcquireDoneType ==
    ASSUME TypeOK, PhaseOK, AcquireDone
    PROVE  TypeOK' /\ PhaseOK'
<1>1. sync.thr \in Thread /\ wait_objects[sync.thr] \in Seq(Object)
  BY DEF TypeOK, PhaseOK, AcquireDone, SyncAt
<1>2. UNCHANGED <<keptVars, status, wait_objects, wakeup_callback, wakeups, waiting_threads,
                  available_count, signaled, mutexVars, panic>>
  BY DEF AcquireDone
<1>3. result' \in [Thread -> {"None", "Success", "Timeout"}]
  BY <1>1 DEF AcquireDone, TypeOK
<1>4. CASE sync.obj = None
  <2>1. sync' = SyncIdle
    BY <1>4 DEF AcquireDone
  <2>2. sync' \in SyncSet
    BY <2>1, SyncIdleType
  <2>3. PhaseOK'
    BY <1>2, <2>1 DEF PhaseOK, keptVars, SyncIdle
  <2> QED BY <1>2, <1>3, <2>2, <2>3
          DEF TypeOK, SyncSet, SyncPC, keptVars, mutexVars, prioVars
<1>5. CASE sync.obj # None
  <2>1. sync' = [sync EXCEPT !.pc = "remove", !.todo = wait_objects[sync.thr]]
    BY <1>5 DEF AcquireDone, Leaves
  <2>2. sync \in SyncSet
    BY DEF TypeOK, SyncSet, SyncPC
  <2>3. sync' \in SyncSet /\ sync'.pc = "remove" /\ sync'.thr = sync.thr
    BY <1>1, <2>1, <2>2 DEF SyncSet, SyncPC
  <2>4. PhaseOK'
    BY <1>1, <1>2, <2>3 DEF PhaseOK, keptVars
  <2> QED BY <1>2, <1>3, <2>3, <2>4
          DEF TypeOK, SyncSet, SyncPC, keptVars, mutexVars, prioVars
<1> QED BY <1>4, <1>5

\* What changing a waiting list may change.
ListVarsOK ==
    /\ waiting_threads \in [Object -> Seq(Thread)]
    /\ mutex_priority \in [Mutex -> Priority]
    /\ current_priority \in [Thread -> Priority]
    /\ ready_queue \in QueueType
    /\ prepared \in [Core -> SUBSET Priority]

\* A thread leaves one waiting list.
LEMMA RemoveNextType ==
    ASSUME TypeOK, PhaseOK, RemoveNext
    PROVE  TypeOK' /\ PhaseOK'
<1> DEFINE o == Head(sync.todo)
<1>1. sync.todo \in Seq(Object) /\ sync.todo # <<>> /\ sync.pc \in {"remove", "detach"}
      /\ sync.thr \in Thread
  BY DEF TypeOK, PhaseOK, RemoveNext, SyncAt
<1>2. o \in Object /\ Tail(sync.todo) \in Seq(Object)
  BY <1>1, ElemsHeadTail
<1>3. waiting_threads[o] \in Seq(Thread)
  BY <1>2 DEF TypeOK
<1>4. Without(waiting_threads[o], sync.thr) \in Seq(Thread)
  BY <1>3, WithoutSeq
<1>5. /\ SetWaitingThreads(o, Without(waiting_threads[o], sync.thr))
      /\ sync' = [sync EXCEPT !.todo = Tail(@)]
      /\ UNCHANGED <<keptVars, status, held_mutexes, wait_objects, wakeup_callback, result,
                     wakeups, lock_count, holding_thread, available_count, signaled, executing,
                     panic>>
  BY DEF RemoveNext
<1> HIDE DEF o
<1>6. ListVarsOK'
  BY <1>2, <1>4, <1>5, SetWaitingThreadsType DEF ListVarsOK
<1>7. sync' \in SyncSet /\ sync'.pc = sync.pc /\ sync'.thr = sync.thr
  <2>1. sync \in SyncSet
    BY DEF TypeOK, SyncSet, SyncPC
  <2> QED BY <1>2, <1>5, <2>1 DEF SyncSet, SyncPC
<1>8. UNCHANGED <<keptVars, status, held_mutexes, wait_objects, wakeup_callback, result,
                  wakeups, lock_count, holding_thread, available_count, signaled, executing,
                  panic>>
  BY <1>5
<1>9. PhaseOK'
  BY <1>1, <1>7, <1>8 DEF PhaseOK, keptVars
<1> QED BY <1>6, <1>7, <1>8, <1>9 DEF TypeOK, ListVarsOK, SyncSet, SyncPC, keptVars, QueueType

\* A thread has left all waiting lists and is resumed, unless it was stopped.
LEMMA RemoveDoneType ==
    ASSUME TypeOK, PhaseOK, RemoveDone
    PROVE  TypeOK' /\ PhaseOK'
<1>1. sync.pc \in {"remove", "detach"} /\ sync.thr \in Thread
  BY DEF TypeOK, PhaseOK, RemoveDone, SyncAt
<1>2. /\ wait_objects' = [wait_objects EXCEPT ![sync.thr] = <<>>]
      /\ sync' = LoopOn
      /\ UNCHANGED <<keptVars, held_mutexes, result, wakeups, objectVars, current_priority,
                     prepared>>
  BY DEF RemoveDone
<1>3. wait_objects' \in [Thread -> Seq(Object)]
  BY <1>1, <1>2 DEF TypeOK
<1>4. /\ wakeup_callback' \in [Thread -> BOOLEAN]
      /\ ready_queue' \in QueueType
      /\ status' \in [Thread -> Status]
      /\ executing' \in [Core -> BOOLEAN]
      /\ panic' \in SUBSET Assertion
      /\ \A t \in Thread : status[t] = "Dead" => status'[t] = "Dead"
  <2>1. CASE sync.pc = "remove"
    <3>1. ResumeFromWait(sync.thr)
      BY <2>1 DEF RemoveDone
    <3>2. \A t \in Thread : status[t] = "Dead" => status'[t] = "Dead"
      BY <1>1, <3>1 DEF ResumeFromWait, Resumable, Waiting, TypeOK
    <3> QED BY <1>1, <3>1, <3>2, ResumeFromWaitType
  <2>2. CASE sync.pc # "remove"
    <3>1. UNCHANGED <<wakeup_callback, ready_queue, status, executing, panic>>
      BY <2>2 DEF RemoveDone
    <3> QED BY <3>1 DEF TypeOK, QueueType
  <2> QED BY <2>1, <2>2
<1>5. sync' \in SyncSet /\ sync'.pc \in {"idle", "scan"} /\ (sync'.pc = "scan" => sync'.obj \in Object)
  <2>1. CASE sync.obj = None
    BY <1>2, <2>1, SyncIdleType DEF LoopOn, SyncIdle
  <2>2. CASE sync.obj # None
    <3>1. sync.obj \in Object
      BY <2>2 DEF TypeOK
    <3>2. sync' = ScanOf(sync.obj)
      BY <1>2, <2>2 DEF LoopOn, ScanOf
    <3>3. sync'.pc = "scan" /\ sync'.obj = sync.obj
      BY <3>2 DEF ScanOf, SyncIdle
    <3>4. ScanOf(sync.obj) \in SyncSet
      BY <3>1, SyncIdleType DEF ScanOf, SyncSet, SyncPC
    <3> QED BY <3>1, <3>2, <3>3, <3>4
  <2> QED BY <2>1, <2>2
<1>6. UNCHANGED <<keptVars, held_mutexes, result, wakeups, objectVars, current_priority,
                  prepared>>
  BY <1>2
<1>7. PhaseOK'
  <2>1. stop' = stop
    BY <1>6 DEF keptVars
  <2> QED BY <1>4, <1>5, <2>1 DEF PhaseOK
<1> QED BY <1>3, <1>4, <1>5, <1>6, <1>7
        DEF TypeOK, SyncSet, SyncPC, keptVars, QueueType, objectVars

\* A thread enters one waiting list.
LEMMA AddNextType ==
    ASSUME TypeOK, PhaseOK, AddNext
    PROVE  TypeOK' /\ PhaseOK'
<1> DEFINE o    == Head(sync.todo)
           list == waiting_threads[o]
           new  == IF sync.thr \in Elems(list) THEN list ELSE Append(list, sync.thr)
<1>1. sync.todo \in Seq(Object) /\ sync.todo # <<>> /\ sync.pc = "add" /\ sync.thr \in Thread
  BY DEF TypeOK, PhaseOK, AddNext, SyncAt
<1>2. o \in Object /\ Tail(sync.todo) \in Seq(Object)
  BY <1>1, ElemsHeadTail
<1>3. list \in Seq(Thread)
  BY <1>2 DEF TypeOK
<1>4. new \in Seq(Thread)
  BY <1>1, <1>3
<1>5. /\ SetWaitingThreads(o, new)
      /\ sync' = IF Len(sync.todo) = 1 THEN SyncIdle ELSE [sync EXCEPT !.todo = Tail(@)]
  BY DEF AddNext
<1>6. UNCHANGED <<keptVars, status, held_mutexes, wait_objects, wakeup_callback, result,
                  wakeups, lock_count, holding_thread, available_count, signaled, executing,
                  panic>>
  BY DEF AddNext
<1> HIDE DEF o, new
<1>7. ListVarsOK'
  BY <1>2, <1>4, <1>5, SetWaitingThreadsType DEF ListVarsOK
<1>8. sync' \in SyncSet /\ PhaseOK'
  <2>1. CASE Len(sync.todo) = 1
    <3>1. sync' = SyncIdle
      BY <1>5, <2>1
    <3> QED BY <1>6, <3>1, SyncIdleType DEF PhaseOK, keptVars, SyncIdle
  <2>2. CASE Len(sync.todo) # 1
    <3>1. sync' = [sync EXCEPT !.todo = Tail(@)]
      BY <1>5, <2>2
    <3>2. sync \in SyncSet
      BY DEF TypeOK, SyncSet, SyncPC
    <3>3. sync' \in SyncSet /\ sync'.pc = "add" /\ sync'.thr = sync.thr
          /\ sync'.todo = Tail(sync.todo)
      BY <1>1, <1>2, <3>1, <3>2 DEF SyncSet, SyncPC
    <3>4. Tail(sync.todo) # <<>>
      <4> DEFINE rest == Tail(sync.todo)
      <4>1. Len(rest) = Len(sync.todo) - 1 /\ Len(sync.todo) \in Nat
        BY <1>1, HeadTailProperties
      <4> HIDE DEF rest
      <4>2. Len(rest) # 0
        BY <2>2, <4>1
      <4>3. Len(<<>>) = 0
        OBVIOUS
      <4>4. rest # <<>>
        BY <4>2, <4>3, Zenon
      <4> QED BY <4>4 DEF rest
    <3> QED BY <1>1, <1>6, <3>3, <3>4 DEF PhaseOK, keptVars
  <2> QED BY <2>1, <2>2
<1> QED BY <1>6, <1>7, <1>8 DEF TypeOK, ListVarsOK, SyncSet, SyncPC, keptVars, QueueType

\* SetThreadPriority recomputes one mutex the thread waits for.
LEMMA UpdateNextType ==
    ASSUME TypeOK, PhaseOK, UpdateNext
    PROVE  TypeOK' /\ PhaseOK'
<1>1. sync.muts \subseteq Mutex /\ sync.pc = "update"
  BY DEF TypeOK, UpdateNext, SyncAt
<1>2. PICK m \in sync.muts :
         /\ MutexUpdatePriority(m, waiting_threads[m])
         /\ sync' = IF sync.muts = {m} THEN SyncIdle
                    ELSE [sync EXCEPT !.muts = @ \ {m}]
  BY DEF UpdateNext
<1>3. UNCHANGED <<keptVars, status, held_mutexes, wait_objects, wakeup_callback, result,
                  wakeups, waiting_threads, lock_count, holding_thread, available_count,
                  signaled, executing, panic>>
  BY DEF UpdateNext
<1>4. m \in Mutex /\ waiting_threads[m] \in Seq(Thread)
  BY <1>1 DEF TypeOK, Object
<1>5. ListVarsOK'
  <2>1. waiting_threads' \in [Object -> Seq(Thread)]
    BY <1>3 DEF TypeOK
  <2> QED BY <1>2, <1>4, <2>1, MutexUpdatePriorityType DEF ListVarsOK
<1>6. sync' \in SyncSet /\ PhaseOK'
  <2>1. CASE sync.muts = {m}
    <3>1. sync' = SyncIdle
      BY <1>2, <2>1
    <3> QED BY <1>3, <3>1, SyncIdleType DEF PhaseOK, keptVars, SyncIdle
  <2>2. CASE sync.muts # {m}
    <3>1. sync' = [sync EXCEPT !.muts = @ \ {m}]
      BY <1>2, <2>2
    <3>2. sync \in SyncSet
      BY DEF TypeOK, SyncSet, SyncPC
    <3>3. sync' \in SyncSet /\ sync'.pc = "update"
      BY <1>1, <3>1, <3>2 DEF SyncSet, SyncPC
    <3> QED BY <1>3, <3>3 DEF PhaseOK, keptVars
  <2> QED BY <2>1, <2>2
<1> QED BY <1>3, <1>5, <1>6 DEF TypeOK, ListVarsOK, SyncSet, SyncPC, keptVars, QueueType

\* The objects, and the registers of the outer loops.
ObjectTypeOK ==
    /\ waiting_threads \in [Object -> Seq(Thread)]
    /\ lock_count \in [Mutex -> Nat]
    /\ holding_thread \in [Mutex -> Thread \cup {None}]
    /\ mutex_priority \in [Mutex -> Priority]
    /\ available_count \in [Semaphore -> Int]
    /\ signaled \in [Event -> BOOLEAN]

LoopTypeOK ==
    /\ sync \in SyncSet
    /\ stop \in [pc : {"idle", "detach", "mutexes"}, thr : Thread \cup {None},
                 muts : SUBSET Mutex]
    /\ term \in [pc : {"idle", "cores"}, process : Process \cup {None}, core : Nat]

\* Steps that leave the objects alone keep their types.
LEMMA ObjectTypeKept ==
    ASSUME TypeOK, UNCHANGED objectVars
    PROVE  ObjectTypeOK'
BY DEF TypeOK, ObjectTypeOK, objectVars

\* The loop registers, unchanged or with a new sync, are well typed.
LEMMA LoopType ==
    ASSUME TypeOK
    PROVE  /\ LoopTypeOK
           /\ UNCHANGED <<sync, stop, term>> => LoopTypeOK'
           /\ sync' \in SyncSet /\ UNCHANGED <<stop, term>> => LoopTypeOK'
BY DEF TypeOK, LoopTypeOK, SyncSet, SyncPC

\* A call, an event or a reschedule begins with all registers idle.
LEMMA Idle ==
    ASSUME TypeOK, MayBegin
    PROVE  sync.pc = "idle" /\ stop.pc = "idle" /\ term.pc = "idle" /\ panic = {}
BY DEF MayBegin, TermAt, StopAt

\* The thread that makes a call exists.
LEMMA CallerType ==
    ASSUME TypeOK, NEW c \in Core, Calls(c, current_thread[c])
    PROVE  current_thread[c] \in Thread /\ sync.pc = "idle" /\ stop.pc = "idle"
BY DEF TypeOK, Calls, MayBegin, TermAt, StopAt

\* Process::Run creates the main thread, ready or asleep.
LEMMA ProcessRunType ==
    ASSUME TypeOK, PhaseOK, NEW t \in Thread, NEW delayed \in BOOLEAN, ProcessRun(t, delayed)
    PROVE  TypeOK' /\ PhaseOK'
<1>1. sync.pc = "idle" /\ stop.pc = "idle"
  BY Idle DEF ProcessRun, NewThread, WakeAfterDelay
<1>2. ProcessOf[t] \in Process /\ CoreOf[t] \in Core /\ InitPriority[t] \in Priority
  BY KernelAssumption
<1>3. thread_count' \in [Process -> Int]
  BY <1>2 DEF ProcessRun, NewThread, WakeAfterDelay, TypeOK
<1>4. process_status' \in [Process -> {"Created", "Running", "Exited"}]
  BY <1>2 DEF ProcessRun, NewThread, WakeAfterDelay, TypeOK
<1>5. prepared' \in [Core -> SUBSET Priority]
  BY <1>2 DEF ProcessRun, NewThread, WakeAfterDelay, TypeOK
<1>6. status' \in [Thread -> Status]
  BY DEF ProcessRun, NewThread, WakeAfterDelay, TypeOK, Status, Resumable
<1>7. ready_queue' \in QueueType
  <2>1. ready_queue \in QueueType
    BY DEF TypeOK, QueueType
  <2>2. PushBack(ready_queue, t, InitPriority[t]) \in QueueType
    BY <1>2, <2>1, QueueTypes DEF QueueType
  <2> QED BY <2>1, <2>2 DEF ProcessRun, NewThread, WakeAfterDelay
<1>8. wakeups' \in SUBSET Thread
  BY DEF ProcessRun, NewThread, WakeAfterDelay, TypeOK
<1>9. UNCHANGED <<nominal_priority, current_priority, held_mutexes, wait_objects,
                  wakeup_callback, result, can_schedule, objectVars, current_thread, executing,
                  running_core, sync, stop, term, panic>>
  BY DEF ProcessRun, NewThread, WakeAfterDelay
<1>10. PhaseOK'
  BY <1>1, <1>9 DEF PhaseOK
<1>11. ObjectTypeOK' /\ LoopTypeOK'
  BY <1>9, ObjectTypeKept, LoopType
<1> QED BY <1>3, <1>4, <1>5, <1>6, <1>7, <1>8, <1>9, <1>10, <1>11
        DEF TypeOK, ObjectTypeOK, LoopTypeOK, SyncSet, SyncPC, QueueType

\* A wait that need not block starts to acquire.
LEMMA WaitAcquiresType ==
    ASSUME TypeOK, PhaseOK, NEW c \in Core, NEW all \in BOOLEAN, NEW list \in Seq(Object),
           WaitAcquires(c, all, list)
    PROVE  TypeOK' /\ PhaseOK'
<1> DEFINE t == current_thread[c]
<1>1. t \in Thread /\ stop.pc = "idle"
  BY CallerType DEF WaitAcquires
<1>2. /\ running_core' = c
      /\ UNCHANGED <<threadVars, objectVars, coreVars, process_status, thread_count,
                     stop, term, panic>>
  BY DEF WaitAcquires
<1>3. \E todo \in Seq(Object) :
        sync' = [SyncIdle EXCEPT !.pc = "acquire", !.thr = t, !.todo = todo]
  <2>1. CASE sync' = [SyncIdle EXCEPT !.pc = "acquire", !.thr = t, !.todo = list]
    BY <2>1
  <2>2. CASE \E i \in Available(list, t) :
               sync' = [SyncIdle EXCEPT !.pc = "acquire", !.thr = t, !.todo = <<list[i]>>]
    <3>1. PICK i \in 1 .. Len(list) :
               sync' = [SyncIdle EXCEPT !.pc = "acquire", !.thr = t, !.todo = <<list[i]>>]
      BY <2>2 DEF Available
    <3>2. <<list[i]>> \in Seq(Object)
      OBVIOUS
    <3> QED BY <3>1, <3>2
  <2>3. \/ sync' = [SyncIdle EXCEPT !.pc = "acquire", !.thr = t, !.todo = list]
        \/ \E i \in Available(list, t) :
             sync' = [SyncIdle EXCEPT !.pc = "acquire", !.thr = t, !.todo = <<list[i]>>]
    BY DEF WaitAcquires
  <2> QED BY <2>1, <2>2, <2>3
<1>4. sync' \in SyncSet /\ sync'.pc = "acquire" /\ sync'.thr = t
  <2> HIDE DEF t
  <2> QED BY <1>1, <1>3, SyncIdleType DEF SyncSet, SyncPC, SyncIdle
<1>5. PhaseOK'
  BY <1>1, <1>2, <1>4 DEF PhaseOK
<1> QED BY <1>2, <1>4, <1>5 DEF TypeOK, SyncSet, SyncPC, threadVars, objectVars, coreVars

\* A wait that blocks starts to enter the waiting lists.
LEMMA WaitBlocksType ==
    ASSUME TypeOK, PhaseOK, NEW c \in Core, NEW all \in BOOLEAN, NEW list \in Seq(Object),
           NEW timed \in BOOLEAN, WaitBlocks(c, all, list, timed)
    PROVE  TypeOK' /\ PhaseOK'
<1> DEFINE t == current_thread[c]
<1>1. t \in Thread /\ stop.pc = "idle"
  BY CallerType DEF WaitBlocks, WakeAfterDelay
<1>2. /\ status' = [status EXCEPT ![t] = IF all THEN "WaitSynchAll" ELSE "WaitSynchAny"]
      /\ wait_objects' = [wait_objects EXCEPT ![t] = list]
      /\ wakeup_callback' = [wakeup_callback EXCEPT ![t] = TRUE]
      /\ result' = [result EXCEPT ![t] = "Timeout"]
      /\ wakeups' = IF timed THEN wakeups \cup {t} ELSE wakeups
      /\ executing' = EndSlice(c)
      /\ sync' = IF list = <<>> THEN SyncIdle
                 ELSE [SyncIdle EXCEPT !.pc = "add", !.thr = t, !.todo = list]
  BY DEF WaitBlocks, WakeAfterDelay
<1>3. running_core' = c /\ UNCHANGED <<nominal_priority, current_priority, held_mutexes,
                     can_schedule, objectVars, current_thread, ready_queue, prepared,
                     process_status, thread_count, stop, term, panic>>
  BY DEF WaitBlocks, WakeAfterDelay
<1> HIDE DEF t
<1>4. status' \in [Thread -> Status]
  BY <1>1, <1>2 DEF TypeOK, Status, Resumable, Waiting
<1>5. wait_objects' \in [Thread -> Seq(Object)]
  BY <1>1, <1>2 DEF TypeOK
<1>6. wakeup_callback' \in [Thread -> BOOLEAN]
  BY <1>1, <1>2 DEF TypeOK
<1>7. result' \in [Thread -> {"None", "Success", "Timeout"}]
  BY <1>1, <1>2 DEF TypeOK
<1>8. wakeups' \in SUBSET Thread
  BY <1>1, <1>2 DEF TypeOK
<1>9. executing' \in [Core -> BOOLEAN]
  BY <1>1, <1>2 DEF TypeOK, EndSlice
<1>10. sync' \in SyncSet /\ PhaseOK'
  <2>1. CASE list = <<>>
    BY <1>1, <1>2, <1>3, <2>1, SyncIdleType DEF PhaseOK, SyncIdle
  <2>2. CASE list # <<>>
    <3>1. sync' = [SyncIdle EXCEPT !.pc = "add", !.thr = t, !.todo = list]
      BY <1>2, <2>2
    <3>2. sync' \in SyncSet /\ sync'.pc = "add" /\ sync'.thr = t /\ sync'.todo = list
      BY <1>1, <3>1, SyncIdleType DEF SyncSet, SyncPC, SyncIdle
    <3>3. PhaseOK'
      BY <1>1, <1>3, <2>2, <3>2 DEF PhaseOK
    <3> QED BY <3>2, <3>3
  <2> QED BY <2>1, <2>2
<1> QED BY <1>3, <1>4, <1>5, <1>6, <1>7, <1>8, <1>9, <1>10
        DEF TypeOK, SyncSet, SyncPC, objectVars

\* SleepThread.
LEMMA SleepThreadType ==
    ASSUME TypeOK, PhaseOK, NEW c \in Core, NEW timed \in BOOLEAN, SleepThread(c, timed)
    PROVE  TypeOK' /\ PhaseOK'
<1> DEFINE t == current_thread[c]
<1>1. t \in Thread /\ sync.pc = "idle" /\ stop.pc = "idle"
  BY CallerType DEF SleepThread, WakeAfterDelay
<1>2. /\ status' = [status EXCEPT ![t] = "WaitSleep"]
      /\ wakeups' = IF timed THEN wakeups \cup {t} ELSE wakeups
      /\ executing' = EndSlice(c)
  BY DEF SleepThread, WakeAfterDelay
<1>3. UNCHANGED <<nominal_priority, current_priority, held_mutexes, wait_objects,
                  wakeup_callback, result, can_schedule, objectVars, current_thread,
                  ready_queue, prepared, callVars>>
  BY DEF SleepThread, WakeAfterDelay
<1> HIDE DEF t
<1>4. status' \in [Thread -> Status]
  BY <1>1, <1>2 DEF TypeOK, Status, Resumable
<1>5. wakeups' \in SUBSET Thread
  BY <1>1, <1>2 DEF TypeOK
<1>6. executing' \in [Core -> BOOLEAN]
  BY <1>2 DEF TypeOK, EndSlice
<1>7. PhaseOK'
  BY <1>1, <1>3 DEF PhaseOK, callVars
<1> QED BY <1>3, <1>4, <1>5, <1>6, <1>7 DEF TypeOK, objectVars, callVars

\* A wakeup event ends a wait or a sleep.
LEMMA TimeoutFiresType ==
    ASSUME TypeOK, PhaseOK, NEW t \in Thread, TimeoutFires(t)
    PROVE  TypeOK' /\ PhaseOK'
<1>1. sync.pc = "idle" /\ stop.pc = "idle"
  BY Idle DEF TimeoutFires
<1>2. running_core' = None
      /\ UNCHANGED <<nominal_priority, current_priority, held_mutexes, wait_objects,
                     can_schedule, objectVars, current_thread, prepared, process_status,
                     thread_count, stop, term>>
  BY DEF TimeoutFires
<1>3. wakeups' \in SUBSET Thread
  BY DEF TimeoutFires, TypeOK
<1>4. result' \in [Thread -> {"None", "Success", "Timeout"}]
  BY DEF TimeoutFires, ResultAfterTimeout, TypeOK
<1>5. /\ wakeup_callback' \in [Thread -> BOOLEAN]
      /\ ready_queue' \in QueueType
      /\ status' \in [Thread -> Status]
      /\ executing' \in [Core -> BOOLEAN]
      /\ panic' \in SUBSET Assertion
      /\ sync' \in SyncSet
      /\ PhaseOK'
  <2>1. CASE WaitTimesOut(t)
    <3>1. /\ sync' = [SyncIdle EXCEPT !.pc = "remove", !.thr = t, !.todo = wait_objects[t]]
          /\ UNCHANGED <<status, wakeup_callback, ready_queue, executing, panic>>
      BY <2>1 DEF TimeoutFires
    <3>2. wait_objects[t] \in Seq(Object)
      BY DEF TypeOK
    <3>3. sync' \in SyncSet /\ sync'.pc = "remove" /\ sync'.thr = t
      BY <3>1, <3>2, SyncIdleType DEF SyncSet, SyncPC, SyncIdle
    <3>4. PhaseOK'
      BY <1>1, <1>2, <3>3 DEF PhaseOK
    <3> QED BY <3>1, <3>3, <3>4 DEF TypeOK, QueueType
  <2>2. CASE ~WaitTimesOut(t)
    <3>1. ResumeFromWait(t) /\ UNCHANGED sync
      BY <2>2 DEF TimeoutFires
    <3>2. PhaseOK'
      BY <1>1, <1>2, <3>1 DEF PhaseOK
    <3>3. sync' \in SyncSet
      BY <3>1 DEF TypeOK, SyncSet, SyncPC
    <3> QED BY <3>1, <3>2, <3>3, ResumeFromWaitType
  <2> QED BY <2>1, <2>2
<1> QED BY <1>2, <1>3, <1>4, <1>5 DEF TypeOK, SyncSet, SyncPC, objectVars, QueueType

\* CreateThread queues the new thread at its priority.
LEMMA CreateThreadType ==
    ASSUME TypeOK, PhaseOK, NEW c \in Core, NEW t \in Thread, CreateThread(c, t)
    PROVE  TypeOK' /\ PhaseOK'
<1>1. sync.pc = "idle" /\ stop.pc = "idle"
  BY CallerType DEF CreateThread, NewThread
<1>2. ProcessOf[t] \in Process /\ CoreOf[t] \in Core /\ InitPriority[t] \in Priority
  BY KernelAssumption
<1>3. status' \in [Thread -> Status]
  BY DEF CreateThread, NewThread, TypeOK, Status
<1>4. prepared' \in [Core -> SUBSET Priority]
  BY <1>2 DEF CreateThread, NewThread, TypeOK
<1>5. ready_queue' \in QueueType
  <2>1. ready_queue \in QueueType
    BY DEF TypeOK, QueueType
  <2>2. PushBack(ready_queue, t, InitPriority[t]) \in QueueType
    BY <1>2, <2>1, QueueTypes DEF QueueType
  <2> QED BY <2>2 DEF CreateThread, NewThread
<1>6. thread_count' \in [Process -> Int]
  BY <1>2 DEF CreateThread, NewThread, TypeOK
<1>7. executing' \in [Core -> BOOLEAN]
  BY DEF CreateThread, NewThread, TypeOK, EndSlice
<1>8. UNCHANGED <<nominal_priority, current_priority, held_mutexes, wait_objects,
                  wakeup_callback, result, can_schedule, wakeups, objectVars,
                  current_thread, process_status, running_core, sync, stop, term, panic>>
  BY DEF CreateThread, NewThread
<1>9. PhaseOK'
  BY <1>1, <1>8 DEF PhaseOK
<1>10. ObjectTypeOK' /\ LoopTypeOK'
  BY <1>8, ObjectTypeKept, LoopType
<1> QED BY <1>3, <1>4, <1>5, <1>6, <1>7, <1>8, <1>9, <1>10
        DEF TypeOK, ObjectTypeOK, LoopTypeOK, SyncSet, SyncPC, QueueType

\* SetThreadPriority moves the thread and starts the loop over mutexes.
LEMMA SetThreadPriorityType ==
    ASSUME TypeOK, PhaseOK, NEW c \in Core, NEW t \in Thread, NEW p \in Priority,
           SetThreadPriority(c, t, p)
    PROVE  TypeOK' /\ PhaseOK'
<1> DEFINE best    == Best({p} \cup {mutex_priority[m] : m \in held_mutexes[t]})
           pending == {m \in Mutex : t \in Elems(waiting_threads[m])}
           moved   == PushBack(Dequeue(ready_queue, t, current_priority[t]), t, best)
<1>1. sync.pc = "idle" /\ stop.pc = "idle"
  BY CallerType DEF SetThreadPriority
<1>2. /\ nominal_priority' = [nominal_priority EXCEPT ![t] = p]
      /\ current_priority' = [current_priority EXCEPT ![t] = best]
      /\ ready_queue' = IF status[t] = "Ready" THEN moved ELSE ready_queue
      /\ prepared' = [prepared EXCEPT ![CoreOf[t]] = @ \cup {p, best}]
      /\ executing' = EndSlice(c)
      /\ sync' = IF pending = {} THEN SyncIdle
                 ELSE [SyncIdle EXCEPT !.pc = "update", !.muts = pending]
  BY DEF SetThreadPriority
<1>3. running_core' = c
      /\ UNCHANGED <<status, held_mutexes, wait_objects, wakeup_callback, result, can_schedule,
                     wakeups, objectVars, current_thread, process_status, thread_count,
                     stop, term, panic>>
  BY DEF SetThreadPriority
<1>4. best \in Priority
  <2>1. mutex_priority \in [Mutex -> Priority] /\ held_mutexes[t] \subseteq Mutex
    BY DEF TypeOK
  <2> QED BY <2>1, InheritedType
<1>5. pending \in SUBSET Mutex
  OBVIOUS
<1> HIDE DEF best, pending
<1>6. ready_queue' \in QueueType
  <2>1. ready_queue \in QueueType /\ current_priority[t] \in Priority
    BY DEF TypeOK, QueueType
  <2>2. Dequeue(ready_queue, t, current_priority[t]) \in QueueType
    BY <2>1, QueueTypes DEF QueueType
  <2>3. moved \in QueueType
    BY <1>4, <2>2, QueueTypes DEF QueueType
  <2> HIDE DEF moved
  <2> QED BY <1>2, <2>1, <2>3
<1>7. nominal_priority' \in [Thread -> Priority] /\ current_priority' \in [Thread -> Priority]
  BY <1>2, <1>4 DEF TypeOK
<1>8. prepared' \in [Core -> SUBSET Priority]
  BY <1>2, <1>4, KernelAssumption DEF TypeOK
<1>9. executing' \in [Core -> BOOLEAN]
  BY <1>2 DEF TypeOK, EndSlice
<1>10. sync' \in SyncSet /\ sync'.pc \in {"idle", "update"}
  <2>1. CASE pending = {}
    BY <1>2, <2>1, SyncIdleType DEF SyncIdle
  <2>2. CASE pending # {}
    BY <1>2, <1>5, <2>2, SyncIdleType DEF SyncSet, SyncPC, SyncIdle
  <2> QED BY <2>1, <2>2
<1>11. PhaseOK'
  BY <1>1, <1>3, <1>10 DEF PhaseOK
<1>12. ObjectTypeOK' /\ LoopTypeOK'
  BY <1>3, <1>10, ObjectTypeKept, LoopType
<1> QED BY <1>3, <1>6, <1>7, <1>8, <1>9, <1>11, <1>12
        DEF TypeOK, ObjectTypeOK, LoopTypeOK, SyncSet, SyncPC, QueueType

\* BeginStop with what its callers add: the slice of a core ends, a register
\* changes within its type.
LEMMA BeginStopType ==
    ASSUME TypeOK, PhaseOK, NEW t \in Thread, BeginStop(t),
           executing' \in [Core -> BOOLEAN], running_core' \in Core \cup {None},
           term' \in [pc : {"idle", "cores"}, process : Process \cup {None}, core : Nat]
    PROVE  TypeOK' /\ PhaseOK'
<1>1. t \in Object
  BY DEF Object
<1>2. wakeups' \in SUBSET Thread
  BY DEF BeginStop, CancelWakeup, TypeOK
<1>3. ready_queue' \in QueueType
  <2>1. ready_queue \in QueueType /\ current_priority[t] \in Priority
    BY DEF TypeOK, QueueType
  <2>2. Dequeue(ready_queue, t, current_priority[t]) \in QueueType
    BY <2>1, QueueTypes DEF QueueType
  <2> QED BY <2>1, <2>2 DEF BeginStop
<1>4. status' \in [Thread -> Status] /\ status'[t] = "Dead"
  BY DEF BeginStop, TypeOK, Status
<1>5. sync' \in SyncSet /\ sync'.pc = "scan" /\ sync'.obj = t
  <2>1. sync' = ScanOf(t)
    BY DEF BeginStop
  <2> QED BY <1>1, <2>1, SyncIdleType DEF ScanOf, SyncSet, SyncPC, SyncIdle
<1>6. stop' \in [pc : {"idle", "detach", "mutexes"}, thr : Thread \cup {None},
                 muts : SUBSET Mutex]
      /\ stop'.thr = t
  BY DEF BeginStop
<1>7. LoopTypeOK'
  BY <1>5, <1>6 DEF LoopTypeOK
<1>8. PhaseOK'
  BY <1>1, <1>4, <1>5, <1>6 DEF PhaseOK
<1>9. UNCHANGED <<nominal_priority, current_priority, held_mutexes, wait_objects,
                  wakeup_callback, result, can_schedule, objectVars, current_thread,
                  prepared, process_status, thread_count, panic>>
  BY DEF BeginStop
<1>10. ObjectTypeOK'
  BY <1>9, ObjectTypeKept
<1> QED BY <1>2, <1>3, <1>4, <1>7, <1>8, <1>9, <1>10
        DEF TypeOK, ObjectTypeOK, LoopTypeOK, SyncSet, SyncPC, QueueType

\* ExitThread starts to stop the caller.
LEMMA ExitThreadType ==
    ASSUME TypeOK, PhaseOK, NEW c \in Core, ExitThread(c)
    PROVE  TypeOK' /\ PhaseOK'
<1>1. current_thread[c] \in Thread
  BY CallerType DEF ExitThread
<1>2. executing' \in [Core -> BOOLEAN]
  BY DEF ExitThread, EndSlice, TypeOK
<1>3. term' \in [pc : {"idle", "cores"}, process : Process \cup {None}, core : Nat]
  BY DEF ExitThread, TypeOK
<1>4. BeginStop(current_thread[c]) /\ running_core' = c
  BY DEF ExitThread
<1> QED BY <1>1, <1>2, <1>3, <1>4, BeginStopType

\* Steps that leave the threads, the cores and the objects alone.
LEMMA RegistersOnlyType ==
    ASSUME TypeOK, LoopTypeOK', UNCHANGED <<threadVars, objectVars, coreVars>>,
           process_status' \in [Process -> {"Created", "Running", "Exited"}],
           UNCHANGED thread_count, running_core' \in Core \cup {None},
           panic' \in SUBSET Assertion
    PROVE  TypeOK'
<1>1. ObjectTypeOK'
  BY ObjectTypeKept
<1>2. UNCHANGED <<threadVars, coreVars>>
  OBVIOUS
<1> QED BY <1>1, <1>2, ZenonT(30) DEF TypeOK, ObjectTypeOK, LoopTypeOK, SyncSet, SyncPC, threadVars, coreVars

\* Stop: the thread starts to leave its waiting lists.
LEMMA StopDetachType ==
    ASSUME TypeOK, PhaseOK, StopDetach
    PROVE  TypeOK' /\ PhaseOK'
<1>1. stop.thr \in Thread /\ status[stop.thr] = "Dead" /\ stop.pc = "detach"
  BY DEF PhaseOK, StopDetach, StopAt
<1>2. wait_objects[stop.thr] \in Seq(Object) /\ held_mutexes[stop.thr] \in SUBSET Mutex
  BY <1>1 DEF TypeOK
<1>3. /\ sync' = IF wait_objects[stop.thr] = <<>> THEN SyncIdle
                 ELSE [SyncIdle EXCEPT !.pc = "detach", !.thr = stop.thr,
                                       !.todo = wait_objects[stop.thr]]
      /\ stop' = [stop EXCEPT !.pc = "mutexes", !.muts = held_mutexes[stop.thr]]
      /\ UNCHANGED <<threadVars, objectVars, coreVars, process_status, thread_count,
                     running_core, term, panic>>
  BY DEF StopDetach
<1>4. sync' \in SyncSet /\ (sync'.pc = "idle" \/ (sync'.pc = "detach" /\ sync'.thr = stop.thr))
  <2>1. CASE wait_objects[stop.thr] = <<>>
    <3>1. sync' = SyncIdle
      BY <1>3, <2>1
    <3>2. SyncIdle.pc = "idle"
      BY DEF SyncIdle
    <3> QED BY <3>1, <3>2, SyncIdleType
  <2>2. CASE wait_objects[stop.thr] # <<>>
    <3>1. sync' = [SyncIdle EXCEPT !.pc = "detach", !.thr = stop.thr,
                                   !.todo = wait_objects[stop.thr]]
      BY <1>3, <2>2
    <3> QED BY <1>1, <1>2, <3>1, SyncIdleType DEF SyncSet, SyncPC, SyncIdle
  <2> QED BY <2>1, <2>2
<1>5. stop' \in [pc : {"idle", "detach", "mutexes"}, thr : Thread \cup {None},
                 muts : SUBSET Mutex]
      /\ stop'.thr = stop.thr
  BY <1>2, <1>3 DEF TypeOK
<1>6. status' = status
  BY <1>3 DEF threadVars
<1>7. PhaseOK'
  BY <1>1, <1>4, <1>5, <1>6 DEF PhaseOK
<1>8. LoopTypeOK'
  BY <1>3, <1>4, <1>5 DEF LoopTypeOK, TypeOK
<1>9. process_status' \in [Process -> {"Created", "Running", "Exited"}]
      /\ running_core' \in Core \cup {None} /\ panic' \in SUBSET Assertion
  BY <1>3 DEF TypeOK
<1> QED BY <1>3, <1>7, <1>8, <1>9, RegistersOnlyType

\* Stop: one held mutex is released and its waiters are woken.
LEMMA StopReleaseType ==
    ASSUME TypeOK, PhaseOK, StopRelease
    PROVE  TypeOK' /\ PhaseOK'
<1>1. stop.thr \in Thread /\ status[stop.thr] = "Dead" /\ stop.muts \subseteq Mutex
      /\ stop.pc = "mutexes"
  BY DEF TypeOK, PhaseOK, StopRelease, StopAt
<1>2. PICK m \in stop.muts :
         /\ lock_count' = [lock_count EXCEPT ![m] = 0]
         /\ holding_thread' = [holding_thread EXCEPT ![m] = None]
         /\ sync' = ScanOf(m)
         /\ stop' = [stop EXCEPT !.muts = @ \ {m}]
  BY DEF StopRelease, StillToRelease
<1>3. UNCHANGED <<threadVars, waiting_threads, mutex_priority, available_count, signaled,
                  coreVars, process_status, thread_count, running_core, term, panic>>
  BY DEF StopRelease
<1>4. m \in Mutex /\ m \in Object
  BY <1>1 DEF Object
<1>5. lock_count' \in [Mutex -> Nat] /\ holding_thread' \in [Mutex -> Thread \cup {None}]
  BY <1>2, <1>4 DEF TypeOK
<1>6. sync' \in SyncSet /\ sync'.pc = "scan" /\ sync'.obj = m
  BY <1>2, <1>4, SyncIdleType DEF ScanOf, SyncSet, SyncPC, SyncIdle
<1>7. stop' \in [pc : {"idle", "detach", "mutexes"}, thr : Thread \cup {None},
                 muts : SUBSET Mutex]
      /\ stop'.thr = stop.thr
  BY <1>2 DEF TypeOK
<1>8. LoopTypeOK'
  BY <1>3, <1>6, <1>7 DEF LoopTypeOK, TypeOK
<1>9. PhaseOK'
  <2>1. status' = status
    BY <1>3 DEF threadVars
  <2> QED BY <1>1, <1>4, <1>6, <1>7, <2>1 DEF PhaseOK
<1> QED BY <1>3, <1>5, <1>8, <1>9
        DEF TypeOK, LoopTypeOK, SyncSet, SyncPC, threadVars, coreVars

\* Stop: the resource limit is released.
LEMMA StopDoneType ==
    ASSUME TypeOK, PhaseOK, StopDone
    PROVE  TypeOK' /\ PhaseOK'
<1>1. stop.thr \in Thread /\ sync.pc = "idle"
  BY DEF PhaseOK, StopDone, StopAt
<1>2. ProcessOf[stop.thr] \in Process
  BY <1>1, KernelAssumption
<1>3. held_mutexes' \in [Thread -> SUBSET Mutex]
  BY <1>1 DEF StopDone, TypeOK
<1>4. thread_count' \in [Process -> Int]
  BY <1>2 DEF StopDone, TypeOK
<1>5. stop' \in [pc : {"idle", "detach", "mutexes"}, thr : Thread \cup {None},
                 muts : SUBSET Mutex]
      /\ stop'.pc = "idle"
  BY DEF StopDone, StopIdle
<1>6. UNCHANGED <<status, nominal_priority, current_priority, wait_objects, wakeup_callback,
                  result, can_schedule, wakeups, objectVars, coreVars, process_status,
                  running_core, sync, term, panic>>
  BY DEF StopDone
<1>7. LoopTypeOK' /\ ObjectTypeOK'
  BY <1>5, <1>6, ObjectTypeKept DEF LoopTypeOK, TypeOK, SyncSet, SyncPC
<1>8. PhaseOK'
  BY <1>1, <1>5, <1>6 DEF PhaseOK
<1> QED BY <1>3, <1>4, <1>6, <1>7, <1>8
        DEF TypeOK, ObjectTypeOK, LoopTypeOK, SyncSet, SyncPC, coreVars

\* Termination starts with the first core, or the assertion fails.
LEMMA TerminateProcessType ==
    ASSUME TypeOK, PhaseOK, NEW c \in Core, NEW p \in Process, TerminateProcess(c, p)
    PROVE  TypeOK' /\ PhaseOK'
<1>1. /\ running_core' = c
      /\ UNCHANGED <<threadVars, objectVars, coreVars, thread_count, sync, stop>>
  BY DEF TerminateProcess
<1>2. /\ process_status' \in [Process -> {"Created", "Running", "Exited"}]
      /\ term' \in [pc : {"idle", "cores"}, process : Process \cup {None}, core : Nat]
      /\ panic' \in SUBSET Assertion
  <2>1. CASE process_status[p] = "Exited"
    <3>1. panic' = panic \cup {"Process has already exited"} /\ UNCHANGED <<process_status, term>>
      BY <2>1 DEF TerminateProcess
    <3>2. panic' \in SUBSET Assertion
      BY <3>1 DEF TypeOK, Assertion
    <3> QED BY <3>1, <3>2 DEF TypeOK
  <2>2. CASE process_status[p] # "Exited"
    <3>1. /\ process_status' = [process_status EXCEPT ![p] = "Exited"]
          /\ term' = [pc |-> "cores", process |-> p, core |-> 0]
          /\ UNCHANGED panic
      BY <2>2 DEF TerminateProcess
    <3> QED BY <3>1 DEF TypeOK
  <2> QED BY <2>1, <2>2
<1>3. LoopTypeOK'
  BY <1>1, <1>2, LoopType DEF LoopTypeOK
<1>4. PhaseOK'
  BY <1>1 DEF PhaseOK, threadVars
<1> QED BY <1>1, <1>2, <1>3, <1>4, RegistersOnlyType

\* Termination stops a thread that is not current.
LEMMA TermVictimType ==
    ASSUME TypeOK, PhaseOK, TermVictim
    PROVE  TypeOK' /\ PhaseOK'
<1>1. PICK t \in Victims : BeginStop(t)
  BY DEF TermVictim
<1>2. t \in Thread
  BY DEF Victims
<1>3. /\ executing' \in [Core -> BOOLEAN]
      /\ running_core' \in Core \cup {None}
      /\ term' \in [pc : {"idle", "cores"}, process : Process \cup {None}, core : Nat]
  BY DEF TermVictim, TypeOK
<1> QED BY <1>1, <1>2, <1>3, BeginStopType

\* Termination stops the current thread of a core last.
LEMMA TermCurrentType ==
    ASSUME TypeOK, PhaseOK, TermCurrent
    PROVE  TypeOK' /\ PhaseOK'
<1> DEFINE t == current_thread[term.core]
<1>1. term.core \in Core
  BY KernelAssumption DEF TermCurrent, TypeOK, Core
<1>2. t \in Thread \cup {None}
  BY <1>1 DEF TypeOK
<1>3. /\ running_core' \in Core \cup {None}
      /\ term' \in [pc : {"idle", "cores"}, process : Process \cup {None}, core : Nat]
  <2>1. term' = [term EXCEPT !.core = @ + 1] /\ running_core' = running_core
    BY DEF TermCurrent
  <2>2. running_core \in Core \cup {None}
        /\ term \in [pc : {"idle", "cores"}, process : Process \cup {None}, core : Nat]
    BY DEF TypeOK
  <2> HIDE DEF t
  <2> QED BY <2>1, <2>2
<1>4. CASE t # None /\ ProcessOf[t] = term.process
  <2>1. BeginStop(t) /\ PrepareReschedule
    BY <1>4 DEF TermCurrent
  <2>2. executing' \in [Core -> BOOLEAN]
    BY <2>1, PrepareRescheduleType
  <2>3. t \in Thread
    BY <1>2, <1>4
  <2> HIDE DEF t
  <2> QED BY <1>3, <2>1, <2>2, <2>3, BeginStopType
<1>5. CASE ~(t # None /\ ProcessOf[t] = term.process)
  <2>1. UNCHANGED <<threadVars, objectVars, coreVars, process_status, thread_count,
                    sync, stop, panic>>
    BY <1>5 DEF TermCurrent
  <2>2. process_status' \in [Process -> {"Created", "Running", "Exited"}]
        /\ panic' \in SUBSET Assertion
    BY <2>1 DEF TypeOK
  <2>3. LoopTypeOK'
    BY <1>3, <2>1, LoopType DEF LoopTypeOK
  <2>4. PhaseOK'
    BY <2>1 DEF PhaseOK, threadVars
  <2> QED BY <1>3, <2>1, <2>2, <2>3, <2>4, RegistersOnlyType
<1> QED BY <1>4, <1>5

\* Termination ends.
LEMMA TermDoneType ==
    ASSUME TypeOK, PhaseOK, TermDone
    PROVE  TypeOK' /\ PhaseOK'
<1>1. term' = TermIdle
      /\ UNCHANGED <<threadVars, objectVars, coreVars, process_status, thread_count,
                     running_core, sync, stop, panic>>
  BY DEF TermDone
<1>2. term' \in [pc : {"idle", "cores"}, process : Process \cup {None}, core : Nat]
  BY <1>1 DEF TermIdle
<1>3. LoopTypeOK'
  BY <1>1, <1>2, LoopType DEF LoopTypeOK
<1>4. PhaseOK'
  BY <1>1 DEF PhaseOK, threadVars
<1>5. process_status' \in [Process -> {"Created", "Running", "Exited"}]
      /\ running_core' \in Core \cup {None} /\ panic' \in SUBSET Assertion
  BY <1>1 DEF TypeOK
<1> QED BY <1>1, <1>3, <1>4, <1>5, RegistersOnlyType

\* ControlProcess only touches can_schedule.
LEMMA ControlProcessType ==
    ASSUME TypeOK, PhaseOK, NEW c \in Core, NEW p \in Process, NEW S \in Controllable,
           NEW stopped \in BOOLEAN, ControlProcess(c, p, S, stopped)
    PROVE  TypeOK' /\ PhaseOK'
<1>1. can_schedule' \in [Thread -> BOOLEAN]
  BY DEF ControlProcess, TypeOK
<1>2. UNCHANGED <<status, nominal_priority, current_priority, held_mutexes, wait_objects,
                  wakeup_callback, result, wakeups, objectVars, coreVars, callVars>>
  BY DEF ControlProcess
<1>3. ObjectTypeOK' /\ LoopTypeOK'
  BY <1>2, ObjectTypeKept, LoopType DEF callVars
<1>4. PhaseOK'
  BY <1>2 DEF PhaseOK, callVars
<1> QED BY <1>1, <1>2, <1>3, <1>4
        DEF TypeOK, ObjectTypeOK, LoopTypeOK, SyncSet, SyncPC, coreVars, callVars

\* ReleaseMutex counts a held mutex down, and at zero gives it up.
LEMMA ReleaseMutexType ==
    ASSUME TypeOK, PhaseOK, NEW c \in Core, NEW m \in Mutex, ReleaseMutex(c, m)
    PROVE  TypeOK' /\ PhaseOK'
<1> DEFINE t    == current_thread[c]
           held == HeldAfterRelease(t, m)
<1>1. t \in Thread /\ stop.pc = "idle" /\ sync.pc = "idle"
  BY CallerType DEF ReleaseMutex
<1>2. /\ running_core' = c
      /\ UNCHANGED <<status, nominal_priority, wait_objects, wakeup_callback, result,
                     can_schedule, wakeups, waiting_threads, mutex_priority,
                     available_count, signaled, current_thread, process_status,
                     thread_count, stop, term, panic>>
  BY DEF ReleaseMutex
<1>3. lock_count' \in [Mutex -> Nat]
  <2>1. lock_count[m] > 0 /\ lock_count' = [lock_count EXCEPT ![m] = @ - 1]
    BY DEF ReleaseMutex
  <2>2. lock_count \in [Mutex -> Nat]
    BY DEF TypeOK
  <2> QED BY <2>1, <2>2
<1>4. held \subseteq Mutex
  BY <1>1 DEF HeldAfterRelease, TypeOK
<1>5. /\ held_mutexes' \in [Thread -> SUBSET Mutex]
      /\ holding_thread' \in [Mutex -> Thread \cup {None}]
      /\ current_priority' \in [Thread -> Priority]
      /\ ready_queue' \in QueueType
      /\ prepared' \in [Core -> SUBSET Priority]
      /\ executing' \in [Core -> BOOLEAN]
      /\ sync' \in SyncSet
      /\ sync'.pc = "idle" \/ (sync'.pc = "scan" /\ sync'.obj \in Object)
  <2>1. CASE lock_count[m] = 1
    <3>1. /\ held_mutexes' = [held_mutexes EXCEPT ![t] = held]
          /\ UpdatePriority(t, held, mutex_priority)
          /\ holding_thread' = [holding_thread EXCEPT ![m] = None]
          /\ executing' = EndSlice(c)
          /\ sync' = ScanOf(m)
      BY <2>1 DEF ReleaseMutex
    <3> HIDE DEF held
    <3>2. held_mutexes' \in [Thread -> SUBSET Mutex]
      BY <1>4, <3>1 DEF TypeOK
    <3>3. holding_thread' \in [Mutex -> Thread \cup {None}]
      BY <3>1 DEF TypeOK
    <3>4. executing' \in [Core -> BOOLEAN]
      BY <3>1 DEF TypeOK, EndSlice
    <3>5. m \in Object
      BY DEF Object
    <3>6. sync' \in SyncSet /\ sync'.pc = "scan" /\ sync'.obj \in Object
      BY <3>1, <3>5, SyncIdleType DEF ScanOf, SyncSet, SyncPC, SyncIdle
    <3>7. mutex_priority \in [Mutex -> Priority]
      BY DEF TypeOK
    <3>8. /\ ready_queue' \in QueueType
          /\ prepared' \in [Core -> SUBSET Priority]
          /\ current_priority' \in [Thread -> Priority]
      BY <1>1, <1>4, <3>1, <3>7, UpdatePriorityType
    <3> QED BY <3>2, <3>3, <3>4, <3>6, <3>8
  <2>2. CASE lock_count[m] # 1
    <3>1. UNCHANGED <<held_mutexes, prioVars, holding_thread, executing, sync>>
      BY <2>2 DEF ReleaseMutex
    <3> QED BY <1>1, <3>1 DEF TypeOK, prioVars, QueueType, SyncSet, SyncPC
  <2> QED BY <2>1, <2>2
<1>6. LoopTypeOK'
  BY <1>2, <1>5, LoopType
<1>7. PhaseOK'
  BY <1>1, <1>2, <1>5 DEF PhaseOK
<1> QED BY <1>2, <1>3, <1>5, <1>6, <1>7 DEF TypeOK, LoopTypeOK, SyncSet, SyncPC, QueueType

\* ReleaseSemaphore, SignalEvent and ServiceSignal.
LEMMA SignalType ==
    ASSUME TypeOK, PhaseOK, NEW o \in Object, sync' = ScanOf(o), stop.pc = "idle",
           available_count' \in [Semaphore -> Int], signaled' \in [Event -> BOOLEAN],
           running_core' \in Core \cup {None},
           UNCHANGED <<threadVars, waiting_threads, lock_count, holding_thread, mutex_priority,
                       coreVars, process_status, thread_count, stop, term, panic>>
    PROVE  TypeOK' /\ PhaseOK'
<1>1. sync' \in SyncSet /\ sync'.pc = "scan" /\ sync'.obj = o
  BY SyncIdleType DEF ScanOf, SyncSet, SyncPC, SyncIdle
<1>2. LoopTypeOK'
  BY <1>1, LoopType
<1>3. PhaseOK'
  BY <1>1 DEF PhaseOK
<1>4. ObjectTypeOK'
  BY DEF TypeOK, ObjectTypeOK
<1>5. UNCHANGED <<threadVars, coreVars, process_status, thread_count, panic>>
  OBVIOUS
<1> QED BY <1>2, <1>3, <1>4, <1>5, ZenonT(30)
        DEF TypeOK, ObjectTypeOK, LoopTypeOK, SyncSet, SyncPC, threadVars, coreVars

\* ReleaseSemaphore keeps the count an integer.
LEMMA ReleaseSemaphoreType ==
    ASSUME TypeOK, PhaseOK, NEW c \in Core, NEW s \in Semaphore, NEW n \in ReleaseCounts,
           ReleaseSemaphore(c, s, n)
    PROVE  TypeOK' /\ PhaseOK'
<1>1. stop.pc = "idle"
  BY CallerType DEF ReleaseSemaphore
<1>2. n \in Int
  BY SvcAssumption
<1>3. available_count' \in [Semaphore -> Int]
  <2>1. available_count' = [available_count EXCEPT ![s] = @ + n]
    BY DEF ReleaseSemaphore
  <2>2. available_count \in [Semaphore -> Int]
    BY DEF TypeOK
  <2> QED BY <1>2, <2>1, <2>2
<1>4. s \in Object
  BY DEF Object
<1>5. /\ sync' = ScanOf(s) /\ running_core' = c
      /\ UNCHANGED <<threadVars, waiting_threads, lock_count, holding_thread, mutex_priority,
                     signaled, coreVars, process_status, thread_count, stop, term, panic>>
  BY DEF ReleaseSemaphore
<1>6. signaled' \in [Event -> BOOLEAN]
  BY <1>5 DEF TypeOK
<1> QED BY <1>1, <1>3, <1>4, <1>5, <1>6, SignalType

\* SignalEvent starts a wakeup loop.
LEMMA SignalEventType ==
    ASSUME TypeOK, PhaseOK, NEW e \in Event, Signal(e), stop.pc = "idle",
           running_core' \in Core \cup {None}
    PROVE  TypeOK' /\ PhaseOK'
<1>1. e \in Object
  BY DEF Object
<1>2. signaled' \in [Event -> BOOLEAN]
  BY DEF Signal, TypeOK
<1>3. /\ sync' = ScanOf(e)
      /\ UNCHANGED <<threadVars, waiting_threads, lock_count, holding_thread, mutex_priority,
                     available_count, coreVars, process_status, thread_count, stop, term, panic>>
  BY DEF Signal
<1>4. available_count' \in [Semaphore -> Int]
  BY <1>3 DEF TypeOK
<1> QED BY <1>1, <1>2, <1>3, <1>4, SignalType

\* ClearEvent.
LEMMA ClearEventType ==
    ASSUME TypeOK, PhaseOK, NEW c \in Core, NEW e \in Event, ClearEvent(c, e)
    PROVE  TypeOK' /\ PhaseOK'
<1>1. signaled' \in [Event -> BOOLEAN]
  BY DEF ClearEvent, TypeOK
<1>2. UNCHANGED <<threadVars, waiting_threads, lock_count, holding_thread, mutex_priority,
                  available_count, coreVars, callVars>>
  BY DEF ClearEvent
<1>3. ObjectTypeOK'
  BY <1>1, <1>2 DEF TypeOK, ObjectTypeOK
<1>4. LoopTypeOK'
  BY <1>2, LoopType DEF callVars
<1>5. PhaseOK'
  BY <1>2 DEF PhaseOK, callVars, threadVars
<1>6. UNCHANGED <<threadVars, coreVars, callVars>>
  BY <1>2
<1> QED BY <1>3, <1>4, <1>5, <1>6
        DEF TypeOK, ObjectTypeOK, LoopTypeOK, SyncSet, SyncPC, threadVars, coreVars, callVars

\* A reschedule leaves the call registers idle.
LEMMA RescheduleStepType ==
    ASSUME TypeOK, PhaseOK, NEW c \in Core, Reschedule(c)
    PROVE  TypeOK' /\ PhaseOK'
<1>1. sync.pc = "idle" /\ stop.pc = "idle"
  BY Idle DEF Reschedule
<1>2. UNCHANGED <<sync, stop>>
  BY DEF Reschedule, RescheduleCore
<1>3. PhaseOK'
  BY <1>1, <1>2 DEF PhaseOK
<1> QED BY <1>3, RescheduleType DEF Reschedule

\* Every system call.
LEMMA ThreadCallType ==
    ASSUME TypeOK, PhaseOK, NEW c \in Core, ThreadCall(c)
    PROVE  TypeOK' /\ PhaseOK'
<1>1. \A t \in Thread : \A list \in WaitLists[t] : list \in Seq(Object)
  BY SvcAssumption
<1>2. CASE WaitReturns(c)
  BY <1>1, <1>2, WaitAcquiresType DEF WaitReturns
<1>3. CASE WaitBegins(c)
  BY <1>1, <1>3, WaitBlocksType DEF WaitBegins
<1>4. CASE \E timed \in BOOLEAN : SleepThread(c, timed)
  BY <1>4, SleepThreadType
<1>5. CASE \E t \in Thread : CreateThread(c, t)
  BY <1>5, CreateThreadType
<1>6. CASE \E t \in Thread, p \in SetPriorities : SetThreadPriority(c, t, p)
  <2>1. SetPriorities \subseteq Priority
    BY SvcAssumption
  <2> QED BY <1>6, <2>1, SetThreadPriorityType
<1>7. CASE ExitThread(c)
  BY <1>7, ExitThreadType
<1>8. CASE \E p \in Process : TerminateProcess(c, p)
  BY <1>8, TerminateProcessType
<1>9. CASE \E p \in Process, S \in Controllable, stopped \in BOOLEAN :
             ControlProcess(c, p, S, stopped)
  BY <1>9, ControlProcessType
<1>10. CASE \E m \in Mutex : ReleaseMutex(c, m)
  BY <1>10, ReleaseMutexType
<1>11. CASE \E s \in Semaphore, n \in ReleaseCounts : ReleaseSemaphore(c, s, n)
  BY <1>11, ReleaseSemaphoreType
<1>12. CASE \E e \in Event : SignalEvent(c, e)
  <2>1. PICK e \in Event : SignalEvent(c, e)
    BY <1>12
  <2>2. Calls(c, current_thread[c]) /\ Signal(e) /\ running_core' = c
    BY <2>1 DEF SignalEvent
  <2>3. stop.pc = "idle"
    BY <2>2, CallerType
  <2> QED BY <2>2, <2>3, SignalEventType
<1>13. CASE \E e \in Event : ClearEvent(c, e)
  BY <1>13, ClearEventType
<1> QED BY <1>2, <1>3, <1>4, <1>5, <1>6, <1>7, <1>8, <1>9, <1>10, <1>11, <1>12, <1>13, ThreadCall(c)
        DEF ThreadCall

\* Every step inside a kernel call keeps the types.
LEMMA KernelStepType ==
    ASSUME TypeOK, PhaseOK, KernelStep
    PROVE  TypeOK' /\ PhaseOK'
<1>1. CASE SyncStep
  BY <1>1, WakeNextType, WakeupDoneType, AcquireNextType, AcquireDoneType, RemoveNextType,
     RemoveDoneType, AddNextType, UpdateNextType DEF SyncStep
<1>2. CASE StopStep
  BY <1>2, StopDetachType, StopReleaseType, StopDoneType DEF StopStep
<1>3. CASE TermStep
  BY <1>3, TermVictimType, TermCurrentType, TermDoneType DEF TermStep
<1> QED BY <1>1, <1>2, <1>3 DEF KernelStep

\* Every step of the system keeps the types.
LEMMA StepType ==
    ASSUME TypeOK, PhaseOK, [Next]_vars
    PROVE  TypeOK' /\ PhaseOK'
<1>1. CASE KernelStep
  BY <1>1, KernelStepType
<1>2. CASE \E c \in Core : ThreadCall(c) \/ Reschedule(c)
  BY <1>2, ThreadCallType, RescheduleStepType
<1>3. CASE \E t \in Thread : TimeoutFires(t)
  BY <1>3, TimeoutFiresType
<1>4. CASE \E t \in Thread, delayed \in BOOLEAN : ProcessRun(t, delayed)
  BY <1>4, ProcessRunType
<1>5. CASE \E e \in Event : ServiceSignal(e)
  <2>1. PICK e \in Event : MayBegin /\ Signal(e) /\ running_core' = None
    BY <1>5 DEF ServiceSignal
  <2>2. stop.pc = "idle"
    BY <2>1, Idle
  <2> QED BY <2>1, <2>2, SignalEventType
<1>6. CASE UNCHANGED vars
  <2>1. UNCHANGED <<threadVars, objectVars, coreVars, callVars>>
    BY <1>6 DEF vars
  <2>2. ObjectTypeOK' /\ LoopTypeOK'
    BY <2>1, ObjectTypeKept, LoopType DEF callVars
  <2>3. PhaseOK'
    BY <2>1 DEF PhaseOK, callVars, threadVars
  <2> QED BY <2>1, <2>2, <2>3
          DEF TypeOK, ObjectTypeOK, LoopTypeOK, SyncSet, SyncPC, threadVars, coreVars, callVars
<1> QED BY <1>1, <1>2, <1>3, <1>4, <1>5, <1>6 DEF Next

\* The initial state is well typed.
LEMMA InitType == Init => TypeOK /\ PhaseOK
<1> SUFFICES ASSUME Init PROVE TypeOK /\ PhaseOK
  OBVIOUS
<1>1. \A S : <<>> \in Seq(S)
  OBVIOUS
<1>2. 0 \in Priority
  BY KernelAssumption DEF Priority
<1>3. /\ status \in [Thread -> Status]
      /\ nominal_priority \in [Thread -> Priority]
      /\ current_priority \in [Thread -> Priority]
      /\ held_mutexes \in [Thread -> SUBSET Mutex]
      /\ wait_objects \in [Thread -> Seq(Object)]
      /\ wakeup_callback \in [Thread -> BOOLEAN]
      /\ result \in [Thread -> {"None", "Success", "Timeout"}]
      /\ can_schedule \in [Thread -> BOOLEAN]
      /\ wakeups \in SUBSET Thread
  BY <1>1, KernelAssumption DEF Init, Status
<1>4. ObjectTypeOK
  <2>1. available_count \in [Semaphore -> Int]
    BY KernelAssumption DEF Init
  <2>2. waiting_threads \in [Object -> Seq(Thread)]
    BY <1>1 DEF Init
  <2> QED BY <1>2, <2>1, <2>2 DEF Init, ObjectTypeOK
<1>5. /\ current_thread \in [Core -> Thread \cup {None}]
      /\ ready_queue \in QueueType
      /\ prepared \in [Core -> SUBSET Priority]
      /\ executing \in [Core -> BOOLEAN]
  BY <1>1 DEF Init, QueueType
<1>6. /\ process_status \in [Process -> {"Created", "Running", "Exited"}]
      /\ thread_count \in [Process -> Int]
      /\ running_core \in Core \cup {None}
      /\ panic \in SUBSET Assertion
  BY DEF Init
<1>7. sync = SyncIdle /\ stop = StopIdle /\ term = TermIdle
  BY DEF Init
<1>8. LoopTypeOK
  BY <1>7, SyncIdleType DEF LoopTypeOK, StopIdle, TermIdle
<1>9. PhaseOK
  BY <1>7 DEF PhaseOK, SyncIdle, StopIdle
<1> QED BY <1>3, <1>4, <1>5, <1>6, <1>8, <1>9
        DEF TypeOK, ObjectTypeOK, LoopTypeOK, SyncSet, SyncPC, QueueType

\* The kernel's variables keep their types, whatever the guest does: no loop
\* looks at a null thread or object, and every priority stays a level of the
\* ready queues.
THEOREM TypeCorrect == Spec => []TypeOK
<1>1. Init => TypeOK /\ PhaseOK
  BY InitType
<1>2. TypeOK /\ PhaseOK /\ [Next]_vars => (TypeOK /\ PhaseOK)'
  BY StepType
<1> QED BY <1>1, <1>2, PTL DEF Spec

-------------------------------------------------------------------------------
(* Lists without repetitions                                               *)

Distinct(s) == \A i, j \in 1 .. Len(s) : s[i] = s[j] => i = j

\* push_back of a thread that is not queued.
LEMMA AppendDistinct ==
    ASSUME NEW T, NEW s \in Seq(T), NEW x \in T, x \notin Elems(s), Distinct(s)
    PROVE  Elems(Append(s, x)) = Elems(s) \cup {x} /\ Distinct(Append(s, x))
<1> DEFINE a == Append(s, x)
<1>1. /\ Len(a) = Len(s) + 1 /\ Len(s) \in Nat
      /\ a[Len(s) + 1] = x /\ \A i \in 1 .. Len(s) : a[i] = s[i]
  OBVIOUS
<1> HIDE DEF a
<1>2. \A i \in 1 .. Len(a) : i \in 1 .. Len(s) \/ i = Len(s) + 1
  BY <1>1
<1>3. \A i \in 1 .. Len(s) : s[i] # x
  BY DEF Elems
<1>4. Elems(a) = Elems(s) \cup {x}
  <2>1. Elems(a) \subseteq Elems(s) \cup {x}
    BY <1>1, <1>2 DEF Elems
  <2>2. 1 .. Len(s) \subseteq 1 .. Len(a) /\ Len(s) + 1 \in 1 .. Len(a)
    BY <1>1
  <2>3. Elems(s) \cup {x} \subseteq Elems(a)
    BY <1>1, <2>2 DEF Elems
  <2> QED BY <2>1, <2>3
<1>5. Distinct(a)
  BY <1>1, <1>2, <1>3, Zenon DEF Distinct
<1> QED BY <1>4, <1>5 DEF a

\* push_front of a thread that is not queued.
LEMMA PrependDistinct ==
    ASSUME NEW T, NEW s \in Seq(T), NEW x \in T, x \notin Elems(s), Distinct(s)
    PROVE  Elems(<<x>> \o s) = Elems(s) \cup {x} /\ Distinct(<<x>> \o s)
<1> DEFINE a == <<x>> \o s
<1>1. /\ Len(a) = Len(s) + 1 /\ Len(s) \in Nat
      /\ a[1] = x /\ \A i \in 1 .. Len(s) : a[i + 1] = s[i]
  OBVIOUS
<1> HIDE DEF a
<1>2. \A i \in 1 .. Len(a) : i = 1 \/ (i - 1 \in 1 .. Len(s) /\ a[i] = s[i - 1])
  <2> SUFFICES ASSUME NEW i \in 1 .. Len(a), i # 1 PROVE i - 1 \in 1 .. Len(s) /\ a[i] = s[i - 1]
    OBVIOUS
  <2>1. i - 1 \in 1 .. Len(s) /\ (i - 1) + 1 = i
    BY <1>1
  <2> QED BY <1>1, <2>1
<1>3. \A i \in 1 .. Len(s) : s[i] # x
  BY DEF Elems
<1>4. Elems(a) = Elems(s) \cup {x}
  <2>1. Elems(a) \subseteq Elems(s) \cup {x}
    BY <1>1, <1>2 DEF Elems
  <2>2. 1 \in 1 .. Len(a) /\ \A i \in 1 .. Len(s) : i + 1 \in 1 .. Len(a)
    BY <1>1
  <2>3. Elems(s) \cup {x} \subseteq Elems(a)
    BY <1>1, <2>2 DEF Elems
  <2> QED BY <2>1, <2>3
<1>5. Distinct(a)
  <2> SUFFICES ASSUME NEW i \in 1 .. Len(a), NEW j \in 1 .. Len(a), a[i] = a[j] PROVE i = j
    BY DEF Distinct
  <2>1. CASE i = 1 \/ j = 1
    BY <1>1, <1>2, <1>3, <2>1
  <2>2. CASE i # 1 /\ j # 1
    <3>1. i - 1 = j - 1
      BY <1>2, <2>2 DEF Distinct
    <3> QED BY <1>1, <3>1
  <2> QED BY <2>1, <2>2
<1> QED BY <1>4, <1>5 DEF a

\* Removal of a thread, queued or not.
LEMMA WithoutDistinct ==
    ASSUME NEW T, NEW s \in Seq(T), NEW x, Distinct(s)
    PROVE  Elems(Without(s, x)) = Elems(s) \ {x} /\ Distinct(Without(s, x))
<1>1. CASE \E i \in 1 .. Len(s) : s[i] = x
  <2> DEFINE k == CHOOSE i \in 1 .. Len(s) : s[i] = x
             w == [j \in 1 .. Len(s) - 1 |-> IF j < k THEN s[j] ELSE s[j + 1]]
             From(j) == IF j < k THEN j ELSE j + 1
  <2>1. k \in 1 .. Len(s) /\ s[k] = x /\ Len(s) \in Nat
    BY <1>1
  <2>2. Without(s, x) = w
    BY <1>1 DEF Without
  <2> HIDE DEF k
  <2>3. Len(w) = Len(s) - 1 /\ DOMAIN w = 1 .. Len(s) - 1
    <3>1. w \in Seq(T)
      BY <2>2, WithoutSeq
    <3>2. DOMAIN w = 1 .. Len(s) - 1 /\ Len(s) - 1 \in Nat
      BY <2>1
    <3> HIDE DEF w
    <3> QED BY <3>1, <3>2, LenProperties
  <2>4. \A j \in 1 .. Len(s) - 1 : w[j] = s[From(j)] /\ From(j) \in 1 .. Len(s) /\ From(j) # k
    BY <2>1
  <2>5. \A i, j \in 1 .. Len(s) - 1 : From(i) = From(j) => i = j
    BY <2>1
  <2>6. \A n \in 1 .. Len(s) : n # k => \E j \in 1 .. Len(s) - 1 : From(j) = n
    <3> SUFFICES ASSUME NEW n \in 1 .. Len(s), n # k PROVE \E j \in 1 .. Len(s) - 1 : From(j) = n
      OBVIOUS
    <3>1. CASE n < k
      <4>1. n \in 1 .. Len(s) - 1 /\ From(n) = n
        BY <2>1, <3>1
      <4> QED BY <4>1
    <3>2. CASE n > k
      <4>1. n - 1 \in 1 .. Len(s) - 1 /\ From(n - 1) = n
        BY <2>1, <3>2
      <4> QED BY <4>1
    <3> QED BY <2>1, <3>1, <3>2
  <2> HIDE DEF w, From
  <2>7. Distinct(w)
    BY <2>3, <2>4, <2>5 DEF Distinct
  <2>8. Elems(w) \subseteq Elems(s) \ {x}
    BY <2>1, <2>3, <2>4 DEF Elems, Distinct
  <2>9. ASSUME NEW y \in Elems(s), y # x PROVE y \in Elems(w)
    <3>1. PICK n \in 1 .. Len(s) : s[n] = y
      BY DEF Elems
    <3>2. n # k
      BY <2>1, <2>9, <3>1
    <3>3. PICK j \in 1 .. Len(s) - 1 : From(j) = n
      BY <2>6, <3>2
    <3> QED BY <2>3, <2>4, <3>1, <3>3 DEF Elems
  <2> QED BY <2>2, <2>7, <2>8, <2>9
<1>2. CASE ~ \E i \in 1 .. Len(s) : s[i] = x
  <2>1. Without(s, x) = s /\ x \notin Elems(s)
    BY <1>2 DEF Without, Elems
  <2> QED BY <2>1
<1> QED BY <1>1, <1>2

\* Threads popped and pushed back change places only.
LEMMA ReversedDistinct ==
    ASSUME NEW T, NEW s \in Seq(T), Distinct(s)
    PROVE  /\ Reversed(s) \in Seq(T) /\ Len(Reversed(s)) = Len(s)
           /\ Elems(Reversed(s)) = Elems(s) /\ Distinct(Reversed(s))
<1> DEFINE r == Reversed(s)
<1>1. r \in Seq(T)
  BY ReversedSeq
<1>2. Len(s) \in Nat /\ DOMAIN r = 1 .. Len(s)
  BY DEF Reversed
<1>3. Len(r) = Len(s)
  BY <1>1, <1>2, LenProperties
<1>4. \A i \in 1 .. Len(s) : r[i] = s[Len(s) + 1 - i] /\ Len(s) + 1 - i \in 1 .. Len(s)
  BY <1>2 DEF Reversed
<1>5. \A i \in 1 .. Len(s) : \E j \in 1 .. Len(s) : Len(s) + 1 - j = i
  <2> SUFFICES ASSUME NEW i \in 1 .. Len(s) PROVE \E j \in 1 .. Len(s) : Len(s) + 1 - j = i
    OBVIOUS
  <2>1. Len(s) + 1 - i \in 1 .. Len(s) /\ Len(s) + 1 - (Len(s) + 1 - i) = i
    BY <1>2
  <2> QED BY <2>1
<1>6. \A i, j \in 1 .. Len(s) : Len(s) + 1 - i = Len(s) + 1 - j => i = j
  BY <1>2
<1> HIDE DEF r
<1>7. Elems(r) \subseteq Elems(s)
  BY <1>3, <1>4 DEF Elems
<1>8. ASSUME NEW x \in Elems(s) PROVE x \in Elems(r)
  <2>1. PICK i \in 1 .. Len(s) : s[i] = x
    BY DEF Elems
  <2>2. PICK j \in 1 .. Len(s) : Len(s) + 1 - j = i
    BY <1>5
  <2> QED BY <1>3, <1>4, <2>1, <2>2 DEF Elems
<1>9. Distinct(r)
  BY <1>3, <1>4, <1>6 DEF Distinct
<1> QED BY <1>1, <1>3, <1>7, <1>8, <1>9 DEF r

\* Taking the thread at position i, those before it pushed back.
LEMMA PoppedDistinct ==
    ASSUME NEW T, NEW s \in Seq(T), Distinct(s), NEW i \in 1 .. Len(s)
    PROVE  Elems(Popped(s, i)) = Elems(s) \ {s[i]} /\ Distinct(Popped(s, i))
<1> DEFINE x == SubSeq(s, i + 1, Len(s))
           z == SubSeq(s, 1, i - 1)
           y == Reversed(z)
           a == x \o y
<1>0. Popped(s, i) = a
  BY DEF Popped
<1>1. Len(s) \in Nat /\ i \in Nat
  OBVIOUS
<1>2. x \in Seq(T) /\ Len(x) = Len(s) - i /\ \A j \in 1 .. Len(s) - i : x[j] = s[i + j]
  BY <1>1
<1>3. z \in Seq(T) /\ Len(z) = i - 1 /\ \A j \in 1 .. i - 1 : z[j] = s[j]
  BY <1>1
<1> HIDE DEF x, z
<1>4. Distinct(z)
  BY <1>1, <1>3 DEF Distinct
<1>5. y \in Seq(T) /\ Len(y) = i - 1 /\ Elems(y) = Elems(z) /\ Distinct(y)
  BY <1>3, <1>4, ReversedDistinct
<1> HIDE DEF y
<1>6. Distinct(x)
  BY <1>1, <1>2, SMTT(30) DEF Distinct
<1>7. Elems(x) = {s[k] : k \in (i + 1) .. Len(s)}
  <2>1. \A k \in (i + 1) .. Len(s) : k - i \in 1 .. Len(s) - i /\ x[k - i] = s[k]
    <3> SUFFICES ASSUME NEW k \in (i + 1) .. Len(s)
                 PROVE  k - i \in 1 .. Len(s) - i /\ x[k - i] = s[k]
      OBVIOUS
    <3>1. k - i \in 1 .. Len(s) - i /\ i + (k - i) = k
      BY <1>1
    <3> QED BY <1>2, <3>1
  <2>2. \A j \in 1 .. Len(s) - i : i + j \in (i + 1) .. Len(s)
    BY <1>1
  <2> QED BY <1>2, <2>1, <2>2 DEF Elems
<1>8. Elems(y) = {s[k] : k \in 1 .. i - 1}
  BY <1>3, <1>5 DEF Elems
<1>9. Elems(x) \cap Elems(y) = {} /\ s[i] \notin Elems(x) /\ s[i] \notin Elems(y)
  <2>1. \A k \in (i + 1) .. Len(s), l \in 1 .. i - 1 : s[k] # s[l]
    BY <1>1 DEF Distinct
  <2>2. \A k \in (i + 1) .. Len(s) : s[k] # s[i]
    BY <1>1 DEF Distinct
  <2>3. \A k \in 1 .. i - 1 : s[k] # s[i]
    BY <1>1 DEF Distinct
  <2> QED BY <1>7, <1>8, <2>1, <2>2, <2>3
<1>10. Elems(s) = Elems(x) \cup Elems(y) \cup {s[i]}
  <2>1. 1 .. Len(s) = ((i + 1) .. Len(s)) \cup (1 .. i - 1) \cup {i}
    BY <1>1
  <2> QED BY <1>7, <1>8, <2>1 DEF Elems
<1>11. /\ Len(a) = Len(x) + Len(y) /\ Len(x) \in Nat /\ Len(y) \in Nat
       /\ \A j \in 1 .. Len(x) : a[j] = x[j]
       /\ \A j \in 1 .. Len(y) : a[Len(x) + j] = y[j]
  <2>1. x \in Seq(T) /\ y \in Seq(T)
    BY <1>2, <1>5
  <2>2. Len(x) \in Nat /\ Len(y) \in Nat /\ a \in Seq(T) /\ Len(a) = Len(x) + Len(y)
    BY <2>1
  <2>3. \A j \in 1 .. Len(x) : a[j] = x[j]
    BY <2>1, <2>2
  <2>4. ASSUME NEW j \in 1 .. Len(y) PROVE a[Len(x) + j] = y[j]
    <3>1. Len(x) + j \in 1 .. Len(x) + Len(y) /\ Len(x) + j > Len(x) /\ (Len(x) + j) - Len(x) = j
      BY <2>2
    <3> QED BY <2>1, <2>2, <3>1
  <2> QED BY <2>2, <2>3, <2>4
<1> HIDE DEF a
<1>12. \A j \in 1 .. Len(a) : \/ j \in 1 .. Len(x) /\ a[j] = x[j]
                              \/ j > Len(x) /\ j - Len(x) \in 1 .. Len(y) /\ a[j] = y[j - Len(x)]
  <2> SUFFICES ASSUME NEW j \in 1 .. Len(a), ~(j \in 1 .. Len(x))
               PROVE  j > Len(x) /\ j - Len(x) \in 1 .. Len(y) /\ a[j] = y[j - Len(x)]
    BY <1>11
  <2>1. j > Len(x) /\ j - Len(x) \in 1 .. Len(y) /\ Len(x) + (j - Len(x)) = j
    BY <1>11
  <2> QED BY <1>11, <2>1
<1>13. Elems(a) = Elems(x) \cup Elems(y)
  <2>1. Elems(a) \subseteq Elems(x) \cup Elems(y)
    BY <1>12 DEF Elems
  <2>2. (\A j \in 1 .. Len(x) : j \in 1 .. Len(a)) /\ (\A j \in 1 .. Len(y) : Len(x) + j \in 1 .. Len(a))
    BY <1>11
  <2>3. Elems(x) \cup Elems(y) \subseteq Elems(a)
    BY <1>11, <2>2 DEF Elems
  <2> QED BY <2>1, <2>3
<1>14. Distinct(a)
  <2> SUFFICES ASSUME NEW j \in 1 .. Len(a), NEW k \in 1 .. Len(a), a[j] = a[k] PROVE j = k
    BY DEF Distinct
  <2>1. \A m \in 1 .. Len(x), n \in 1 .. Len(y) : x[m] # y[n]
    BY <1>9 DEF Elems
  <2>2. CASE j \in 1 .. Len(x) /\ k \in 1 .. Len(x)
    BY <1>6, <1>11, <2>2 DEF Distinct
  <2>3. CASE j \notin 1 .. Len(x) /\ k \notin 1 .. Len(x)
    <3>1. j - Len(x) = k - Len(x)
      BY <1>5, <1>12, <2>3 DEF Distinct
    <3> QED BY <1>11, <3>1
  <2>4. CASE j \in 1 .. Len(x) /\ k \notin 1 .. Len(x)
    BY <1>11, <1>12, <2>1, <2>4
  <2>5. CASE j \notin 1 .. Len(x) /\ k \in 1 .. Len(x)
    BY <1>11, <1>12, <2>1, <2>5
  <2> QED BY <2>2, <2>3, <2>4, <2>5
<1> QED BY <1>0, <1>9, <1>10, <1>13, <1>14

-------------------------------------------------------------------------------
(* Ready queues                                                            *)

\* The queues q hold exactly the threads that are ready by st, once, at the level
\* cp gives them.
QueueOK(q, st, cp) ==
    /\ \A c \in Core, p \in Priority, t \in Thread :
         t \in Elems(q[c][p]) <=> st[t] = "Ready" /\ CoreOf[t] = c /\ cp[t] = p
    /\ \A c \in Core, p \in Priority : Distinct(q[c][p])

LEMMA QueuesExact == ReadyExactlyQueued <=> QueueOK(ready_queue, status, current_priority)
BY DEF ReadyExactlyQueued, QueueOK, Distinct

\* push_back and push_front of a thread that becomes ready.
LEMMA PushOK ==
    ASSUME NEW q \in QueueType, NEW st \in [Thread -> Status], NEW cp \in [Thread -> Priority],
           QueueOK(q, st, cp), NEW t \in Thread, st[t] # "Ready"
    PROVE  /\ QueueOK(PushBack(q, t, cp[t]), [st EXCEPT ![t] = "Ready"], cp)
           /\ QueueOK(PushFront(q, t, cp[t]), [st EXCEPT ![t] = "Ready"], cp)
<1> DEFINE c == CoreOf[t]
           p == cp[t]
           old == q[c][p]
           st1 == [st EXCEPT ![t] = "Ready"]
<1>1. c \in Core /\ p \in Priority /\ old \in Seq(Thread)
  BY KernelAssumption DEF QueueType
<1>2. t \notin Elems(old) /\ Distinct(old)
  BY <1>1 DEF QueueOK
<1>3. \A u \in Thread : st1[u] = IF u = t THEN "Ready" ELSE st[u]
  OBVIOUS
<1> HIDE DEF st1, c, p, old
<1>4. ASSUME NEW new, Elems(new) = Elems(old) \cup {t}, Distinct(new),
             NEW r, \A d \in Core, l \in Priority :
                      r[d][l] = IF d = c /\ l = p THEN new ELSE q[d][l]
      PROVE  QueueOK(r, st1, cp)
  <2>1. ASSUME NEW d \in Core, NEW l \in Priority, NEW u \in Thread
        PROVE  u \in Elems(r[d][l]) <=> st1[u] = "Ready" /\ CoreOf[u] = d /\ cp[u] = l
    <3>1. u \in Elems(q[d][l]) <=> st[u] = "Ready" /\ CoreOf[u] = d /\ cp[u] = l
      BY DEF QueueOK
    <3>2. CASE d = c /\ l = p
      <4>1. u \in Elems(r[d][l]) <=> u \in Elems(q[d][l]) \/ u = t
        BY <1>4, <3>2 DEF old
      <4> QED BY <1>3, <3>1, <3>2, <4>1 DEF c, p
    <3>3. CASE ~(d = c /\ l = p)
      <4>1. r[d][l] = q[d][l]
        BY <1>4, <3>3
      <4> QED BY <1>3, <3>1, <3>3, <4>1 DEF c, p
    <3> QED BY <3>2, <3>3
  <2>2. \A d \in Core, l \in Priority : Distinct(r[d][l])
    BY <1>4 DEF QueueOK
  <2> QED BY <2>1, <2>2 DEF QueueOK
<1>5. QueueOK(PushBack(q, t, p), st1, cp)
  <2>1. Elems(Append(old, t)) = Elems(old) \cup {t} /\ Distinct(Append(old, t))
    BY <1>1, <1>2, AppendDistinct
  <2>2. \A d \in Core, l \in Priority :
          PushBack(q, t, p)[d][l] = IF d = c /\ l = p THEN Append(old, t) ELSE q[d][l]
    <3>1. PushBack(q, t, p) = [q EXCEPT ![c][p] = Append(old, t)]
      BY DEF PushBack, c, old
    <3> DEFINE new == Append(old, t)
    <3> HIDE DEF new
    <3>2. \A d \in Core, l \in Priority :
            [q EXCEPT ![c][p] = new][d][l] = IF d = c /\ l = p THEN new ELSE q[d][l]
      BY <1>1 DEF QueueType
    <3> QED BY <3>1, <3>2 DEF new
  <2> QED BY <1>4, <2>1, <2>2
<1>6. QueueOK(PushFront(q, t, p), st1, cp)
  <2>1. Elems(<<t>> \o old) = Elems(old) \cup {t} /\ Distinct(<<t>> \o old)
    BY <1>1, <1>2, PrependDistinct
  <2>2. \A d \in Core, l \in Priority :
          PushFront(q, t, p)[d][l] = IF d = c /\ l = p THEN <<t>> \o old ELSE q[d][l]
    <3>1. PushFront(q, t, p) = [q EXCEPT ![c][p] = <<t>> \o old]
      BY DEF PushFront, c, old
    <3> DEFINE new == <<t>> \o old
    <3> HIDE DEF new
    <3>2. \A d \in Core, l \in Priority :
            [q EXCEPT ![c][p] = new][d][l] = IF d = c /\ l = p THEN new ELSE q[d][l]
      BY <1>1 DEF QueueType
    <3> QED BY <3>1, <3>2 DEF new
  <2> QED BY <1>4, <2>1, <2>2
<1> QED BY <1>5, <1>6 DEF st1, p

\* remove of a thread that is no longer ready, queued or not.
LEMMA DequeueOK ==
    ASSUME NEW q \in QueueType, NEW st \in [Thread -> Status], NEW cp \in [Thread -> Priority],
           QueueOK(q, st, cp), NEW t \in Thread, NEW x \in Status, x # "Ready"
    PROVE  QueueOK(Dequeue(q, t, cp[t]), [st EXCEPT ![t] = x], cp)
<1> DEFINE c == CoreOf[t]
           p == cp[t]
           old == q[c][p]
           st1 == [st EXCEPT ![t] = x]
           r == Dequeue(q, t, p)
<1>1. c \in Core /\ p \in Priority /\ old \in Seq(Thread)
  BY KernelAssumption DEF QueueType
<1>2. Distinct(old)
  BY <1>1 DEF QueueOK
<1>3. \A u \in Thread : st1[u] = IF u = t THEN x ELSE st[u]
  OBVIOUS
<1> HIDE DEF st1, c, p, old
<1>4. Elems(Without(old, t)) = Elems(old) \ {t} /\ Distinct(Without(old, t))
  BY <1>1, <1>2, WithoutDistinct
<1>5. \A d \in Core, l \in Priority :
        r[d][l] = IF d = c /\ l = p THEN Without(old, t) ELSE q[d][l]
  <2>1. r = [q EXCEPT ![c][p] = Without(old, t)]
    BY DEF Dequeue, c, old
  <2> DEFINE new == Without(old, t)
  <2> HIDE DEF new
  <2>2. \A d \in Core, l \in Priority :
          [q EXCEPT ![c][p] = new][d][l] = IF d = c /\ l = p THEN new ELSE q[d][l]
    BY <1>1 DEF QueueType
  <2> QED BY <2>1, <2>2 DEF new
<1> HIDE DEF r
<1>6. ASSUME NEW d \in Core, NEW l \in Priority, NEW u \in Thread
      PROVE  u \in Elems(r[d][l]) <=> st1[u] = "Ready" /\ CoreOf[u] = d /\ cp[u] = l
  <2>1. u \in Elems(q[d][l]) <=> st[u] = "Ready" /\ CoreOf[u] = d /\ cp[u] = l
    BY DEF QueueOK
  <2>2. CASE d = c /\ l = p
    <3>1. u \in Elems(r[d][l]) <=> u \in Elems(q[d][l]) /\ u # t
      BY <1>4, <1>5, <2>2 DEF old
    <3> QED BY <1>3, <2>1, <2>2, <3>1
  <2>3. CASE ~(d = c /\ l = p)
    <3>1. r[d][l] = q[d][l]
      BY <1>5, <2>3
    <3> QED BY <1>3, <2>1, <2>3, <3>1 DEF c, p
  <2> QED BY <2>2, <2>3
<1>7. \A d \in Core, l \in Priority : Distinct(r[d][l])
  BY <1>4, <1>5 DEF QueueOK
<1>8. QueueOK(r, st1, cp)
  BY <1>6, <1>7 DEF QueueOK
<1> QED BY <1>8 DEF r, st1, p

\* What the queues depend on.
LEMMA QueueSame ==
    ASSUME NEW q, NEW st, NEW cp, QueueOK(q, st, cp), NEW st1, NEW cp1,
           \A t \in Thread : (st1[t] = "Ready" <=> st[t] = "Ready") /\ (st[t] = "Ready" => cp1[t] = cp[t])
    PROVE  QueueOK(q, st1, cp1)
BY DEF QueueOK

\* move of a ready thread to another level.
LEMMA MoveOK ==
    ASSUME NEW q \in QueueType, NEW st \in [Thread -> Status], NEW cp \in [Thread -> Priority],
           QueueOK(q, st, cp), NEW t \in Thread, NEW p \in Priority
    PROVE  QueueOK(IF st[t] = "Ready" THEN PushBack(Dequeue(q, t, cp[t]), t, p) ELSE q,
                   st, [cp EXCEPT ![t] = p])
<1> DEFINE cp1 == [cp EXCEPT ![t] = p]
<1>1. CASE st[t] = "Ready"
  <2> DEFINE st1 == [st EXCEPT ![t] = "Dead"]
             r == Dequeue(q, t, cp[t])
  <2>1. QueueOK(r, st1, cp)
    BY DequeueOK DEF Status
  <2>2. r \in QueueType /\ st1 \in [Thread -> Status] /\ cp1 \in [Thread -> Priority]
    BY QueueTypes DEF QueueType, Status
  <2>3. st1[t] = "Dead" /\ cp1[t] = p /\ \A u \in Thread : u # t => cp1[u] = cp[u]
    OBVIOUS
  <2> HIDE DEF r, st1, cp1
  <2>4. QueueOK(r, st1, cp1)
    BY <2>1, <2>3, QueueSame
  <2>5. QueueOK(PushBack(r, t, p), [st1 EXCEPT ![t] = "Ready"], cp1)
    BY <2>2, <2>3, <2>4, PushOK
  <2>6. [st1 EXCEPT ![t] = "Ready"] = st
    BY <1>1 DEF st1
  <2> QED BY <1>1, <2>5, <2>6 DEF r, cp1
<1>2. CASE st[t] # "Ready"
  <2>1. \A u \in Thread : st[u] = "Ready" => cp1[u] = cp[u]
    BY <1>2
  <2> HIDE DEF cp1
  <2>2. QueueOK(q, st, cp1)
    BY <2>1, QueueSame
  <2> QED BY <1>2, <2>2 DEF cp1
<1> QED BY <1>1, <1>2

\* PopNextReadyThread takes one ready thread of the core and loses no other.
LEMMA AfterPopOK ==
    ASSUME TypeOK, QueueOK(ready_queue, status, current_priority), NEW c \in Core,
           NEW p \in Priority, NEW i \in 1 .. Len(ready_queue[c][p])
    PROVE  LET next == ready_queue[c][p][i]
           IN  /\ next \in Thread /\ status[next] = "Ready" /\ CoreOf[next] = c
               /\ QueueOK(AfterPop(c, p, i), [status EXCEPT ![next] = "Dead"], current_priority)
<1> DEFINE next == ready_queue[c][p][i]
           st1 == [status EXCEPT ![next] = "Dead"]
           r == AfterPop(c, p, i)
<1>1. ready_queue \in QueueType /\ status \in [Thread -> Status]
  BY DEF TypeOK, QueueType
<1>2. next \in Thread /\ next \in Elems(ready_queue[c][p])
  BY AfterPopType DEF Elems
<1>3. status[next] = "Ready" /\ CoreOf[next] = c /\ current_priority[next] = p
  BY <1>2 DEF QueueOK
<1>4. \A u \in Thread : st1[u] = IF u = next THEN "Dead" ELSE status[u]
  BY <1>1
<1>5. \A d \in Core, l \in Priority : ready_queue[d][l] \in Seq(Thread) /\ Distinct(ready_queue[d][l])
  BY <1>1 DEF QueueOK, QueueType
<1>6. \A d \in Core, l \in Priority :
        r[d][l] = IF d = c THEN IF l < p THEN Reversed(ready_queue[c][l])
                                ELSE IF l = p THEN Popped(ready_queue[c][l], i)
                                ELSE ready_queue[c][l]
                  ELSE ready_queue[d][l]
  BY <1>1 DEF AfterPop, QueueType
<1>7. Elems(Popped(ready_queue[c][p], i)) = Elems(ready_queue[c][p]) \ {next}
      /\ Distinct(Popped(ready_queue[c][p], i))
  BY <1>5, PoppedDistinct
<1>8. \A l \in Priority : Elems(Reversed(ready_queue[c][l])) = Elems(ready_queue[c][l])
                          /\ Distinct(Reversed(ready_queue[c][l]))
  BY <1>5, ReversedDistinct
<1> HIDE DEF next, st1, r
<1>9. ASSUME NEW d \in Core, NEW l \in Priority
      PROVE  /\ Distinct(r[d][l])
             /\ Elems(r[d][l]) = IF d = c /\ l = p THEN Elems(ready_queue[d][l]) \ {next}
                                 ELSE Elems(ready_queue[d][l])
  <2>1. CASE d # c
    BY <1>5, <1>6, <2>1
  <2>2. CASE d = c /\ l = p
    <3>1. p \in Int /\ ~(l < p)
      BY <2>2 DEF Priority
    <3>2. r[d][l] = Popped(ready_queue[c][p], i)
      BY <1>6, <2>2, <3>1
    <3> QED BY <1>7, <2>2, <3>2
  <2>3. CASE d = c /\ l # p
    <3>1. r[d][l] = Reversed(ready_queue[d][l]) \/ r[d][l] = ready_queue[d][l]
      BY <1>6, <2>3
    <3> QED BY <1>5, <1>8, <2>3, <3>1
  <2> QED BY <2>1, <2>2, <2>3
<1>10. ASSUME NEW d \in Core, NEW l \in Priority, NEW u \in Thread
       PROVE  u \in Elems(r[d][l]) <=> st1[u] = "Ready" /\ CoreOf[u] = d /\ current_priority[u] = l
  <2>1. u \in Elems(ready_queue[d][l]) <=>
          status[u] = "Ready" /\ CoreOf[u] = d /\ current_priority[u] = l
    BY DEF QueueOK
  <2>2. CASE u = next
    BY <1>3, <1>4, <1>9, <2>1, <2>2
  <2>3. CASE u # next
    <3>1. u \in Elems(r[d][l]) <=> u \in Elems(ready_queue[d][l])
      BY <1>9, <2>3
    <3> QED BY <1>4, <2>1, <2>3, <3>1
  <2> QED BY <2>2, <2>3
<1>11. QueueOK(r, st1, current_priority)
  BY <1>9, <1>10 DEF QueueOK
<1> QED BY <1>2, <1>3, <1>11 DEF next, st1, r

\* A pop that takes nobody loses nobody.
LEMMA AfterNoPopOK ==
    ASSUME TypeOK, QueueOK(ready_queue, status, current_priority), NEW c \in Core
    PROVE  QueueOK(AfterNoPop(c), status, current_priority)
<1> DEFINE r == AfterNoPop(c)
<1>1. ready_queue \in QueueType
  BY DEF TypeOK, QueueType
<1>2. \A d \in Core, l \in Priority : ready_queue[d][l] \in Seq(Thread) /\ Distinct(ready_queue[d][l])
  BY <1>1 DEF QueueOK, QueueType
<1>3. \A d \in Core, l \in Priority :
        r[d][l] = ready_queue[d][l] \/ r[d][l] = Reversed(ready_queue[d][l])
  BY <1>1 DEF AfterNoPop, QueueType
<1>4. \A d \in Core, l \in Priority : Elems(Reversed(ready_queue[d][l])) = Elems(ready_queue[d][l])
                                      /\ Distinct(Reversed(ready_queue[d][l]))
  BY <1>2, ReversedDistinct
<1> HIDE DEF r
<1>5. \A d \in Core, l \in Priority : Distinct(r[d][l]) /\ Elems(r[d][l]) = Elems(ready_queue[d][l])
  BY <1>2, <1>3, <1>4
<1>6. QueueOK(r, status, current_priority)
  BY <1>5 DEF QueueOK
<1> QED BY <1>6 DEF r

-------------------------------------------------------------------------------
(* The invariant                                                           *)

\* A running thread is the current one of its core, a core that executes has a
\* current thread, and that thread runs unless its process has ended.
Placed ==
    /\ \A c \in Core : current_thread[c] # None =>
         CoreOf[current_thread[c]] = c /\ status[current_thread[c]] # "None"
    /\ ExecutingIsRunning

\* Nothing is known of a thread before it is created.
Unborn(t) ==
    /\ current_priority[t] = InitPriority[t] /\ nominal_priority[t] = InitPriority[t]
    /\ held_mutexes[t] = {} /\ wait_objects[t] = <<>> /\ ~wakeup_callback[t]
    /\ \A m \in Mutex : holding_thread[m] # t

Births ==
    \A t \in Thread :
      /\ status[t] = "None" => Unborn(t)
      /\ process_status[ProcessOf[t]] = "Created" => status[t] = "None"

\* A wakeup callback is set while its thread waits for objects.
Callbacks == \A t \in Thread : wakeup_callback[t] => status[t] \in Waiting \cup {"Dead"}

\* The loops in progress work on threads in the state they expect.
Loops ==
    /\ sync.pc = "acquire" /\ sync.obj # None => status[sync.thr] \in Waiting
    /\ sync.pc = "acquire" /\ sync.obj = None =>
         /\ status[sync.thr] = "Running" /\ stop.pc = "idle" /\ term.pc = "idle"
    /\ sync.pc \in {"remove", "add"} => status[sync.thr] \in Waiting

\* Threads of an ended process are dead on the cores TerminateProcess has done.
Ends ==
    /\ term.pc = "cores" => term.process \in Process /\ process_status[term.process] = "Exited"
                            /\ term.core <= NumCores
    /\ \A t \in Thread : process_status[ProcessOf[t]] = "Exited" =>
         \/ status[t] \in {"None", "Dead"}
         \/ term.pc = "cores" /\ term.process = ProcessOf[t] /\ term.core <= CoreOf[t]

SchedInv ==
    /\ QueueOK(ready_queue, status, current_priority)
    /\ Placed /\ Births /\ Callbacks /\ Loops /\ Ends
    /\ NoStaleTimeout /\ LevelsPrepared

-------------------------------------------------------------------------------
(* Steps that change no thread's status                                    *)

\* Priorities may have moved, in a way the queues followed.
PrioStep ==
    /\ QueueOK(ready_queue', status, current_priority')
    /\ \A t \in Thread :
         IF status[t] = "None" THEN current_priority'[t] = current_priority[t]
         ELSE current_priority'[t] \in prepared'[CoreOf[t]]

\* Nothing about an unborn thread has changed, and no slice has begun.
StillStep ==
    /\ UNCHANGED <<status, current_thread, wakeups, wakeup_callback>>
    /\ \A c \in Core : executing'[c] => executing[c]
    /\ \A t \in Thread : status[t] = "None" =>
         /\ nominal_priority'[t] = nominal_priority[t] /\ held_mutexes'[t] = held_mutexes[t]
         /\ wait_objects'[t] = wait_objects[t]
         /\ \A m \in Mutex : holding_thread'[m] = t => holding_thread[m] = t

\* process_status is what it was, or a running process ends.
LEMMA StillKeeps ==
    ASSUME TypeOK, SchedInv, PrioStep, StillStep, Loops', Ends',
           \A p \in Process : process_status'[p] = process_status[p] \/ process_status'[p] = "Exited"
    PROVE  SchedInv'
<1>1. UNCHANGED <<status, current_thread, wakeups, wakeup_callback>>
  BY DEF StillStep
<1>2. QueueOK(ready_queue, status, current_priority)'
  BY <1>1 DEF PrioStep
<1>3. \A t \in Thread : ProcessOf[t] \in Process
  BY KernelAssumption
<1>4. Placed'
  <2>1. \A c \in Core : current_thread[c] # None =>
          CoreOf[current_thread[c]] = c /\ status[current_thread[c]] # "None"
    BY DEF SchedInv, Placed
  <2>2. ASSUME NEW c \in Core, executing'[c]
        PROVE  LET t == current_thread'[c]
               IN  t # None /\ (process_status'[ProcessOf[t]] = "Running" => status'[t] = "Running")
    <3>1. executing[c]
      BY <2>2 DEF StillStep
    <3>2. current_thread[c] # None /\ current_thread[c] \in Thread
          /\ (process_status[ProcessOf[current_thread[c]]] = "Running" =>
                status[current_thread[c]] = "Running")
      BY <3>1 DEF SchedInv, Placed, ExecutingIsRunning, TypeOK
    <3>3. process_status'[ProcessOf[current_thread[c]]] = "Running" =>
            process_status[ProcessOf[current_thread[c]]] = "Running"
      BY <1>3, <3>2
    <3> QED BY <1>1, <3>2, <3>3
  <2>3. \A t \in Thread : status'[t] = "Running" => current_thread'[CoreOf[t]] = t
    BY <1>1 DEF SchedInv, Placed, ExecutingIsRunning
  <2> QED BY <1>1, <2>1, <2>2, <2>3 DEF Placed, ExecutingIsRunning
<1>5. Births'
  <2> SUFFICES ASSUME NEW t \in Thread
               PROVE  /\ status'[t] = "None" => Unborn(t)'
                      /\ process_status'[ProcessOf[t]] = "Created" => status'[t] = "None"
    BY DEF Births
  <2>1. status'[t] = "None" => Unborn(t)'
    BY <1>1 DEF SchedInv, Births, Unborn, StillStep, PrioStep
  <2>2. process_status'[ProcessOf[t]] = "Created" => status'[t] = "None"
    BY <1>1, <1>3 DEF SchedInv, Births
  <2> QED BY <2>1, <2>2
<1>6. Callbacks' /\ NoStaleTimeout'
  BY <1>1 DEF SchedInv, Callbacks, NoStaleTimeout
<1>7. LevelsPrepared'
  BY <1>1 DEF PrioStep, LevelsPrepared
<1> QED BY <1>2, <1>4, <1>5, <1>6, <1>7 DEF SchedInv

LEMMA PrioSame ==
    ASSUME TypeOK, SchedInv, UNCHANGED prioVars
    PROVE  PrioStep
BY DEF SchedInv, PrioStep, LevelsPrepared, prioVars

\* BoostPriority of a thread that exists.
LEMMA BoostStep ==
    ASSUME TypeOK, SchedInv, NEW t \in Thread, NEW p \in Priority, status[t] # "None",
           BoostPriority(t, p)
    PROVE  PrioStep
<1>1. ready_queue \in QueueType /\ status \in [Thread -> Status]
      /\ current_priority \in [Thread -> Priority] /\ prepared \in [Core -> SUBSET Priority]
  BY DEF TypeOK, QueueType
<1>2. QueueOK(ready_queue, status, current_priority)
  BY DEF SchedInv
<1>3. QueueOK(ready_queue', status, current_priority')
  BY <1>1, <1>2, MoveOK DEF BoostPriority
<1>4. current_priority' = [current_priority EXCEPT ![t] = p]
      /\ prepared' = [prepared EXCEPT ![CoreOf[t]] = @ \cup {p}]
  BY DEF BoostPriority
<1>5. ASSUME NEW u \in Thread
      PROVE  IF status[u] = "None" THEN current_priority'[u] = current_priority[u]
             ELSE current_priority'[u] \in prepared'[CoreOf[u]]
  <2>1. CoreOf[u] \in Core /\ CoreOf[t] \in Core
    BY KernelAssumption
  <2>2. CASE u = t
    BY <1>1, <1>4, <2>1, <2>2
  <2>3. CASE u # t
    <3>1. current_priority'[u] = current_priority[u] /\ prepared[CoreOf[u]] \subseteq prepared'[CoreOf[u]]
      BY <1>1, <1>4, <2>1, <2>3
    <3> QED BY <3>1 DEF SchedInv, LevelsPrepared
  <2> QED BY <2>2, <2>3
<1> QED BY <1>3, <1>5 DEF PrioStep

LEMMA UpdateStep ==
    ASSUME TypeOK, SchedInv, NEW t \in Thread, status[t] # "None", NEW held, held \subseteq Mutex,
           NEW mp \in [Mutex -> Priority], UpdatePriority(t, held, mp)
    PROVE  PrioStep
<1>1. nominal_priority[t] \in Priority
  BY DEF TypeOK
<1>2. Inherited(t, held, mp) \in Priority
  BY <1>1, InheritedType DEF Inherited
<1> QED BY <1>2, BoostStep DEF UpdatePriority

\* A thread that holds a mutex exists.
LEMMA HolderExists ==
    ASSUME TypeOK, SchedInv, NEW m \in Mutex, holding_thread[m] # None
    PROVE  holding_thread[m] \in Thread /\ status[holding_thread[m]] # "None"
BY DEF TypeOK, SchedInv, Births, Unborn

LEMMA MutexUpdateStep ==
    ASSUME TypeOK, SchedInv, NEW m \in Mutex, NEW list \in Seq(Thread), MutexUpdatePriority(m, list)
    PROVE  PrioStep
<1> DEFINE S == {ThreadPrioLowest} \cup {current_priority[w] : w \in Elems(list)}
           best == Best(S)
           mp   == [mutex_priority EXCEPT ![m] = best]
           h    == holding_thread[m]
<1>1. best \in Priority
  <2>1. ThreadPrioLowest \in Priority
    BY KernelAssumption DEF ThreadPrioLowest, Priority
  <2>2. Elems(list) \subseteq Thread
    BY DEF Elems
  <2>3. S \subseteq Priority /\ S # {}
    BY <2>1, <2>2 DEF TypeOK
  <2> HIDE DEF S
  <2> QED BY <2>3, BestIsLeast
<1>2. CASE h = None \/ best = mutex_priority[m]
  <2>1. UNCHANGED prioVars
    BY <1>2 DEF MutexUpdatePriority
  <2> QED BY <2>1, PrioSame
<1>3. CASE ~(h = None \/ best = mutex_priority[m])
  <2>1. UpdatePriority(h, held_mutexes[h], mp)
    BY <1>3 DEF MutexUpdatePriority
  <2>2. h \in Thread /\ status[h] # "None"
    BY <1>3, HolderExists
  <2>3. held_mutexes[h] \subseteq Mutex /\ mp \in [Mutex -> Priority]
    <3> HIDE DEF best, h
    <3> QED BY <1>1, <2>2 DEF TypeOK
  <2> HIDE DEF mp, h
  <2> QED BY <2>1, <2>2, <2>3, UpdateStep
<1> QED BY <1>2, <1>3

LEMMA SetWaitingStep ==
    ASSUME TypeOK, SchedInv, NEW o \in Object, NEW list \in Seq(Thread), SetWaitingThreads(o, list)
    PROVE  PrioStep
<1>1. CASE o \in Mutex
  BY <1>1, MutexUpdateStep DEF SetWaitingThreads
<1>2. CASE o \notin Mutex
  BY <1>2, PrioSame DEF SetWaitingThreads
<1> QED BY <1>1, <1>2

LEMMA EndsSame ==
    ASSUME SchedInv, UNCHANGED <<status, process_status, term>>
    PROVE  Ends'
BY DEF SchedInv, Ends

\* The threads a wakeup loop finds wait.
LEMMA WakeNextSched ==
    ASSUME TypeOK, PhaseOK, SchedInv, WakeNext
    PROVE  SchedInv'
<1>1. UNCHANGED <<threadVars, objectVars, coreVars, process_status, term>>
  BY DEF WakeNext
<1>2. PICK i \in 1 .. Len(waiting_threads[sync.obj]) :
        sync'.pc = "acquire" /\ sync'.thr = waiting_threads[sync.obj][i] /\ sync'.obj = sync.obj
  BY DEF WakeNext, TypeOK
<1>3. sync.obj \in Object /\ sync.obj # None /\ waiting_threads[sync.obj] \in Seq(Thread)
  BY KernelAssumption DEF WakeNext, SyncAt, PhaseOK, TypeOK
<1>4. sync'.thr \in Elems(waiting_threads[sync.obj]) /\ sync'.thr \in Thread
  BY <1>2, <1>3 DEF Elems
<1>5. status[sync'.thr] \in Waiting
  BY <1>4 DEF WakeNext, Inconsistent
<1>6. Loops'
  BY <1>1, <1>2, <1>3, <1>5 DEF Loops, threadVars
<1>7. StillStep
  BY <1>1 DEF StillStep, threadVars, coreVars, objectVars
<1>8. PrioStep
  BY <1>1, PrioSame DEF threadVars, coreVars, prioVars
<1>9. Ends'
  BY <1>1, EndsSame DEF threadVars
<1> QED BY <1>1, <1>6, <1>7, <1>8, <1>9, StillKeeps

LEMMA WakeupDoneSched ==
    ASSUME TypeOK, PhaseOK, SchedInv, WakeupDone
    PROVE  SchedInv'
<1>1. UNCHANGED <<threadVars, holding_thread, coreVars, process_status, term>>
  BY DEF WakeupDone
<1>2. sync.pc = "scan" /\ (sync' = sync \/ sync' = SyncIdle)
  BY DEF WakeupDone, SyncAt
<1>3. Loops'
  BY <1>2 DEF Loops, SyncIdle
<1>4. StillStep
  BY <1>1 DEF StillStep, threadVars, coreVars
<1>5. PrioStep
  BY <1>1, PrioSame DEF threadVars, coreVars, prioVars
<1>6. Ends'
  BY <1>1, EndsSame DEF threadVars
<1> QED BY <1>1, <1>3, <1>4, <1>5, <1>6, StillKeeps

\* Acquire by a thread that exists.
LEMMA AcquireStep ==
    ASSUME TypeOK, SchedInv, NEW o \in Object, NEW t \in Thread, status[t] # "None", Acquire(o, t)
    PROVE  /\ PrioStep
           /\ \A c \in Core : executing'[c] => executing[c]
           /\ \A u \in Thread : status[u] = "None" =>
                /\ held_mutexes'[u] = held_mutexes[u]
                /\ \A m \in Mutex : holding_thread'[m] = u => holding_thread[m] = u
<1>1. CASE UNCHANGED mutexVars
  <2>1. UNCHANGED <<prioVars, executing, held_mutexes, holding_thread>>
    BY <1>1 DEF mutexVars
  <2> QED BY <2>1, PrioSame
<1>2. ASSUME o \in Mutex, AcquireMutex(o, t), lock_count[o] = 0
      PROVE  /\ PrioStep
             /\ \A c \in Core : executing'[c] => executing[c]
             /\ \A u \in Thread : status[u] = "None" =>
                  /\ held_mutexes'[u] = held_mutexes[u]
                  /\ \A m \in Mutex : holding_thread'[m] = u => holding_thread[m] = u
  <2> DEFINE held == held_mutexes[t] \cup {o}
             mp   == [mutex_priority EXCEPT ![o] = current_priority[t]]
  <2>1. UpdatePriority(t, held, mp) /\ PrepareReschedule
        /\ held_mutexes' = [held_mutexes EXCEPT ![t] = held]
        /\ holding_thread' = [holding_thread EXCEPT ![o] = t]
    BY <1>2 DEF AcquireMutex
  <2>2. held \subseteq Mutex /\ mp \in [Mutex -> Priority]
    BY <1>2 DEF TypeOK
  <2> HIDE DEF held, mp
  <2>3. PrioStep
    BY <2>1, <2>2, UpdateStep
  <2>4. \A c \in Core : executing'[c] => executing[c]
    BY <2>1 DEF PrepareReschedule, TypeOK
  <2> QED BY <1>2, <2>1, <2>3, <2>4 DEF TypeOK
<1>3. ASSUME o \in Mutex, AcquireMutex(o, t), lock_count[o] # 0
      PROVE  UNCHANGED <<prioVars, executing, held_mutexes, holding_thread>>
  BY <1>3 DEF AcquireMutex
<1> QED BY <1>1, <1>2, <1>3, PrioSame DEF Acquire, AcquireSemaphore, AcquireEvent

LEMMA AcquireNextSched ==
    ASSUME TypeOK, PhaseOK, SchedInv, AcquireNext
    PROVE  SchedInv'
<1> DEFINE o == Head(sync.todo)
           t == sync.thr
<1>1. UNCHANGED <<keptVars, status, wait_objects, wakeup_callback, wakeups>>
      /\ sync' = [sync EXCEPT !.todo = Tail(@)]
  BY DEF AcquireNext
<1>2. t \in Thread /\ o \in Object /\ sync.pc = "acquire"
  <2>1. sync.todo \in Seq(Object) /\ sync.todo # <<>> /\ sync.pc = "acquire"
    BY DEF AcquireNext, SyncAt, TypeOK
  <2> QED BY <2>1 DEF PhaseOK
<1>3. status[t] # "None"
  BY <1>2 DEF SchedInv, Loops, Waiting
<1>4. \/ UNCHANGED mutexVars
      \/ Acquire(o, t)
  BY DEF AcquireNext
<1> HIDE DEF o, t
<1>5. /\ PrioStep
      /\ \A c \in Core : executing'[c] => executing[c]
      /\ \A u \in Thread : status[u] = "None" =>
           /\ held_mutexes'[u] = held_mutexes[u]
           /\ \A m \in Mutex : holding_thread'[m] = u => holding_thread[m] = u
  <2>1. CASE UNCHANGED mutexVars
    BY <2>1, PrioSame DEF mutexVars
  <2>2. CASE Acquire(o, t)
    BY <1>2, <1>3, <2>2, AcquireStep
  <2> QED BY <1>4, <2>1, <2>2
<1>6. StillStep
  BY <1>1, <1>5 DEF StillStep, keptVars
<1>7. sync'.pc = sync.pc /\ sync'.obj = sync.obj /\ sync'.thr = sync.thr
  BY <1>1 DEF TypeOK
<1>8. Loops'
  BY <1>1, <1>7 DEF SchedInv, Loops, keptVars
<1>9. Ends' /\ process_status' = process_status
  BY <1>1, EndsSame DEF keptVars
<1> QED BY <1>5, <1>6, <1>8, <1>9, StillKeeps

LEMMA AcquireDoneSched ==
    ASSUME TypeOK, PhaseOK, SchedInv, AcquireDone
    PROVE  SchedInv'
<1>1. UNCHANGED <<keptVars, status, wait_objects, wakeup_callback, wakeups, mutexVars>>
  BY DEF AcquireDone
<1>2. /\ sync.pc = "acquire"
      /\ sync.obj = None => sync' = SyncIdle
      /\ sync.obj # None => sync'.pc = "remove" /\ sync'.thr = sync.thr
  <2>1. /\ sync.pc = "acquire"
        /\ sync.obj = None => sync' = SyncIdle
        /\ sync.obj # None => sync' = [sync EXCEPT !.pc = "remove", !.todo = Leaves(sync.thr)]
    BY DEF AcquireDone, SyncAt
  <2> QED BY <2>1 DEF TypeOK
<1>3. Loops'
  BY <1>1, <1>2 DEF SchedInv, Loops, SyncIdle
<1>4. StillStep
  BY <1>1 DEF StillStep, keptVars, mutexVars
<1>5. PrioStep
  BY <1>1, PrioSame DEF mutexVars
<1>6. Ends' /\ process_status' = process_status
  BY <1>1, EndsSame DEF keptVars
<1> QED BY <1>3, <1>4, <1>5, <1>6, StillKeeps

\* The steps that put a thread on a list or take it off.
LEMMA ListStepSched ==
    ASSUME TypeOK, SchedInv, NEW o \in Object, NEW list \in Seq(Thread), SetWaitingThreads(o, list),
           UNCHANGED <<keptVars, status, held_mutexes, wait_objects, wakeup_callback, wakeups,
                       holding_thread, executing>>,
           \/ sync'.pc = "idle"
           \/ sync'.pc = sync.pc /\ sync'.obj = sync.obj /\ sync'.thr = sync.thr
    PROVE  SchedInv'
<1>1. PrioStep
  BY SetWaitingStep
<1>2. StillStep
  BY DEF StillStep, keptVars
<1>3. Loops'
  BY DEF SchedInv, Loops, keptVars
<1>4. Ends' /\ process_status' = process_status
  BY EndsSame DEF keptVars
<1> QED BY <1>1, <1>2, <1>3, <1>4, StillKeeps

LEMMA RemoveNextSched ==
    ASSUME TypeOK, PhaseOK, SchedInv, RemoveNext
    PROVE  SchedInv'
<1> DEFINE o == Head(sync.todo)
<1>1. o \in Object
  <2>1. sync.todo \in Seq(Object) /\ sync.todo # <<>>
    BY DEF RemoveNext, TypeOK
  <2> QED BY <2>1
<1>2. Without(waiting_threads[o], sync.thr) \in Seq(Thread)
  BY <1>1, WithoutSeq DEF TypeOK
<1>3. SetWaitingThreads(o, Without(waiting_threads[o], sync.thr))
  BY DEF RemoveNext
<1>4. sync'.pc = sync.pc /\ sync'.obj = sync.obj /\ sync'.thr = sync.thr
  BY DEF RemoveNext, TypeOK
<1>5. UNCHANGED <<keptVars, status, held_mutexes, wait_objects, wakeup_callback, wakeups,
                  holding_thread, executing>>
  BY DEF RemoveNext
<1> HIDE DEF o
<1> QED BY <1>1, <1>2, <1>3, <1>4, <1>5, ListStepSched

LEMMA AddNextSched ==
    ASSUME TypeOK, PhaseOK, SchedInv, AddNext
    PROVE  SchedInv'
<1> DEFINE o == Head(sync.todo)
           list == IF sync.thr \in Elems(waiting_threads[o]) THEN waiting_threads[o]
                   ELSE Append(waiting_threads[o], sync.thr)
<1>1. o \in Object /\ sync.thr \in Thread
  <2>1. sync.todo \in Seq(Object) /\ sync.todo # <<>> /\ sync.thr \in Thread
    BY DEF AddNext, SyncAt, PhaseOK, TypeOK
  <2> QED BY <2>1
<1>2. list \in Seq(Thread)
  <2>1. waiting_threads[o] \in Seq(Thread)
    BY <1>1 DEF TypeOK
  <2> HIDE DEF o
  <2> QED BY <1>1, <2>1
<1>3. SetWaitingThreads(o, list)
  BY DEF AddNext
<1>4. \/ sync'.pc = "idle"
      \/ sync'.pc = sync.pc /\ sync'.obj = sync.obj /\ sync'.thr = sync.thr
  <2>1. sync' = SyncIdle \/ sync' = [sync EXCEPT !.todo = Tail(@)]
    BY DEF AddNext
  <2> QED BY <2>1 DEF TypeOK, SyncIdle
<1>5. UNCHANGED <<keptVars, status, held_mutexes, wait_objects, wakeup_callback, wakeups,
                  holding_thread, executing>>
  BY DEF AddNext
<1> HIDE DEF o, list
<1> QED BY <1>1, <1>2, <1>3, <1>4, <1>5, ListStepSched

LEMMA UpdateNextSched ==
    ASSUME TypeOK, PhaseOK, SchedInv, UpdateNext
    PROVE  SchedInv'
<1>1. PICK m \in sync.muts :
        /\ MutexUpdatePriority(m, waiting_threads[m])
        /\ sync' = IF sync.muts = {m} THEN SyncIdle ELSE [sync EXCEPT !.muts = @ \ {m}]
  BY DEF UpdateNext
<1>2. m \in Mutex /\ waiting_threads[m] \in Seq(Thread)
  BY DEF TypeOK, Object
<1>3. PrioStep
  BY <1>1, <1>2, MutexUpdateStep
<1>4. UNCHANGED <<keptVars, status, held_mutexes, wait_objects, wakeup_callback, wakeups,
                  holding_thread, executing>>
  BY DEF UpdateNext
<1>5. StillStep
  BY <1>4 DEF StillStep, keptVars
<1>6. Loops'
  <2>1. sync.pc = "update" /\ (sync'.pc = "idle" \/ sync'.pc = sync.pc)
    BY <1>1 DEF UpdateNext, SyncAt, TypeOK, SyncIdle
  <2> QED BY <2>1 DEF Loops
<1>7. Ends' /\ process_status' = process_status
  BY <1>4, EndsSame DEF keptVars
<1> QED BY <1>3, <1>5, <1>6, <1>7, StillKeeps

\* A call is made by the running thread of its core.
LEMMA CallerRuns ==
    ASSUME TypeOK, SchedInv, NEW c \in Core, Calls(c, current_thread[c])
    PROVE  /\ current_thread[c] \in Thread /\ status[current_thread[c]] = "Running"
           /\ CoreOf[current_thread[c]] = c
           /\ process_status[ProcessOf[current_thread[c]]] = "Running"
           /\ sync.pc = "idle" /\ stop.pc = "idle" /\ term.pc = "idle"
BY CallerType DEF Calls, MayBegin, TermAt, StopAt, SchedInv, Placed, ExecutingIsRunning

\* Steps that touch only the registers and the mutexes a thread gives back.
LEMMA RegisterStepSched ==
    ASSUME TypeOK, SchedInv, Loops',
           UNCHANGED <<status, nominal_priority, current_priority, wait_objects, wakeup_callback,
                       wakeups, coreVars, process_status, term>>,
           \A t \in Thread : held_mutexes'[t] = held_mutexes[t] \/ held_mutexes'[t] = {},
           \A m \in Mutex : holding_thread'[m] = holding_thread[m] \/ holding_thread'[m] = None
    PROVE  SchedInv'
<1>1. PrioStep
  BY PrioSame DEF prioVars, coreVars
<1>2. StillStep
  <2>1. \A t \in Thread : t # None
    BY KernelAssumption DEF Object
  <2>2. \A t \in Thread : status[t] = "None" => held_mutexes[t] = {}
    BY DEF SchedInv, Births, Unborn
  <2> QED BY <2>1, <2>2 DEF StillStep, coreVars
<1>3. Ends'
  BY EndsSame
<1> QED BY <1>1, <1>2, <1>3, StillKeeps

LEMMA StopStepSched ==
    ASSUME TypeOK, PhaseOK, SchedInv, StopStep
    PROVE  SchedInv'
<1>1. UNCHANGED <<status, nominal_priority, current_priority, wait_objects, wakeup_callback,
                  wakeups, coreVars, process_status, term>>
  BY DEF StopStep, StopDetach, StopRelease, StopDone, threadVars
<1>2. \A t \in Thread : held_mutexes'[t] = held_mutexes[t] \/ held_mutexes'[t] = {}
  BY DEF StopStep, StopDetach, StopRelease, StopDone, threadVars, TypeOK
<1>3. \A m \in Mutex : holding_thread'[m] = holding_thread[m] \/ holding_thread'[m] = None
  BY DEF StopStep, StopDetach, StopRelease, StopDone, objectVars, TypeOK
<1>4. Loops'
  <2>1. sync'.pc \in {"idle", "detach", "scan"}
    <3>1. sync.pc = "idle"
      BY DEF StopStep, StopDetach, StopRelease, StopDone, StopAt
    <3>2. \/ sync' = SyncIdle
          \/ sync' = [SyncIdle EXCEPT !.pc = "detach", !.thr = stop.thr,
                                      !.todo = wait_objects[stop.thr]]
          \/ \E m \in Mutex : sync' = ScanOf(m)
          \/ sync' = sync
      BY DEF StopStep, StopDetach, StopRelease, StopDone, TypeOK
    <3>3. \A o : ScanOf(o).pc = "scan"
      BY DEF ScanOf, SyncIdle
    <3>4. SyncIdle.pc = "idle"
      BY DEF SyncIdle
    <3>5. [SyncIdle EXCEPT !.pc = "detach", !.thr = stop.thr,
                           !.todo = wait_objects[stop.thr]].pc = "detach"
      BY DEF SyncIdle
    <3> QED BY <3>1, <3>2, <3>3, <3>4, <3>5
  <2> QED BY <2>1 DEF Loops
<1> QED BY <1>1, <1>2, <1>3, <1>4, RegisterStepSched

LEMMA TermDoneSched ==
    ASSUME TypeOK, PhaseOK, SchedInv, TermDone
    PROVE  SchedInv'
<1>1. UNCHANGED <<threadVars, objectVars, coreVars, process_status, sync>>
      /\ sync.pc = "idle" /\ term.pc = "cores" /\ term.core = NumCores /\ term' = TermIdle
  BY DEF TermDone, TermAt, StopAt
<1>2. PrioStep /\ StillStep
  BY <1>1, PrioSame DEF prioVars, coreVars, threadVars, objectVars, StillStep
<1>3. Loops'
  BY <1>1 DEF Loops
<1>4. Ends'
  <2>1. \A t \in Thread : ~(NumCores <= CoreOf[t])
    <3>1. \A t \in Thread : CoreOf[t] \in 0 .. NumCores - 1 /\ NumCores \in Nat
      BY KernelAssumption DEF Core
    <3> QED BY <3>1
  <2> QED BY <1>1, <2>1 DEF SchedInv, Ends, TermIdle, threadVars
<1> QED BY <1>1, <1>2, <1>3, <1>4, StillKeeps

LEMMA TerminateProcessSched ==
    ASSUME TypeOK, PhaseOK, SchedInv, NEW c \in Core, NEW p \in Process, TerminateProcess(c, p)
    PROVE  SchedInv'
<1>1. UNCHANGED <<threadVars, objectVars, coreVars, sync>> /\ sync.pc = "idle" /\ term.pc = "idle"
  BY CallerRuns DEF TerminateProcess
<1>2. PrioStep /\ StillStep
  BY <1>1, PrioSame DEF prioVars, coreVars, threadVars, objectVars, StillStep
<1>3. Loops'
  BY <1>1 DEF Loops
<1>4. CASE process_status[p] = "Exited"
  <2>1. UNCHANGED <<process_status, term>>
    BY <1>4 DEF TerminateProcess
  <2>2. Ends'
    BY <1>1, <2>1, EndsSame DEF threadVars
  <2> QED BY <1>2, <1>3, <2>1, <2>2, StillKeeps
<1>5. CASE process_status[p] # "Exited"
  <2>1. process_status' = [process_status EXCEPT ![p] = "Exited"]
        /\ term' = [pc |-> "cores", process |-> p, core |-> 0]
    BY <1>5 DEF TerminateProcess
  <2>2. \A t \in Thread : CoreOf[t] \in Nat /\ 0 <= CoreOf[t] /\ ProcessOf[t] \in Process
    BY KernelAssumption DEF Core
  <2>3. \A q \in Process : process_status'[q] = IF q = p THEN "Exited" ELSE process_status[q]
    BY <2>1 DEF TypeOK
  <2>4. 0 <= NumCores
    BY KernelAssumption
  <2>5. Ends'
    BY <1>1, <2>1, <2>2, <2>3, <2>4 DEF SchedInv, Ends, threadVars
  <2> QED BY <1>2, <1>3, <2>3, <2>5, StillKeeps
<1> QED BY <1>4, <1>5

LEMMA WaitAcquiresSched ==
    ASSUME TypeOK, PhaseOK, SchedInv, NEW c \in Core, NEW all \in BOOLEAN, NEW list,
           WaitAcquires(c, all, list)
    PROVE  SchedInv'
<1>1. Calls(c, current_thread[c])
      /\ UNCHANGED <<threadVars, objectVars, coreVars, process_status, stop, term>>
  BY DEF WaitAcquires
<1>2. sync'.pc = "acquire" /\ sync'.thr = current_thread[c] /\ sync'.obj = None
  <2>1. \E todo : sync' = [SyncIdle EXCEPT !.pc = "acquire", !.thr = current_thread[c], !.todo = todo]
    BY DEF WaitAcquires
  <2> QED BY <2>1 DEF SyncIdle
<1>3. Loops'
  BY <1>1, <1>2, CallerRuns DEF Loops, threadVars
<1>4. /\ UNCHANGED <<status, nominal_priority, current_priority, wait_objects, wakeup_callback,
                       wakeups, coreVars, process_status, term>>
      /\ \A t \in Thread : held_mutexes'[t] = held_mutexes[t]
      /\ \A m \in Mutex : holding_thread'[m] = holding_thread[m]
  BY <1>1 DEF threadVars, objectVars
<1> QED BY <1>3, <1>4, RegisterStepSched

\* A loop over waiters starts.
LEMMA ScanStepSched ==
    ASSUME TypeOK, SchedInv, UNCHANGED <<threadVars, holding_thread, coreVars, process_status, term>>,
           sync'.pc \in {"idle", "scan"}
    PROVE  SchedInv'
<1>1. /\ UNCHANGED <<status, nominal_priority, current_priority, wait_objects, wakeup_callback,
                     wakeups, coreVars, process_status, term>>
      /\ \A t \in Thread : held_mutexes'[t] = held_mutexes[t]
      /\ \A m \in Mutex : holding_thread'[m] = holding_thread[m]
  BY DEF threadVars
<1>2. Loops'
  BY DEF Loops
<1> QED BY <1>1, <1>2, RegisterStepSched

LEMMA SignalsSched ==
    ASSUME TypeOK, PhaseOK, SchedInv, NEW c \in Core,
           \/ \E s \in Semaphore, n \in ReleaseCounts : ReleaseSemaphore(c, s, n)
           \/ \E e \in Event : SignalEvent(c, e)
           \/ \E e \in Event : ServiceSignal(e)
           \/ \E e \in Event : ClearEvent(c, e)
    PROVE  SchedInv'
<1>1. UNCHANGED <<threadVars, holding_thread, coreVars, process_status, term>>
  BY DEF ReleaseSemaphore, SignalEvent, ServiceSignal, ClearEvent, Signal, callVars
<1>2. sync'.pc \in {"idle", "scan"}
  <2>1. ASSUME NEW e \in Event, ClearEvent(c, e) PROVE sync'.pc = "idle"
    BY <2>1, CallerRuns DEF ClearEvent, callVars
  <2>2. \A o : ScanOf(o).pc = "scan"
    BY DEF ScanOf, SyncIdle
  <2> QED BY <2>1, <2>2 DEF ReleaseSemaphore, SignalEvent, ServiceSignal, Signal
<1> QED BY <1>1, <1>2, ScanStepSched

LEMMA ControlProcessSched ==
    ASSUME TypeOK, PhaseOK, SchedInv, NEW c \in Core, NEW p, NEW S, NEW stopped,
           ControlProcess(c, p, S, stopped)
    PROVE  SchedInv'
<1>1. /\ UNCHANGED <<status, nominal_priority, current_priority, wait_objects, wakeup_callback,
                     wakeups, coreVars, process_status, term, sync>>
      /\ \A t \in Thread : held_mutexes'[t] = held_mutexes[t]
      /\ \A m \in Mutex : holding_thread'[m] = holding_thread[m]
  BY DEF ControlProcess, objectVars, callVars
<1>2. sync.pc = "idle"
  BY CallerRuns DEF ControlProcess
<1>3. Loops'
  BY <1>1, <1>2 DEF Loops
<1> QED BY <1>1, <1>3, RegisterStepSched

LEMMA ReleaseMutexSched ==
    ASSUME TypeOK, PhaseOK, SchedInv, NEW c \in Core, NEW m \in Mutex, ReleaseMutex(c, m)
    PROVE  SchedInv'
<1> DEFINE t == current_thread[c]
           held == HeldAfterRelease(t, m)
<1>1. Calls(c, t) /\ UNCHANGED <<status, nominal_priority, wait_objects, wakeup_callback, wakeups,
                                 current_thread, process_status, term>>
  BY DEF ReleaseMutex
<1>2. t \in Thread /\ status[t] = "Running" /\ sync.pc = "idle"
  BY <1>1, CallerRuns
<1>3. sync'.pc \in {"idle", "scan"}
  <2>1. sync' = sync \/ sync' = ScanOf(m)
    BY DEF ReleaseMutex
  <2> QED BY <1>2, <2>1 DEF ScanOf, SyncIdle
<1>4. /\ PrioStep
      /\ \A d \in Core : executing'[d] => executing[d]
      /\ \A u \in Thread : u # t => held_mutexes'[u] = held_mutexes[u]
      /\ \A n \in Mutex : holding_thread'[n] = holding_thread[n] \/ holding_thread'[n] = None
  <2>1. CASE lock_count[m] = 1
    <3>1. /\ UpdatePriority(t, held, mutex_priority)
          /\ held_mutexes' = [held_mutexes EXCEPT ![t] = held]
          /\ holding_thread' = [holding_thread EXCEPT ![m] = None]
          /\ executing' = [executing EXCEPT ![c] = FALSE]
      BY <2>1 DEF ReleaseMutex, EndSlice
    <3>2. held \subseteq Mutex /\ mutex_priority \in [Mutex -> Priority]
      BY <1>2 DEF TypeOK, HeldAfterRelease
    <3> HIDE DEF held
    <3>3. PrioStep
      BY <1>2, <3>1, <3>2, UpdateStep
    <3> QED BY <1>2, <3>1, <3>3 DEF TypeOK
  <2>2. CASE lock_count[m] # 1
    <3>1. UNCHANGED <<prioVars, executing, held_mutexes, holding_thread>>
      BY <2>2 DEF ReleaseMutex
    <3> QED BY <3>1, PrioSame
  <2> QED BY <2>1, <2>2
<1> HIDE DEF t
<1>5. StillStep
  <2>1. \A u \in Thread : u # None
    BY KernelAssumption DEF Object
  <2> QED BY <1>1, <1>2, <1>4, <2>1 DEF StillStep
<1>6. Loops'
  BY <1>3 DEF Loops
<1>7. Ends'
  BY <1>1, EndsSame
<1> QED BY <1>1, <1>4, <1>5, <1>6, <1>7, StillKeeps

LEMMA SetThreadPrioritySched ==
    ASSUME TypeOK, PhaseOK, SchedInv, NEW c \in Core, NEW t \in Thread, NEW p \in Priority,
           SetThreadPriority(c, t, p)
    PROVE  SchedInv'
<1> DEFINE best == Best({p} \cup {mutex_priority[m] : m \in held_mutexes[t]})
<1>1. /\ Calls(c, current_thread[c]) /\ status[t] # "None"
      /\ nominal_priority' = [nominal_priority EXCEPT ![t] = p]
      /\ current_priority' = [current_priority EXCEPT ![t] = best]
      /\ ready_queue' = IF status[t] = "Ready"
                        THEN PushBack(Dequeue(ready_queue, t, current_priority[t]), t, best)
                        ELSE ready_queue
      /\ prepared' = [prepared EXCEPT ![CoreOf[t]] = @ \cup {p, best}]
      /\ executing' = [executing EXCEPT ![c] = FALSE]
      /\ UNCHANGED <<status, held_mutexes, wait_objects, wakeup_callback, wakeups, holding_thread,
                     current_thread, process_status, term>>
  BY DEF SetThreadPriority, EndSlice, objectVars
<1>2. best \in Priority
  <2>1. held_mutexes[t] \subseteq Mutex /\ mutex_priority \in [Mutex -> Priority]
    BY DEF TypeOK
  <2> QED BY <2>1, InheritedType
<1> HIDE DEF best
<1>3. ready_queue \in QueueType /\ status \in [Thread -> Status]
      /\ current_priority \in [Thread -> Priority] /\ prepared \in [Core -> SUBSET Priority]
      /\ QueueOK(ready_queue, status, current_priority)
  BY DEF TypeOK, QueueType, SchedInv
<1>4. QueueOK(ready_queue', status, current_priority')
  BY <1>1, <1>2, <1>3, MoveOK
<1>5. ASSUME NEW u \in Thread
      PROVE  IF status[u] = "None" THEN current_priority'[u] = current_priority[u]
             ELSE current_priority'[u] \in prepared'[CoreOf[u]]
  <2>1. CoreOf[u] \in Core /\ CoreOf[t] \in Core
    BY KernelAssumption
  <2>2. CASE u = t
    BY <1>1, <1>3, <2>1, <2>2
  <2>3. CASE u # t
    <3>1. current_priority'[u] = current_priority[u] /\ prepared[CoreOf[u]] \subseteq prepared'[CoreOf[u]]
      BY <1>1, <1>3, <2>1, <2>3
    <3> QED BY <3>1 DEF SchedInv, LevelsPrepared
  <2> QED BY <2>2, <2>3
<1>6. PrioStep
  BY <1>4, <1>5 DEF PrioStep
<1>7. StillStep
  BY <1>1 DEF StillStep, TypeOK
<1>8. Loops'
  <2>1. sync'.pc \in {"idle", "update"}
    BY DEF SetThreadPriority, SyncIdle
  <2> QED BY <2>1 DEF Loops
<1>9. Ends'
  BY <1>1, EndsSame
<1> QED BY <1>1, <1>6, <1>7, <1>8, <1>9, StillKeeps

-------------------------------------------------------------------------------
(* Steps that change the status of one thread                              *)

\* Thread t gets status y, which is not "Running".
StatusStep(t, y) ==
    /\ y \in Status \ {"None", "Running"}
    /\ status' = [status EXCEPT ![t] = y]
    /\ UNCHANGED <<current_thread, nominal_priority, current_priority, held_mutexes,
                   holding_thread>>
    /\ QueueOK(ready_queue', status', current_priority)
    /\ \A u \in Thread : prepared[CoreOf[u]] \subseteq prepared'[CoreOf[u]]
    /\ current_priority[t] \in prepared'[CoreOf[t]]
    /\ \A u \in Thread : u # t => wait_objects'[u] = wait_objects[u]
                                  /\ wakeup_callback'[u] = wakeup_callback[u]
    /\ wakeup_callback'[t] => y \in Waiting \cup {"Dead"}
    /\ \A u \in wakeups' : u \in Thread /\ (u # t => u \in wakeups) /\ (u = t => y # "Dead")
    /\ \A u \in Thread : process_status'[ProcessOf[u]] = "Created" =>
         u # t /\ process_status[ProcessOf[u]] = "Created"
    /\ \A c \in Core : executing'[c] =>
         /\ executing[c]
         /\ process_status'[ProcessOf[current_thread[c]]] = "Running" =>
              current_thread[c] # t /\ process_status[ProcessOf[current_thread[c]]] = "Running"

LEMMA StatusKeeps ==
    ASSUME TypeOK, SchedInv, NEW t \in Thread, NEW y, StatusStep(t, y), Loops', Ends'
    PROVE  SchedInv'
<1> USE DEF StatusStep
<1>1. \A u \in Thread : status'[u] = IF u = t THEN y ELSE status[u]
  BY DEF TypeOK
<1>2. QueueOK(ready_queue, status, current_priority)'
  OBVIOUS
<1>3. Placed'
  <2>1. ASSUME NEW c \in Core, current_thread[c] # None
        PROVE  CoreOf[current_thread[c]] = c /\ status'[current_thread[c]] # "None"
    BY <1>1, <2>1 DEF SchedInv, Placed, TypeOK
  <2>2. ASSUME NEW c \in Core, executing'[c]
        PROVE  LET u == current_thread'[c]
               IN  u # None /\ (process_status'[ProcessOf[u]] = "Running" => status'[u] = "Running")
    <3>1. current_thread[c] # None /\ current_thread[c] \in Thread
          /\ (process_status[ProcessOf[current_thread[c]]] = "Running" =>
                status[current_thread[c]] = "Running")
      BY <2>2 DEF SchedInv, Placed, ExecutingIsRunning, TypeOK
    <3> QED BY <1>1, <2>2, <3>1
  <2>3. ASSUME NEW u \in Thread, status'[u] = "Running"
        PROVE  current_thread'[CoreOf[u]] = u
    BY <1>1, <2>3 DEF SchedInv, Placed, ExecutingIsRunning
  <2> QED BY <2>1, <2>2, <2>3 DEF Placed, ExecutingIsRunning
<1>4. Births'
  <2> SUFFICES ASSUME NEW u \in Thread
               PROVE  /\ status'[u] = "None" => Unborn(u)'
                      /\ process_status'[ProcessOf[u]] = "Created" => status'[u] = "None"
    BY DEF Births
  <2>1. status'[u] = "None" => Unborn(u)'
    BY <1>1 DEF SchedInv, Births, Unborn
  <2>2. process_status'[ProcessOf[u]] = "Created" => status'[u] = "None"
    BY <1>1 DEF SchedInv, Births
  <2> QED BY <2>1, <2>2
<1>5. Callbacks'
  BY <1>1 DEF SchedInv, Callbacks
<1>6. NoStaleTimeout'
  BY <1>1 DEF SchedInv, NoStaleTimeout
<1>7. LevelsPrepared'
  BY <1>1 DEF SchedInv, LevelsPrepared
<1> QED BY <1>2, <1>3, <1>4, <1>5, <1>6, <1>7 DEF SchedInv

\* A status other than "Exited" of the process a thread belongs to allows any status.
LEMMA EndsLive ==
    ASSUME TypeOK, SchedInv, NEW t \in Thread, NEW y, status' = [status EXCEPT ![t] = y],
           UNCHANGED <<process_status, term>>,
           status[t] \notin {"None", "Dead"} \/ process_status[ProcessOf[t]] # "Exited" \/ y = "Dead"
    PROVE  Ends'
<1>1. \A u \in Thread : status'[u] = IF u = t THEN y ELSE status[u]
  BY DEF TypeOK
<1> QED BY <1>1 DEF SchedInv, Ends

\* ResumeFromWait, of a thread that waits, sleeps or is ready already.
LEMMA ResumeSched ==
    ASSUME TypeOK, SchedInv, NEW t \in Thread, ResumeFromWait(t),
           status[t] \in Resumable \cup {"Ready"},
           UNCHANGED <<current_thread, nominal_priority, current_priority, held_mutexes,
                       holding_thread, prepared, process_status, term>>,
           wakeups' \subseteq wakeups,
           \A u \in Thread : u # t => wait_objects'[u] = wait_objects[u],
           sync'.pc \in {"idle", "scan"}
    PROVE  SchedInv'
<1>1. Loops'
  BY DEF Loops
<1>2. \A u \in wakeups' : u \in Thread /\ u \in wakeups
  BY DEF TypeOK
<1>3. CASE status[t] \in Resumable
  <2>1. /\ wakeup_callback' = [wakeup_callback EXCEPT ![t] = FALSE]
        /\ ready_queue' = PushBack(ready_queue, t, current_priority[t])
        /\ status' = [status EXCEPT ![t] = "Ready"]
        /\ PrepareReschedule
    BY <1>3 DEF ResumeFromWait
  <2>2. status[t] \notin {"None", "Dead", "Ready", "Running"}
    BY <1>3 DEF Resumable, Waiting
  <2>3. QueueOK(ready_queue', status', current_priority)
    <3>1. ready_queue \in QueueType /\ status \in [Thread -> Status]
          /\ current_priority \in [Thread -> Priority]
          /\ QueueOK(ready_queue, status, current_priority)
      BY DEF TypeOK, QueueType, SchedInv
    <3> QED BY <2>1, <2>2, <3>1, PushOK
  <2>4. Ends'
    BY <2>1, <2>2, EndsLive
  <2>5. \A c \in Core : executing'[c] =>
          /\ executing[c]
          /\ process_status'[ProcessOf[current_thread[c]]] = "Running" =>
               current_thread[c] # t /\ process_status[ProcessOf[current_thread[c]]] = "Running"
    <3>1. \A c \in Core : executing'[c] => executing[c]
      BY <2>1 DEF PrepareReschedule, TypeOK
    <3> QED BY <2>2, <3>1 DEF SchedInv, Placed, ExecutingIsRunning
  <2>6. \A u \in Thread : process_status'[ProcessOf[u]] = "Created" =>
          u # t /\ process_status[ProcessOf[u]] = "Created"
    BY <2>2 DEF SchedInv, Births
  <2>7. current_priority[t] \in prepared'[CoreOf[t]]
    BY <2>2 DEF SchedInv, LevelsPrepared
  <2>8. /\ \A u \in Thread : u # t => wakeup_callback'[u] = wakeup_callback[u]
        /\ ~wakeup_callback'[t]
    BY <2>1 DEF TypeOK
  <2>9. "Ready" \in Status
    BY DEF Status
  <2>10. /\ \A u \in Thread : prepared[CoreOf[u]] \subseteq prepared'[CoreOf[u]]
         /\ \A u \in Thread : u # t => wait_objects'[u] = wait_objects[u]
                                       /\ wakeup_callback'[u] = wakeup_callback[u]
         /\ \A u \in wakeups' : u \in Thread /\ (u # t => u \in wakeups)
                                  /\ (u = t => "Ready" # "Dead")
    BY <1>2, <2>8
  <2>11. StatusStep(t, "Ready")
    BY <2>1, <2>3, <2>5, <2>6, <2>7, <2>8, <2>9, <2>10 DEF StatusStep
  <2> QED BY <1>1, <2>4, <2>11, StatusKeeps
<1>4. CASE status[t] = "Ready"
  <2>1. UNCHANGED <<wakeup_callback, ready_queue, status, executing>>
    BY <1>4 DEF ResumeFromWait, Resumable, Waiting
  <2>2. PrioStep
    BY <2>1, PrioSame DEF prioVars
  <2>3. Ends'
    BY <2>1, EndsSame
  <2>4. SchedInv'
    <3>1. Placed' /\ Callbacks' /\ LevelsPrepared'
      BY <2>1 DEF SchedInv, Placed, ExecutingIsRunning, Callbacks, LevelsPrepared
    <3>2. NoStaleTimeout'
      BY <1>2, <2>1 DEF SchedInv, NoStaleTimeout
    <3>3. Births'
      BY <1>4, <2>1 DEF SchedInv, Births, Unborn
    <3> QED BY <1>1, <2>1, <2>3, <3>1, <3>2, <3>3 DEF SchedInv
  <2> QED BY <2>4
<1> QED BY <1>3, <1>4

LEMMA RemoveDoneSched ==
    ASSUME TypeOK, PhaseOK, SchedInv, RemoveDone
    PROVE  SchedInv'
<1> DEFINE t == sync.thr
<1>1. /\ t \in Thread /\ sync.pc \in {"remove", "detach"}
      /\ wait_objects' = [wait_objects EXCEPT ![t] = <<>>]
      /\ UNCHANGED <<keptVars, held_mutexes, wakeups, objectVars, current_priority, prepared>>
  BY DEF RemoveDone, SyncAt, PhaseOK
<1>2. sync'.pc \in {"idle", "scan"}
  <2>1. sync' = LoopOn
    BY DEF RemoveDone
  <2> QED BY <2>1 DEF LoopOn, SyncIdle
<1>3. \A u \in Thread : u # t => wait_objects'[u] = wait_objects[u]
  BY <1>1 DEF TypeOK
<1> HIDE DEF t
<1>4. CASE sync.pc = "remove"
  <2>1. ResumeFromWait(t)
    BY <1>4 DEF RemoveDone, t
  <2>2. status[t] \in Resumable
    BY <1>4 DEF SchedInv, Loops, Resumable, t
  <2> QED BY <1>1, <1>2, <1>3, <2>1, <2>2, ResumeSched DEF keptVars, objectVars
<1>5. CASE sync.pc = "detach"
  <2>1. UNCHANGED <<wakeup_callback, ready_queue, status, executing>>
    BY <1>5 DEF RemoveDone
  <2>2. status[t] = "Dead"
    BY <1>5 DEF PhaseOK, t
  <2>3. PrioStep
    BY <1>1, <2>1, PrioSame DEF prioVars
  <2>4. StillStep
    BY <1>1, <1>3, <2>1, <2>2 DEF StillStep, keptVars, objectVars
  <2>5. Loops'
    BY <1>2 DEF Loops
  <2>6. Ends' /\ process_status' = process_status
    BY <1>1, <2>1, EndsSame DEF keptVars
  <2> QED BY <2>3, <2>4, <2>5, <2>6, StillKeeps
<1> QED BY <1>1, <1>4, <1>5

LEMMA TimeoutFiresSched ==
    ASSUME TypeOK, PhaseOK, SchedInv, NEW t \in Thread, TimeoutFires(t)
    PROVE  SchedInv'
<1>1. /\ t \in wakeups /\ wakeups' = wakeups \ {t} /\ sync.pc = "idle"
      /\ UNCHANGED <<nominal_priority, current_priority, held_mutexes, wait_objects, objectVars,
                     current_thread, prepared, process_status, term>>
  BY Idle DEF TimeoutFires
<1>2. status[t] \in Resumable \cup {"Ready"}
  BY <1>1 DEF SchedInv, NoStaleTimeout, TypeOK, Status
<1>3. CASE WaitTimesOut(t)
  <2>1. /\ sync' = [SyncIdle EXCEPT !.pc = "remove", !.thr = t, !.todo = wait_objects[t]]
        /\ UNCHANGED <<status, wakeup_callback, ready_queue, executing>>
    BY <1>3 DEF TimeoutFires
  <2>2. sync'.pc = "remove" /\ sync'.thr = t
    BY <2>1 DEF SyncIdle
  <2>3. Loops'
    BY <1>3, <2>1, <2>2 DEF Loops, WaitTimesOut
  <2>4. Placed' /\ Callbacks' /\ LevelsPrepared'
    BY <1>1, <2>1 DEF SchedInv, Placed, ExecutingIsRunning, Callbacks, LevelsPrepared
  <2>5. NoStaleTimeout'
    BY <1>1, <2>1 DEF SchedInv, NoStaleTimeout
  <2>6. Births'
    BY <1>1, <2>1 DEF SchedInv, Births, Unborn, objectVars
  <2>7. Ends'
    BY <1>1, <2>1, EndsSame
  <2> QED BY <1>1, <2>1, <2>3, <2>4, <2>5, <2>6, <2>7 DEF SchedInv
<1>4. CASE ~WaitTimesOut(t)
  <2>1. ResumeFromWait(t) /\ sync' = sync
    BY <1>4 DEF TimeoutFires
  <2>2. wakeups' \subseteq wakeups
    BY <1>1
  <2> QED BY <1>1, <1>2, <2>1, <2>2, ResumeSched DEF objectVars
<1> QED BY <1>3, <1>4

\* The caller of c stops running; another core does not run the same thread.
LEMMA OthersRunOn ==
    ASSUME TypeOK, SchedInv, NEW c \in Core, Calls(c, current_thread[c]),
           executing' = [executing EXCEPT ![c] = FALSE], UNCHANGED process_status
    PROVE  \A d \in Core : executing'[d] =>
             /\ executing[d]
             /\ process_status'[ProcessOf[current_thread[d]]] = "Running" =>
                  /\ current_thread[d] # current_thread[c]
                  /\ process_status[ProcessOf[current_thread[d]]] = "Running"
<1> SUFFICES ASSUME NEW d \in Core, executing'[d]
             PROVE  executing[d] /\ current_thread[d] # current_thread[c]
  OBVIOUS
<1>1. d # c /\ executing[d]
  BY DEF TypeOK
<1>2. current_thread[d] # None /\ CoreOf[current_thread[d]] = d
  BY <1>1 DEF SchedInv, Placed, ExecutingIsRunning
<1> QED BY <1>1, <1>2, CallerRuns

\* The caller of c blocks with status y.
LEMMA BlockSched ==
    ASSUME TypeOK, SchedInv, NEW c \in Core, Calls(c, current_thread[c]),
           NEW y, y \in Waiting \cup {"WaitSleep"}, NEW timed,
           status' = [status EXCEPT ![current_thread[c]] = y],
           executing' = EndSlice(c), wakeups' = WakeAfterDelay(current_thread[c], timed),
           UNCHANGED <<current_thread, nominal_priority, current_priority, held_mutexes,
                       holding_thread, ready_queue, prepared, process_status, term>>,
           \A u \in Thread : u # current_thread[c] => wait_objects'[u] = wait_objects[u]
                                                      /\ wakeup_callback'[u] = wakeup_callback[u],
           wakeup_callback'[current_thread[c]] => y \in Waiting,
           Loops'
    PROVE  SchedInv'
<1> DEFINE t == current_thread[c]
<1>1. t \in Thread /\ status[t] = "Running" /\ process_status[ProcessOf[t]] = "Running"
  BY CallerRuns
<1>2. y \in Status \ {"None", "Running", "Ready", "Dead"}
  BY DEF Status, Resumable, Waiting
<1>3. \A u \in Thread : status'[u] = IF u = t THEN y ELSE status[u]
  BY DEF TypeOK
<1>4. \A d \in Core : executing'[d] =>
        /\ executing[d]
        /\ process_status'[ProcessOf[current_thread[d]]] = "Running" =>
             current_thread[d] # t /\ process_status[ProcessOf[current_thread[d]]] = "Running"
  BY OthersRunOn DEF EndSlice
<1>5. \A u \in wakeups' : u \in Thread /\ (u # t => u \in wakeups)
  BY <1>1 DEF WakeAfterDelay, TypeOK
<1> HIDE DEF t
<1>6. QueueOK(ready_queue', status', current_priority)
  <2>1. \A u \in Thread : status'[u] = "Ready" <=> status[u] = "Ready"
    BY <1>1, <1>2, <1>3
  <2> QED BY <2>1 DEF SchedInv, QueueOK
<1>7. \A u \in Thread : process_status'[ProcessOf[u]] = "Created" =>
        u # t /\ process_status[ProcessOf[u]] = "Created"
  BY <1>1
<1>8. current_priority[t] \in prepared'[CoreOf[t]]
  BY <1>1 DEF SchedInv, LevelsPrepared
<1>9. StatusStep(t, y)
  BY <1>2, <1>4, <1>5, <1>6, <1>7, <1>8 DEF StatusStep, t
<1>10. Ends'
  BY <1>1, EndsLive DEF t
<1> QED BY <1>1, <1>9, <1>10, StatusKeeps

LEMMA SleepThreadSched ==
    ASSUME TypeOK, PhaseOK, SchedInv, NEW c \in Core, NEW timed \in BOOLEAN, SleepThread(c, timed)
    PROVE  SchedInv'
<1>1. Calls(c, current_thread[c])
      /\ status' = [status EXCEPT ![current_thread[c]] = "WaitSleep"]
      /\ wakeups' = WakeAfterDelay(current_thread[c], timed)
      /\ executing' = EndSlice(c)
      /\ UNCHANGED <<nominal_priority, current_priority, held_mutexes, wait_objects,
                     wakeup_callback, holding_thread, current_thread, ready_queue, prepared,
                     process_status, sync, term>>
  BY DEF SleepThread, objectVars, callVars
<1>2. current_thread[c] \in Thread /\ status[current_thread[c]] = "Running" /\ sync.pc = "idle"
  BY <1>1, CallerRuns
<1>3. ~wakeup_callback'[current_thread[c]]
  BY <1>1, <1>2 DEF SchedInv, Callbacks, Waiting
<1>4. Loops'
  BY <1>1, <1>2 DEF Loops
<1> QED BY <1>1, <1>3, <1>4, BlockSched

LEMMA WaitBlocksSched ==
    ASSUME TypeOK, PhaseOK, SchedInv, NEW c \in Core, NEW all \in BOOLEAN, NEW list,
           NEW timed \in BOOLEAN, WaitBlocks(c, all, list, timed)
    PROVE  SchedInv'
<1> DEFINE t == current_thread[c]
           y == IF all THEN "WaitSynchAll" ELSE "WaitSynchAny"
<1>1. Calls(c, t)
      /\ status' = [status EXCEPT ![t] = y]
      /\ wakeups' = WakeAfterDelay(t, timed)
      /\ executing' = EndSlice(c)
      /\ wait_objects' = [wait_objects EXCEPT ![t] = list]
      /\ wakeup_callback' = [wakeup_callback EXCEPT ![t] = TRUE]
      /\ UNCHANGED <<nominal_priority, current_priority, held_mutexes, holding_thread,
                     current_thread, ready_queue, prepared, process_status, term>>
  BY DEF WaitBlocks, objectVars
<1>2. t \in Thread /\ status[t] = "Running" /\ sync.pc = "idle"
  BY <1>1, CallerRuns
<1>3. y \in Waiting
  BY DEF Waiting
<1>4. sync'.pc = "idle" \/ (sync'.pc = "add" /\ sync'.thr = t)
  <2>1. \/ sync' = SyncIdle
        \/ sync' = [SyncIdle EXCEPT !.pc = "add", !.thr = t, !.todo = list]
    BY DEF WaitBlocks
  <2>2. SyncIdle.pc = "idle"
    BY DEF SyncIdle
  <2>3. CASE sync' = SyncIdle
    BY <2>2, <2>3
  <2>4. CASE sync' = [SyncIdle EXCEPT !.pc = "add", !.thr = t, !.todo = list]
    <3> HIDE DEF t
    <3> QED BY <2>4 DEF SyncIdle
  <2> QED BY <2>1, <2>3, <2>4
<1>5. \A u \in Thread : status'[u] = IF u = t THEN y ELSE status[u]
  BY <1>1 DEF TypeOK
<1> HIDE DEF t, y
<1>6. Loops'
  BY <1>2, <1>3, <1>4, <1>5 DEF Loops
<1>7. \A u \in Thread : u # t => wait_objects'[u] = wait_objects[u]
                                 /\ wakeup_callback'[u] = wakeup_callback[u]
  BY <1>1, <1>2 DEF TypeOK
<1> QED BY <1>1, <1>3, <1>6, <1>7, BlockSched DEF t

\* A thread is created with the priority it was given, at a level prepared for it.
LEMMA NewThreadSched ==
    ASSUME TypeOK, SchedInv, NEW t \in Thread, NEW make_ready \in BOOLEAN, status[t] = "None",
           NewThread(t, make_ready),
           UNCHANGED <<current_thread, nominal_priority, current_priority, held_mutexes,
                       holding_thread, wait_objects, wakeup_callback, term>>,
           \A u \in wakeups' : u \in Thread /\ (u # t => u \in wakeups),
           \A u \in Thread : process_status'[ProcessOf[u]] = "Created" =>
             u # t /\ process_status[ProcessOf[u]] = "Created",
           \A p \in Process : process_status'[p] = "Exited" <=> process_status[p] = "Exited",
           process_status'[ProcessOf[t]] # "Exited",
           \A c \in Core : executing'[c] =>
             /\ executing[c]
             /\ process_status'[ProcessOf[current_thread[c]]] = "Running" =>
                  current_thread[c] # t /\ process_status[ProcessOf[current_thread[c]]] = "Running",
           sync'.pc = "idle"
    PROVE  SchedInv'
<1> DEFINE y == IF make_ready THEN "Ready" ELSE "WaitSleep"
<1>1. Unborn(t)
  BY DEF SchedInv, Births
<1>2. current_priority[t] = InitPriority[t] /\ ~wakeup_callback[t]
  BY <1>1 DEF Unborn
<1>3. /\ prepared' = [prepared EXCEPT ![CoreOf[t]] = @ \cup {InitPriority[t]}]
      /\ ready_queue' = IF make_ready THEN PushBack(ready_queue, t, InitPriority[t]) ELSE ready_queue
      /\ status' = [status EXCEPT ![t] = y]
  BY DEF NewThread
<1>4. y \in Status \ {"None", "Running", "Dead"} /\ (y = "Ready" <=> make_ready)
  BY DEF Status, Resumable
<1> HIDE DEF y
<1>5. \A u \in Thread : status'[u] = IF u = t THEN y ELSE status[u]
  BY <1>3 DEF TypeOK
<1>6. QueueOK(ready_queue', status', current_priority)
  <2>1. CASE make_ready
    <3>1. ready_queue \in QueueType /\ status \in [Thread -> Status]
          /\ current_priority \in [Thread -> Priority]
          /\ QueueOK(ready_queue, status, current_priority)
      BY DEF TypeOK, QueueType, SchedInv
    <3>2. QueueOK(PushBack(ready_queue, t, current_priority[t]), [status EXCEPT ![t] = "Ready"],
                  current_priority)
      BY <3>1, PushOK
    <3> QED BY <1>2, <1>3, <1>4, <2>1, <3>2
  <2>2. CASE ~make_ready
    <3>1. \A u \in Thread : status'[u] = "Ready" <=> status[u] = "Ready"
      BY <1>4, <1>5, <2>2
    <3>2. ready_queue' = ready_queue
      BY <1>3, <2>2
    <3> QED BY <3>1, <3>2 DEF SchedInv, QueueOK
  <2> QED BY <2>1, <2>2
<1>7. /\ \A u \in Thread : prepared[CoreOf[u]] \subseteq prepared'[CoreOf[u]]
      /\ current_priority[t] \in prepared'[CoreOf[t]]
  <2>1. \A u \in Thread : CoreOf[u] \in Core
    BY KernelAssumption
  <2> QED BY <1>2, <1>3, <2>1 DEF TypeOK
<1>8. StatusStep(t, y)
  BY <1>2, <1>3, <1>4, <1>6, <1>7 DEF StatusStep
<1>9. Ends'
  <2>1. \A u \in Thread : ProcessOf[u] \in Process
    BY KernelAssumption
  <2>2. ASSUME NEW u \in Thread, process_status'[ProcessOf[u]] = "Exited"
        PROVE  process_status[ProcessOf[u]] = "Exited" /\ u # t
    BY <2>1, <2>2
  <2>3. term.pc = "cores" => process_status'[term.process] = "Exited"
    <3>1. ASSUME term.pc = "cores" PROVE process_status'[term.process] = "Exited"
      <4>1. term.process \in Process /\ process_status[term.process] = "Exited"
        BY <3>1 DEF SchedInv, Ends
      <4> QED BY <4>1
    <3> QED BY <3>1
  <2> QED BY <1>5, <2>2, <2>3 DEF SchedInv, Ends
<1>10. Loops'
  BY DEF Loops
<1> QED BY <1>8, <1>9, <1>10, StatusKeeps

LEMMA CreateThreadSched ==
    ASSUME TypeOK, PhaseOK, SchedInv, NEW c \in Core, NEW t \in Thread, CreateThread(c, t)
    PROVE  SchedInv'
<1>1. /\ Calls(c, current_thread[c]) /\ status[t] = "None"
      /\ ProcessOf[t] = ProcessOf[current_thread[c]]
      /\ NewThread(t, TRUE) /\ executing' = EndSlice(c)
      /\ UNCHANGED <<current_thread, nominal_priority, current_priority, held_mutexes,
                     holding_thread, wait_objects, wakeup_callback, wakeups, process_status, sync,
                     term>>
  BY DEF CreateThread, objectVars
<1>2. /\ current_thread[c] \in Thread /\ process_status[ProcessOf[current_thread[c]]] = "Running"
      /\ sync.pc = "idle"
  BY <1>1, CallerRuns
<1>3. \A d \in Core : executing'[d] =>
        /\ executing[d]
        /\ process_status'[ProcessOf[current_thread[d]]] = "Running" =>
             current_thread[d] # t /\ process_status[ProcessOf[current_thread[d]]] = "Running"
  <2> SUFFICES ASSUME NEW d \in Core, executing'[d] PROVE executing[d] /\ current_thread[d] # t
    BY <1>1
  <2>1. executing[d]
    BY <1>1 DEF EndSlice, TypeOK
  <2> QED BY <1>1, <2>1 DEF SchedInv, Placed, ExecutingIsRunning
<1>4. \A u \in wakeups' : u \in Thread /\ (u # t => u \in wakeups)
  BY <1>1 DEF TypeOK
<1>5. process_status[ProcessOf[t]] = "Running"
  BY <1>1, <1>2
<1>6. \A u \in Thread : process_status'[ProcessOf[u]] = "Created" =>
        u # t /\ process_status[ProcessOf[u]] = "Created"
  BY <1>1, <1>5
<1>7. TRUE \in BOOLEAN /\ sync'.pc = "idle" /\ process_status'[ProcessOf[t]] # "Exited"
      /\ \A p \in Process : process_status'[p] = "Exited" <=> process_status[p] = "Exited"
  BY <1>1, <1>2, <1>5
<1> QED BY <1>1, <1>3, <1>4, <1>6, <1>7, NewThreadSched

LEMMA ProcessRunSched ==
    ASSUME TypeOK, PhaseOK, SchedInv, NEW t \in Thread, NEW delayed \in BOOLEAN,
           ProcessRun(t, delayed)
    PROVE  SchedInv'
<1> DEFINE ready == ~delayed
<1>1. /\ process_status[ProcessOf[t]] = "Created"
      /\ sync.pc = "idle"
      /\ process_status' = [process_status EXCEPT ![ProcessOf[t]] = "Running"]
      /\ NewThread(t, ready) /\ wakeups' = WakeAfterDelay(t, delayed)
      /\ UNCHANGED <<current_thread, nominal_priority, current_priority, held_mutexes,
                     holding_thread, wait_objects, wakeup_callback, executing, sync, term>>
  BY Idle DEF ProcessRun, objectVars
<1>2. ready \in BOOLEAN
  OBVIOUS
<1> HIDE DEF ready
<1>3. status[t] = "None"
  BY <1>1 DEF SchedInv, Births
<1>4. \A u \in Thread : ProcessOf[u] \in Process
  BY KernelAssumption
<1>5. \A p \in Process : process_status'[p] = IF p = ProcessOf[t] THEN "Running" ELSE process_status[p]
  BY <1>1 DEF TypeOK
<1>6. \A c \in Core : executing[c] =>
        /\ current_thread[c] \in Thread
        /\ process_status[ProcessOf[current_thread[c]]] # "Created"
  <2>1. \A c \in Core : executing[c] =>
          current_thread[c] \in Thread /\ status[current_thread[c]] # "None"
    BY DEF SchedInv, Placed, ExecutingIsRunning, TypeOK
  <2> QED BY <2>1 DEF SchedInv, Births
<1>7. \A u \in wakeups' : u \in Thread /\ (u # t => u \in wakeups)
  BY <1>1 DEF WakeAfterDelay, TypeOK
<1>8. \A u \in Thread : process_status'[ProcessOf[u]] = "Created" =>
        u # t /\ process_status[ProcessOf[u]] = "Created"
  BY <1>4, <1>5
<1>9. /\ \A p \in Process : process_status'[p] = "Exited" <=> process_status[p] = "Exited"
      /\ process_status'[ProcessOf[t]] # "Exited" /\ sync'.pc = "idle"
  BY <1>1, <1>4, <1>5
<1>10. \A c \in Core : executing'[c] =>
        /\ executing[c]
        /\ process_status'[ProcessOf[current_thread[c]]] = "Running" =>
             current_thread[c] # t /\ process_status[ProcessOf[current_thread[c]]] = "Running"
  BY <1>1, <1>4, <1>5, <1>6
<1> QED BY <1>1, <1>2, <1>3, <1>7, <1>8, <1>9, <1>10, NewThreadSched

\* Thread::Stop takes the thread off its ready queue and cancels its timeout.
LEMMA BeginStopSched ==
    ASSUME TypeOK, SchedInv, NEW t \in Thread, BeginStop(t), status[t] # "None",
           \A c \in Core : executing'[c] =>
             /\ executing[c]
             /\ process_status[ProcessOf[current_thread[c]]] = "Running" => current_thread[c] # t,
           Ends'
    PROVE  SchedInv'
<1>1. /\ status' = [status EXCEPT ![t] = "Dead"] /\ wakeups' = wakeups \ {t}
      /\ ready_queue' = IF status[t] = "Ready"
                        THEN Dequeue(ready_queue, t, current_priority[t]) ELSE ready_queue
      /\ UNCHANGED <<current_thread, nominal_priority, current_priority, held_mutexes,
                     holding_thread, wait_objects, wakeup_callback, prepared, process_status>>
  BY DEF BeginStop, CancelWakeup, objectVars
<1>2. sync'.pc = "scan"
  BY DEF BeginStop, ScanOf, SyncIdle
<1>3. \A u \in Thread : status'[u] = IF u = t THEN "Dead" ELSE status[u]
  BY <1>1 DEF TypeOK
<1>4. QueueOK(ready_queue', status', current_priority)
  <2>1. CASE status[t] = "Ready"
    <3>1. ready_queue \in QueueType /\ status \in [Thread -> Status]
          /\ current_priority \in [Thread -> Priority]
          /\ QueueOK(ready_queue, status, current_priority)
      BY DEF TypeOK, QueueType, SchedInv
    <3>2. "Dead" \in Status /\ "Dead" # "Ready"
      BY DEF Status
    <3> QED BY <1>1, <2>1, <3>1, <3>2, DequeueOK
  <2>2. CASE status[t] # "Ready"
    <3>1. \A u \in Thread : status'[u] = "Ready" <=> status[u] = "Ready"
      BY <1>3, <2>2
    <3>2. ready_queue' = ready_queue
      BY <1>1, <2>2
    <3> QED BY <3>1, <3>2 DEF SchedInv, QueueOK
  <2> QED BY <2>1, <2>2
<1>5. \A u \in Thread : process_status'[ProcessOf[u]] = "Created" =>
        u # t /\ process_status[ProcessOf[u]] = "Created"
  BY <1>1 DEF SchedInv, Births
<1>6. current_priority[t] \in prepared'[CoreOf[t]]
  BY <1>1 DEF SchedInv, LevelsPrepared
<1>7. \A u \in wakeups' : u \in Thread /\ u # t /\ u \in wakeups
  BY <1>1 DEF TypeOK
<1>8. "Dead" \in Status \ {"None", "Running"}
  BY DEF Status
<1>9. \A c \in Core : executing'[c] =>
         /\ executing[c]
         /\ process_status'[ProcessOf[current_thread[c]]] = "Running" =>
              current_thread[c] # t /\ process_status[ProcessOf[current_thread[c]]] = "Running"
  BY <1>1
<1>10. StatusStep(t, "Dead")
  BY <1>1, <1>4, <1>5, <1>6, <1>7, <1>8, <1>9 DEF StatusStep
<1>11. Loops'
  BY <1>2 DEF Loops
<1> QED BY <1>10, <1>11, StatusKeeps

LEMMA ExitThreadSched ==
    ASSUME TypeOK, PhaseOK, SchedInv, NEW c \in Core, ExitThread(c)
    PROVE  SchedInv'
<1> DEFINE t == current_thread[c]
<1>1. Calls(c, t) /\ BeginStop(t) /\ executing' = [executing EXCEPT ![c] = FALSE] /\ term' = term
      /\ process_status' = process_status /\ status' = [status EXCEPT ![t] = "Dead"]
  BY DEF ExitThread, EndSlice, BeginStop
<1>2. t \in Thread /\ status[t] = "Running"
  BY <1>1, CallerRuns
<1>3. \A d \in Core : executing'[d] =>
        /\ executing[d]
        /\ process_status[ProcessOf[current_thread[d]]] = "Running" => current_thread[d] # t
  BY <1>1, OthersRunOn
<1> HIDE DEF t
<1>4. Ends'
  BY <1>1, <1>2, EndsLive
<1> QED BY <1>1, <1>2, <1>3, <1>4, BeginStopSched

LEMMA TermVictimSched ==
    ASSUME TypeOK, PhaseOK, SchedInv, TermVictim
    PROVE  SchedInv'
<1>1. PICK t \in Victims : BeginStop(t)
  BY DEF TermVictim
<1>2. term.pc = "cores" /\ UNCHANGED <<executing, term>>
  BY DEF TermVictim, TermAt
<1>3. t \in Thread /\ status[t] \notin {"None", "Dead"} /\ ProcessOf[t] = term.process
  BY DEF Victims
<1>4. process_status[ProcessOf[t]] = "Exited"
  BY <1>2, <1>3 DEF SchedInv, Ends
<1>5. \A c \in Core : executing'[c] =>
        /\ executing[c]
        /\ process_status[ProcessOf[current_thread[c]]] = "Running" => current_thread[c] # t
  BY <1>2, <1>4
<1>6. process_status' = process_status /\ status' = [status EXCEPT ![t] = "Dead"]
  BY <1>1 DEF BeginStop
<1>7. Ends'
  BY <1>2, <1>3, <1>6, EndsLive
<1> QED BY <1>1, <1>3, <1>5, <1>7, BeginStopSched

\* All threads of the process on this core are dead once its current one is.
LEMMA TermCurrentSched ==
    ASSUME TypeOK, PhaseOK, SchedInv, TermCurrent
    PROVE  SchedInv'
<1> DEFINE t == current_thread[term.core]
<1>1. /\ sync.pc = "idle" /\ term.pc = "cores" /\ term.core < NumCores /\ Victims = {}
      /\ term' = [term EXCEPT !.core = @ + 1]
  BY DEF TermCurrent, TermAt, StopAt
<1>2. term.core \in Core /\ term.core \in Nat /\ NumCores \in Nat
  BY <1>1, KernelAssumption DEF TypeOK, Core
<1>3. term'.pc = "cores" /\ term'.process = term.process /\ term'.core = term.core + 1
  BY <1>1 DEF TypeOK
<1>4. process_status' = process_status
  BY DEF TermCurrent, BeginStop
<1>5. term.process \in Process /\ process_status[term.process] = "Exited"
  BY <1>1 DEF SchedInv, Ends
<1>6. \A u \in Thread : CoreOf[u] \in Int /\ CoreOf[u] \in Core
  BY KernelAssumption DEF Core
<1>7. ASSUME \A u \in Thread : status'[u] = status[u] \/ status'[u] = "Dead",
             t \in Thread /\ ProcessOf[t] = term.process => status'[t] = "Dead"
      PROVE  Ends'
  <2>1. term'.core <= NumCores
    BY <1>1, <1>2, <1>3
  <2>2. ASSUME NEW u \in Thread, process_status[ProcessOf[u]] = "Exited",
               status'[u] \notin {"None", "Dead"}
        PROVE  term.process = ProcessOf[u] /\ term.core + 1 <= CoreOf[u]
    <3>1. status[u] \notin {"None", "Dead"}
      BY <1>7, <2>2
    <3>2. term.process = ProcessOf[u] /\ term.core <= CoreOf[u]
      BY <2>2, <3>1 DEF SchedInv, Ends
    <3>3. CoreOf[u] # term.core
      <4> SUFFICES ASSUME CoreOf[u] = term.core PROVE FALSE
        OBVIOUS
      <4>1. u = t
        BY <1>1, <3>1, <3>2 DEF Victims
      <4> QED BY <1>7, <2>2, <3>2, <4>1
    <3> QED BY <1>2, <1>6, <3>2, <3>3
  <2> QED BY <1>3, <1>4, <1>5, <2>1, <2>2 DEF Ends
<1>8. CASE t # None /\ ProcessOf[t] = term.process
  <2>1. BeginStop(t) /\ PrepareReschedule
    BY <1>8 DEF TermCurrent
  <2>2. t \in Thread /\ status[t] # "None"
    BY <1>2, <1>8 DEF TypeOK, SchedInv, Placed
  <2>3. \A c \in Core : executing'[c] => executing[c]
    BY <2>1 DEF PrepareReschedule, TypeOK
  <2>4. process_status[ProcessOf[t]] = "Exited"
    BY <1>5, <1>8
  <2> HIDE DEF t
  <2>5. \A u \in Thread : status'[u] = IF u = t THEN "Dead" ELSE status[u]
    BY <2>1 DEF BeginStop, TypeOK
  <2>6. Ends'
    BY <1>7, <2>5
  <2>7. \A c \in Core : executing'[c] =>
          /\ executing[c]
          /\ process_status[ProcessOf[current_thread[c]]] = "Running" => current_thread[c] # t
    BY <2>3, <2>4
  <2> QED BY <2>1, <2>2, <2>6, <2>7, BeginStopSched
<1>9. CASE ~(t # None /\ ProcessOf[t] = term.process)
  <2>1. UNCHANGED <<threadVars, objectVars, coreVars, sync>>
    BY <1>9 DEF TermCurrent
  <2>2. PrioStep /\ StillStep
    BY <2>1, PrioSame DEF prioVars, coreVars, threadVars, objectVars, StillStep
  <2>3. Loops'
    BY <1>1, <2>1 DEF Loops
  <2>4. \A u \in Thread : u # None
    BY KernelAssumption DEF Object
  <2>5. Ends'
    BY <1>7, <1>9, <2>1, <2>4 DEF threadVars
  <2> QED BY <1>4, <2>2, <2>3, <2>5, StillKeeps
<1> QED BY <1>8, <1>9

-------------------------------------------------------------------------------
(* Reschedule                                                              *)

\* Only threads that are ready or running change their status, between the two,
\* and the assertion of SwitchContext holds.
Switches ==
    /\ \A t \in Thread :
         IF status[t] \in {"Ready", "Running"} THEN status'[t] \in {"Ready", "Running"}
         ELSE status'[t] = status[t]
    /\ panic' = panic

\* SwitchContext on the queues q that PopNextReadyThread left, when it took the
\* ready thread next, or none, or found the running thread to be the best.
LEMMA SwitchSched ==
    ASSUME TypeOK, SchedInv, NEW c \in Core, NEW next \in Thread \cup {None},
           NEW q \in QueueType, SwitchContext(c, next, q),
           sync.pc = "idle", term.pc = "idle", UNCHANGED <<sync, stop, term, process_status>>,
           UNCHANGED <<nominal_priority, current_priority, held_mutexes, wait_objects,
                       wakeup_callback, holding_thread, prepared>>,
           next = None => ~IsRunning(current_thread[c]),
           next # None => /\ CoreOf[next] = c
                          /\ \/ status[next] = "Ready"
                             \/ next = current_thread[c] /\ IsRunning(next),
           QueueOK(q, IF next # None /\ status[next] = "Ready" THEN [status EXCEPT ![next] = "Dead"]
                      ELSE status, current_priority)
    PROVE  SchedInv' /\ Switches
<1> DEFINE prev    == current_thread[c]
           yields  == IsRunning(prev)
           status1 == IF yields THEN [status EXCEPT ![prev] = "Ready"] ELSE status
           queue1  == IF yields THEN PushFront(q, prev, current_priority[prev]) ELSE q
           st0     == IF next # None /\ status[next] = "Ready"
                      THEN [status EXCEPT ![next] = "Dead"] ELSE status
           st1     == IF yields THEN [st0 EXCEPT ![prev] = "Ready"] ELSE st0
<1>1. /\ current_thread' = [current_thread EXCEPT ![c] = next]
      /\ executing' = [executing EXCEPT ![c] = next # None]
      /\ next = None => /\ status' = status1 /\ ready_queue' = queue1 /\ wakeups' = wakeups
      /\ next # None => /\ wakeups' = wakeups \ {next}
                        /\ ready_queue' = Dequeue(queue1, next, current_priority[next])
                        /\ status' = [status1 EXCEPT ![next] = "Running"]
  BY DEF SwitchContext, CancelWakeup
<1>2. /\ status \in [Thread -> Status] /\ current_priority \in [Thread -> Priority]
      /\ current_thread \in [Core -> Thread \cup {None}] /\ prev \in Thread \cup {None}
  BY DEF TypeOK
<1>3. /\ yields => prev \in Thread /\ status[prev] = "Running"
      /\ prev # None => CoreOf[prev] = c
      /\ None \notin Thread
  BY <1>2, KernelAssumption DEF IsRunning, Object, SchedInv, Placed
<1>4. next # None => next \in Thread /\ status[next] \in {"Ready", "Running"}
  BY DEF IsRunning
<1>5. "Ready" \in Status /\ "Dead" \in Status /\ "Running" \in Status
  BY DEF Status
<1>6. st0 \in [Thread -> Status] /\ QueueOK(q, st0, current_priority)
  BY <1>2, <1>5
<1> HIDE DEF prev, yields
<1>7. yields => st0[prev] = "Running"
  BY <1>2, <1>3, <1>4
<1>8. /\ st1 \in [Thread -> Status] /\ queue1 \in QueueType
      /\ QueueOK(queue1, st1, current_priority)
  <2>1. CASE yields
    <3>1. prev \in Thread /\ st0[prev] # "Ready" /\ current_priority[prev] \in Priority
      BY <1>2, <1>3, <1>7, <2>1
    <3> HIDE DEF st0
    <3>2. QueueOK(PushFront(q, prev, current_priority[prev]), [st0 EXCEPT ![prev] = "Ready"],
                  current_priority)
      BY <1>2, <1>6, <3>1, PushOK
    <3>3. PushFront(q, prev, current_priority[prev]) \in QueueType
      BY <3>1, QueueTypes DEF QueueType
    <3> QED BY <1>5, <1>6, <2>1, <3>2, <3>3
  <2>2. CASE ~yields
    BY <1>6, <2>2
  <2> QED BY <2>1, <2>2
<1>9. \A u \in Thread : status'[u] = IF u = next THEN "Running"
                                     ELSE IF u = prev /\ yields THEN "Ready" ELSE status[u]
  BY <1>1, <1>2, <1>3, <1>4
<1>ready. panic' = panic
  <2>1. CASE next # None
    <3>1. status1[next] = "Ready"
      BY <1>2, <1>3, <1>4, <2>1 DEF prev, yields
    <3>2. panic' = IF status1[next] = "Ready" THEN panic
                   ELSE panic \cup {"Thread must be ready to become running."}
      BY <2>1 DEF SwitchContext, prev, yields
    <3> QED BY <3>1, <3>2
  <2>2. CASE next = None
    BY <2>2 DEF SwitchContext
  <2> QED BY <2>1, <2>2
<1>10. QueueOK(ready_queue', status', current_priority)
  <2>1. CASE next # None
    <3>1. next \in Thread /\ "Running" # "Ready"
      BY <1>4, <2>1
    <3>2. [st1 EXCEPT ![next] = "Running"] = status'
      BY <1>1, <1>2, <1>3, <2>1, <3>1
    <3> HIDE DEF st1, queue1
    <3>3. QueueOK(Dequeue(queue1, next, current_priority[next]), [st1 EXCEPT ![next] = "Running"],
                  current_priority)
      BY <1>2, <1>5, <1>8, <3>1, DequeueOK
    <3> QED BY <1>1, <2>1, <3>2, <3>3
  <2>2. CASE next = None
    <3>1. st1 = status' /\ queue1 = ready_queue'
      BY <1>1, <2>2
    <3> HIDE DEF st1, queue1
    <3> QED BY <1>8, <3>1
  <2> QED BY <2>1, <2>2
<1>11. current_priority' = current_priority /\ prepared' = prepared
       /\ process_status' = process_status
  OBVIOUS
<1> HIDE DEF status1, queue1, st0, st1
<1>12. QueueOK(ready_queue, status, current_priority)'
  BY <1>10, <1>11
<1>13. \A u \in Thread : status[u] \notin {"Ready", "Running"} => status'[u] = status[u]
  BY <1>3, <1>4, <1>9
<1>14. \A u \in Thread : status[u] \in {"Ready", "Running"} => status'[u] \in {"Ready", "Running"}
  BY <1>9
<1>15. \A d \in Core : /\ current_thread'[d] = IF d = c THEN next ELSE current_thread[d]
                       /\ d # c => executing'[d] = executing[d]
                       /\ executing'[c] <=> next # None
  BY <1>1, <1>2 DEF TypeOK
<1>16. Placed'
  <2>1. ASSUME NEW d \in Core, current_thread'[d] # None
        PROVE  CoreOf[current_thread'[d]] = d /\ status'[current_thread'[d]] # "None"
    <3>1. CASE d = c
      BY <1>4, <1>9, <1>15, <2>1, <3>1
    <3>2. CASE d # c
      <4>1. current_thread'[d] = current_thread[d] /\ current_thread[d] \in Thread
        BY <1>2, <1>15, <2>1, <3>2
      <4>2. CoreOf[current_thread[d]] = d /\ status[current_thread[d]] # "None"
        BY <2>1, <4>1 DEF SchedInv, Placed
      <4> QED BY <1>13, <1>14, <4>1, <4>2
    <3> QED BY <3>1, <3>2
  <2>2. ASSUME NEW d \in Core, executing'[d]
        PROVE  LET u == current_thread'[d]
               IN  u # None /\ (process_status'[ProcessOf[u]] = "Running" => status'[u] = "Running")
    <3>1. CASE d = c
      BY <1>4, <1>9, <1>15, <2>2, <3>1
    <3>2. CASE d # c
      <4> DEFINE u == current_thread[d]
      <4>1. executing[d] /\ current_thread'[d] = u
        BY <1>15, <2>2, <3>2
      <4>2. u # None /\ u \in Thread /\ CoreOf[u] = d
            /\ (process_status[ProcessOf[u]] = "Running" => status[u] = "Running")
        BY <1>2, <4>1 DEF SchedInv, Placed, ExecutingIsRunning
      <4>3. u # next /\ u # prev
        BY <1>3, <3>2, <4>2
      <4>4. status'[u] = status[u]
        BY <1>9, <4>2, <4>3
      <4> HIDE DEF u
      <4> QED BY <1>11, <4>1, <4>2, <4>4
    <3> QED BY <3>1, <3>2
  <2>3. ASSUME NEW u \in Thread, status'[u] = "Running"
        PROVE  current_thread'[CoreOf[u]] = u
    <3>1. CoreOf[u] \in Core
      BY KernelAssumption
    <3>2. CASE u = next
      BY <1>3, <1>15, <3>1, <3>2
    <3>3. CASE u # next
      <4>1. status[u] = "Running" /\ ~(u = prev /\ yields)
        BY <1>9, <2>3, <3>3
      <4>2. current_thread[CoreOf[u]] = u
        BY <4>1 DEF SchedInv, Placed, ExecutingIsRunning
      <4>3. CoreOf[u] # c
        BY <1>3, <4>1, <4>2 DEF prev, yields, IsRunning
      <4> QED BY <1>15, <3>1, <4>2, <4>3
    <3> QED BY <3>2, <3>3
  <2> QED BY <2>1, <2>2, <2>3 DEF Placed, ExecutingIsRunning
<1>17. \A u \in Thread : status'[u] = "None" <=> status[u] = "None"
  BY <1>13, <1>14
<1>18. Births'
  <2>1. \A u \in Thread : Unborn(u) => Unborn(u)'
    BY DEF Unborn
  <2> QED BY <1>11, <1>17, <2>1 DEF SchedInv, Births
<1>19. Callbacks'
  <2>1. \A u \in Thread : wakeup_callback'[u] => status[u] \in Waiting \cup {"Dead"}
    BY DEF SchedInv, Callbacks
  <2>2. \A u \in Thread : status[u] \in Waiting \cup {"Dead"} => status'[u] = status[u]
    BY <1>13 DEF Waiting
  <2> QED BY <2>1, <2>2 DEF Callbacks
<1>20. Loops'
  BY DEF Loops
<1>21. Ends'
  <2>1. \A u \in Thread : process_status[ProcessOf[u]] = "Exited" => status[u] \in {"None", "Dead"}
    BY DEF SchedInv, Ends
  <2> QED BY <1>11, <1>13, <2>1 DEF Ends
<1>22. NoStaleTimeout'
  <2> SUFFICES ASSUME NEW u \in wakeups' PROVE status'[u] \notin {"None", "Running", "Dead"}
    BY DEF NoStaleTimeout
  <2>1. u \in wakeups /\ u # next /\ u \in Thread
    BY <1>1, <1>3 DEF TypeOK
  <2>2. status[u] \notin {"None", "Running", "Dead"}
    BY <2>1 DEF SchedInv, NoStaleTimeout
  <2> QED BY <1>9, <2>1, <2>2
<1>23. LevelsPrepared'
  BY <1>11, <1>17 DEF SchedInv, LevelsPrepared
<1>24. Switches
  BY <1>13, <1>14, <1>ready DEF Switches
<1> QED BY <1>12, <1>16, <1>18, <1>19, <1>20, <1>21, <1>22, <1>23, <1>24 DEF SchedInv

LEMMA RescheduleSched ==
    ASSUME TypeOK, PhaseOK, SchedInv, NEW c \in Core, Reschedule(c)
    PROVE  SchedInv' /\ Switches
<1>1. /\ sync.pc = "idle" /\ term.pc = "idle"
      /\ UNCHANGED <<nominal_priority, current_priority, held_mutexes, wait_objects,
                     wakeup_callback, holding_thread, prepared, process_status, sync, stop, term>>
  BY Idle DEF Reschedule, RescheduleCore, objectVars, MayBegin, TermAt
<1>2. ready_queue \in QueueType /\ QueueOK(ready_queue, status, current_priority)
      /\ None \notin Thread
  BY KernelAssumption DEF TypeOK, QueueType, SchedInv, Object
<1>3. CASE \E p \in Priority : \E i \in 1 .. Len(ready_queue[c][p]) :
             SwitchContext(c, ready_queue[c][p][i], AfterPop(c, p, i))
  <2>0. PICK p \in Priority : \E i \in 1 .. Len(ready_queue[c][p]) :
          SwitchContext(c, ready_queue[c][p][i], AfterPop(c, p, i))
    BY <1>3
  <2>1. PICK i \in 1 .. Len(ready_queue[c][p]) :
          SwitchContext(c, ready_queue[c][p][i], AfterPop(c, p, i))
    BY <2>0
  <2> DEFINE next == ready_queue[c][p][i]
             q == AfterPop(c, p, i)
  <2>2. /\ next \in Thread /\ status[next] = "Ready" /\ CoreOf[next] = c
        /\ QueueOK(q, [status EXCEPT ![next] = "Dead"], current_priority)
    BY <1>2, AfterPopOK
  <2>3. q \in QueueType
    BY AfterPopType
  <2>4. SwitchContext(c, next, q)
    BY <2>1
  <2> HIDE DEF next, q
  <2>5. next # None
    BY <1>2, <2>2
  <2>6. QueueOK(q, IF next # None /\ status[next] = "Ready" THEN [status EXCEPT ![next] = "Dead"]
                   ELSE status, current_priority)
    BY <2>2, <2>5
  <2> QED BY <1>1, <2>2, <2>3, <2>4, <2>5, <2>6, SwitchSched
<1>4. CASE SwitchContext(c, IF IsRunning(current_thread[c]) THEN current_thread[c] ELSE None,
                         AfterNoPop(c))
  <2> DEFINE next == IF IsRunning(current_thread[c]) THEN current_thread[c] ELSE None
             q == AfterNoPop(c)
  <2>1. QueueOK(q, status, current_priority) /\ q \in QueueType
    BY <1>2, AfterNoPopOK, AfterNoPopType
  <2>2. SwitchContext(c, next, q)
    BY <1>4
  <2>3. /\ next = None => ~IsRunning(current_thread[c])
        /\ next # None => next \in Thread /\ next = current_thread[c] /\ IsRunning(next)
                          /\ status[next] # "Ready" /\ CoreOf[next] = c
        /\ next \in Thread \cup {None}
    BY DEF IsRunning, TypeOK, SchedInv, Placed
  <2> HIDE DEF next, q
  <2>4. QueueOK(q, IF next # None /\ status[next] = "Ready" THEN [status EXCEPT ![next] = "Dead"]
                   ELSE status, current_priority)
    BY <2>1, <2>3
  <2> QED BY <1>1, <2>1, <2>2, <2>3, <2>4, SwitchSched
<1> QED BY <1>3, <1>4 DEF Reschedule, RescheduleCore

-------------------------------------------------------------------------------
(* Every step                                                              *)

LEMMA ThreadCallSched ==
    ASSUME TypeOK, PhaseOK, SchedInv, NEW c \in Core, ThreadCall(c)
    PROVE  SchedInv'
<1>1. CASE WaitReturns(c)
  BY <1>1, WaitAcquiresSched DEF WaitReturns
<1>2. CASE WaitBegins(c)
  BY <1>2, WaitBlocksSched DEF WaitBegins
<1>3. CASE \E timed \in BOOLEAN : SleepThread(c, timed)
  BY <1>3, SleepThreadSched
<1>4. CASE \E t \in Thread : CreateThread(c, t)
  BY <1>4, CreateThreadSched
<1>5. CASE \E t \in Thread, p \in SetPriorities : SetThreadPriority(c, t, p)
  BY <1>5, SvcAssumption, SetThreadPrioritySched
<1>6. CASE ExitThread(c)
  BY <1>6, ExitThreadSched
<1>7. CASE \E p \in Process : TerminateProcess(c, p)
  BY <1>7, TerminateProcessSched
<1>8. CASE \E p \in Process, S \in Controllable, stopped \in BOOLEAN :
             ControlProcess(c, p, S, stopped)
  BY <1>8, ControlProcessSched
<1>9. CASE \E m \in Mutex : ReleaseMutex(c, m)
  BY <1>9, ReleaseMutexSched
<1>10. CASE \/ \E s \in Semaphore, n \in ReleaseCounts : ReleaseSemaphore(c, s, n)
            \/ \E e \in Event : SignalEvent(c, e)
            \/ \E e \in Event : ClearEvent(c, e)
  BY <1>10, SignalsSched
<1> QED BY <1>1, <1>2, <1>3, <1>4, <1>5, <1>6, <1>7, <1>8, <1>9, <1>10 DEF ThreadCall

LEMMA StepSched ==
    ASSUME TypeOK, PhaseOK, SchedInv, [Next]_vars
    PROVE  SchedInv'
<1>1. CASE SyncStep
  BY <1>1, WakeNextSched, WakeupDoneSched, AcquireNextSched, AcquireDoneSched, RemoveNextSched,
     RemoveDoneSched, AddNextSched, UpdateNextSched DEF SyncStep
<1>2. CASE StopStep
  BY <1>2, StopStepSched
<1>3. CASE TermStep
  BY <1>3, TermVictimSched, TermCurrentSched, TermDoneSched DEF TermStep
<1>4. CASE \E c \in Core : ThreadCall(c) \/ Reschedule(c)
  BY <1>4, ThreadCallSched, RescheduleSched
<1>5. CASE \E t \in Thread : TimeoutFires(t)
  BY <1>5, TimeoutFiresSched
<1>6. CASE \E t \in Thread, delayed \in BOOLEAN : ProcessRun(t, delayed)
  BY <1>6, ProcessRunSched
<1>7. CASE \E e \in Event : ServiceSignal(e)
  <2>1. 0 \in Core
    BY KernelAssumption DEF Core
  <2> QED BY <1>7, <2>1, SignalsSched
<1>8. CASE UNCHANGED vars
  <2>1. UNCHANGED <<threadVars, objectVars, coreVars, callVars>>
    BY <1>8 DEF vars
  <2>2. PrioStep /\ StillStep
    BY <2>1, PrioSame DEF prioVars, coreVars, threadVars, objectVars, StillStep
  <2>3. Loops'
    BY <2>1 DEF SchedInv, Loops, threadVars, callVars
  <2>4. Ends' /\ process_status' = process_status
    BY <2>1, EndsSame DEF threadVars, callVars
  <2> QED BY <2>2, <2>3, <2>4, StillKeeps
<1> QED BY <1>1, <1>2, <1>3, <1>4, <1>5, <1>6, <1>7, <1>8 DEF Next, KernelStep

LEMMA InitSched == Init => SchedInv
<1> SUFFICES ASSUME Init PROVE SchedInv
  OBVIOUS
<1>1. \A t \in Thread : status[t] = "None" /\ Unborn(t) /\ ~wakeup_callback[t]
  <2>1. \A t \in Thread : t # None
    BY KernelAssumption DEF Object
  <2> QED BY <2>1 DEF Init, Unborn
<1>2. QueueOK(ready_queue, status, current_priority)
  <2>1. \A c \in Core, p \in Priority : ready_queue[c][p] = <<>>
    BY DEF Init
  <2>2. Elems(<<>>) = {} /\ Distinct(<<>>)
    BY DEF Elems, Distinct
  <2> QED BY <1>1, <2>1, <2>2 DEF QueueOK
<1>3. Placed /\ NoStaleTimeout
  BY <1>1 DEF Init, Placed, ExecutingIsRunning, NoStaleTimeout
<1>4. Births /\ Callbacks /\ LevelsPrepared
  BY <1>1 DEF Births, Callbacks, LevelsPrepared
<1>5. sync.pc = "idle" /\ term.pc = "idle"
  BY DEF Init, SyncIdle, TermIdle
<1>6. Loops /\ Ends
  BY <1>1, <1>5 DEF Loops, Ends
<1> QED BY <1>2, <1>3, <1>4, <1>6 DEF SchedInv

\* The invariant the theorems rest on.
LEMMA Scheduling == Spec => [](TypeOK /\ PhaseOK /\ SchedInv)
<1>1. Init => TypeOK /\ PhaseOK /\ SchedInv
  BY InitType, InitSched
<1>2. TypeOK /\ PhaseOK /\ SchedInv /\ [Next]_vars => (TypeOK /\ PhaseOK /\ SchedInv)'
  BY StepType, StepSched
<1> QED BY <1>1, <1>2, PTL DEF Spec

\* BoostPriority, Stop, ResumeFromWait, PopNextReadyThread and SwitchContext
\* keep the ready queues exact: a thread is queued if and only if it is ready,
\* once, on its core and at its current priority.
THEOREM QueuesAreExact == Spec => []ReadyExactlyQueued
<1>1. SchedInv => ReadyExactlyQueued
  BY QueuesExact DEF SchedInv
<1> QED BY <1>1, Scheduling, PTL

\* SwitchContext: no two threads run on one core, no thread runs on another
\* core than its own, and guest code of a running process is executed by a
\* running thread only.
THEOREM CoresRunTheirThread == Spec => []ExecutingIsRunning
<1>1. SchedInv => ExecutingIsRunning
  BY DEF SchedInv, Placed
<1> QED BY <1>1, Scheduling, PTL

\* SwitchContext and Stop cancel the wakeup event: a timeout never hits a
\* later wait of the same thread.
THEOREM TimeoutsAreFresh == Spec => []NoStaleTimeout
<1>1. SchedInv => NoStaleTimeout
  BY DEF SchedInv
<1> QED BY <1>1, Scheduling, PTL

\* CreateThread, BoostPriority and SetPriority call prepare before a thread can
\* be queued at a level.
THEOREM QueuesArePrepared == Spec => []LevelsPrepared
<1>1. SchedInv => LevelsPrepared
  BY DEF SchedInv
<1> QED BY <1>1, Scheduling, PTL

\* TerminateProcess leaves no thread of the process alive, on any core.
THEOREM NothingSurvives == Spec => []TerminationIsComplete
<1>1. SchedInv => TerminationIsComplete
  BY DEF SchedInv, Ends, TerminationIsComplete, KernelIdle
<1> QED BY <1>1, Scheduling, PTL

\* Only a wakeup loop, a timeout and the thread itself write what a wait returns.
LEMMA ResultStep ==
    ASSUME TypeOK, PhaseOK, SchedInv, [Next]_vars, NEW t \in Thread, status[t] = "Ready"
    PROVE  result'[t] = result[t]
<1>1. CASE AcquireDone
  <2>1. CASE sync.obj = None
    BY <1>1, <2>1 DEF AcquireDone
  <2>2. CASE sync.obj # None
    <3>1. status[sync.thr] \in Waiting
      BY <1>1, <2>2 DEF AcquireDone, SyncAt, SchedInv, Loops
    <3>2. sync.thr # t
      BY <3>1 DEF Waiting
    <3>3. result' = result \/ result' = [result EXCEPT ![sync.thr] = "Success"]
      BY <1>1, <2>2 DEF AcquireDone
    <3> QED BY <3>2, <3>3 DEF TypeOK
  <2> QED BY <2>1, <2>2
<1>2. ASSUME NEW c \in Core, NEW all, NEW list, NEW timed, WaitBlocks(c, all, list, timed)
      PROVE  result'[t] = result[t]
  <2>1. Calls(c, current_thread[c]) /\ result' = [result EXCEPT ![current_thread[c]] = "Timeout"]
    BY <1>2 DEF WaitBlocks
  <2>2. current_thread[c] # t
    BY <2>1, CallerRuns
  <2> QED BY <2>1, <2>2 DEF TypeOK
<1>3. ASSUME NEW u \in Thread, TimeoutFires(u)
      PROVE  result'[t] = result[t]
  <2>1. result' = ResultAfterTimeout(u)
    BY <1>3 DEF TimeoutFires
  <2>2. CASE WaitTimesOut(u) /\ wakeup_callback[u]
    <3>1. u # t
      BY <2>2 DEF WaitTimesOut, Waiting
    <3> QED BY <2>1, <2>2, <3>1 DEF ResultAfterTimeout, TypeOK
  <2>3. CASE ~(WaitTimesOut(u) /\ wakeup_callback[u])
    BY <2>1, <2>3 DEF ResultAfterTimeout
  <2> QED BY <2>2, <2>3
<1>4. CASE UNCHANGED result
  BY <1>4
<1>5. CASE SyncStep
  BY <1>1, <1>4, <1>5 DEF SyncStep, WakeNext, WakeupDone, AcquireNext, RemoveNext, RemoveDone,
        AddNext, UpdateNext, threadVars
<1>6. CASE StopStep \/ TermStep
  BY <1>4, <1>6 DEF StopStep, StopDetach, StopRelease, StopDone, TermStep, TermVictim,
        TermCurrent, TermDone, BeginStop, threadVars
<1>7. ASSUME NEW c \in Core, ThreadCall(c)
      PROVE  result'[t] = result[t]
  <2>1. CASE WaitReturns(c)
    BY <1>4, <2>1 DEF WaitReturns, WaitAcquires, threadVars
  <2>2. CASE WaitBegins(c)
    BY <1>2, <2>2 DEF WaitBegins
  <2>3. CASE \/ \E timed \in BOOLEAN : SleepThread(c, timed)
             \/ \E u \in Thread : CreateThread(c, u)
             \/ \E u \in Thread, p \in SetPriorities : SetThreadPriority(c, u, p)
             \/ ExitThread(c)
             \/ \E p \in Process : TerminateProcess(c, p)
    BY <1>4, <2>3 DEF SleepThread, CreateThread, SetThreadPriority, ExitThread, BeginStop,
          TerminateProcess, threadVars
  <2>4. CASE \/ \E p \in Process, S \in Controllable, stopped \in BOOLEAN :
                  ControlProcess(c, p, S, stopped)
             \/ \E m \in Mutex : ReleaseMutex(c, m)
             \/ \E s \in Semaphore, n \in ReleaseCounts : ReleaseSemaphore(c, s, n)
             \/ \E e \in Event : SignalEvent(c, e)
             \/ \E e \in Event : ClearEvent(c, e)
    BY <1>4, <2>4 DEF ControlProcess, ReleaseMutex, ReleaseSemaphore, SignalEvent, Signal,
          ClearEvent, threadVars
  <2> QED BY <1>7, <2>1, <2>2, <2>3, <2>4 DEF ThreadCall
<1>8. CASE \E c \in Core : Reschedule(c)
  BY <1>4, <1>8 DEF Reschedule, RescheduleCore
<1>9. CASE \E u \in Thread, delayed \in BOOLEAN : ProcessRun(u, delayed)
  BY <1>4, <1>9 DEF ProcessRun
<1>10. CASE \E e \in Event : ServiceSignal(e)
  BY <1>4, <1>10 DEF ServiceSignal, Signal, threadVars
<1>11. CASE UNCHANGED vars
  BY <1>4, <1>11 DEF vars, threadVars
<1> QED BY <1>3, <1>5, <1>6, <1>7, <1>8, <1>9, <1>10, <1>11 DEF Next, KernelStep

\* SVC_SyncCallback runs once per wait: when a thread has been made ready,
\* neither a late timeout nor another object changes what its wait returned.
THEOREM OutcomesAreFinal == Spec => OutcomeIsFinal
<1>1. TypeOK /\ PhaseOK /\ SchedInv /\ [Next]_vars =>
        [\A t \in Thread : status[t] = "Ready" => result'[t] = result[t]]_vars
  BY ResultStep
<1> QED BY <1>1, Scheduling, PTL DEF Spec, OutcomeIsFinal

-------------------------------------------------------------------------------
(* Waits and wakeups                                                       *)

\* A thread that waits for o is on o's waiting list.
Listed ==
    \A t \in Thread : \A o \in Elems(wait_objects[t]) : status[t] \in Waiting =>
      \/ t \in Elems(waiting_threads[o])
      \/ sync.pc = "add" /\ sync.thr = t /\ o \in Elems(sync.todo)
      \/ sync.pc = "remove" /\ sync.thr = t

\* The wakeup loop of o is running.
Waking(o) == sync.pc \in {"scan", "acquire", "remove"} /\ sync.obj = o

\* A wait that could end has been noticed by the loop that is running.
Attended ==
    \A t \in Thread :
      /\ status[t] = "WaitSynchAll" /\ (\A o \in Elems(wait_objects[t]) : ~ShouldWait(o, t)) =>
           \E o \in Elems(wait_objects[t]) : Waking(o)
      /\ status[t] = "WaitSynchAny" =>
           \A o \in Elems(wait_objects[t]) : ~ShouldWait(o, t) => Waking(o)

WaitInv == TypeOK /\ PhaseOK /\ Listed /\ Attended

-------------------------------------------------------------------------------
(* Steps in general                                                        *)

\* No thread starts to wait, or waits for something else.
NoNewWait ==
    \A t \in Thread : status'[t] \in Waiting =>
      status'[t] = status[t] /\ wait_objects'[t] = wait_objects[t]

\* Every object a thread had to wait for it still has to wait for, unless the
\* wakeup loop of that object runs after the step.
Announced ==
    \A t \in Thread : \A o \in Object : ShouldWait(o, t) => ShouldWait(o, t)' \/ Waking(o)'

\* What a thread waits for are objects.
LEMMA WaitObjects ==
    ASSUME TypeOK, NEW t \in Thread
    PROVE  Elems(wait_objects[t]) \subseteq Object
<1>1. wait_objects[t] \in Seq(Object)
  BY DEF TypeOK
<1> QED BY <1>1 DEF Elems

\* While no wakeup loop runs no wait can end.
LEMMA NobodySatisfiable ==
    ASSUME TypeOK, Attended, \A o \in Object : ~Waking(o)
    PROVE  \A t \in Thread : ~Satisfiable(t)
BY WaitObjects DEF Attended, Satisfiable

\* A step that goes on with the loop that runs.
LEMMA AttendedInLoop ==
    ASSUME TypeOK, Attended, NoNewWait, Announced,
           \A o \in Object : Waking(o) => Waking(o)'
    PROVE  Attended'
<1> SUFFICES ASSUME NEW t \in Thread
             PROVE  /\ status'[t] = "WaitSynchAll"
                       /\ (\A o \in Elems(wait_objects'[t]) : ~ShouldWait(o, t)') =>
                         \E o \in Elems(wait_objects'[t]) : Waking(o)'
                    /\ status'[t] = "WaitSynchAny" =>
                         \A o \in Elems(wait_objects'[t]) : ~ShouldWait(o, t)' => Waking(o)'
  BY DEF Attended
<1>1. Elems(wait_objects[t]) \subseteq Object
  BY WaitObjects
<1>2. ASSUME status'[t] = "WaitSynchAll",
             \A o \in Elems(wait_objects'[t]) : ~ShouldWait(o, t)'
      PROVE  \E o \in Elems(wait_objects'[t]) : Waking(o)'
  <2>1. status[t] = "WaitSynchAll" /\ wait_objects'[t] = wait_objects[t]
    BY <1>2 DEF NoNewWait, Waiting
  <2>2. CASE \A o \in Elems(wait_objects[t]) : ~ShouldWait(o, t)
    BY <1>1, <2>1, <2>2 DEF Attended
  <2>3. CASE \E o \in Elems(wait_objects[t]) : ShouldWait(o, t)
    BY <1>1, <1>2, <2>1, <2>3 DEF Announced
  <2> QED BY <2>2, <2>3
<1>3. ASSUME status'[t] = "WaitSynchAny", NEW o \in Elems(wait_objects'[t]),
             ~ShouldWait(o, t)'
      PROVE  Waking(o)'
  <2>1. status[t] = "WaitSynchAny" /\ wait_objects'[t] = wait_objects[t]
    BY <1>3 DEF NoNewWait, Waiting
  <2>2. o \in Object
    BY <1>1, <2>1
  <2>3. CASE ShouldWait(o, t)
    BY <1>3, <2>2, <2>3 DEF Announced
  <2>4. CASE ~ShouldWait(o, t)
    BY <2>1, <2>2, <2>4 DEF Attended
  <2> QED BY <2>3, <2>4
<1> QED BY <1>2, <1>3

\* A step from a state in which no wait can end.
LEMMA AttendedFromQuiet ==
    ASSUME TypeOK, \A t \in Thread : ~Satisfiable(t), NoNewWait, Announced
    PROVE  Attended'
<1> SUFFICES ASSUME NEW t \in Thread
             PROVE  /\ status'[t] = "WaitSynchAll"
                       /\ (\A o \in Elems(wait_objects'[t]) : ~ShouldWait(o, t)') =>
                         \E o \in Elems(wait_objects'[t]) : Waking(o)'
                    /\ status'[t] = "WaitSynchAny" =>
                         \A o \in Elems(wait_objects'[t]) : ~ShouldWait(o, t)' => Waking(o)'
  BY DEF Attended
<1>1. Elems(wait_objects[t]) \subseteq Object
  BY WaitObjects
<1>2. ASSUME status'[t] = "WaitSynchAll",
             \A o \in Elems(wait_objects'[t]) : ~ShouldWait(o, t)'
      PROVE  \E o \in Elems(wait_objects'[t]) : Waking(o)'
  <2>1. status[t] = "WaitSynchAll" /\ wait_objects'[t] = wait_objects[t]
    BY <1>2 DEF NoNewWait, Waiting
  <2>2. PICK o \in Elems(wait_objects[t]) : ShouldWait(o, t)
    BY <2>1 DEF Satisfiable
  <2> QED BY <1>1, <1>2, <2>1, <2>2 DEF Announced
<1>3. ASSUME status'[t] = "WaitSynchAny", NEW o \in Elems(wait_objects'[t]),
             ~ShouldWait(o, t)'
      PROVE  Waking(o)'
  <2>1. status[t] = "WaitSynchAny" /\ wait_objects'[t] = wait_objects[t]
    BY <1>3 DEF NoNewWait, Waiting
  <2>2. o \in Object /\ ShouldWait(o, t)
    BY <1>1, <2>1 DEF Satisfiable
  <2> QED BY <1>3, <2>2 DEF Announced
<1> QED BY <1>2, <1>3

\* A step that leaves the waiting lists alone, outside the loops that change
\* them.
LEMMA ListedKept ==
    ASSUME Listed, NoNewWait, UNCHANGED waiting_threads, sync.pc \notin {"add", "remove"}
    PROVE  Listed'
<1> SUFFICES ASSUME NEW t \in Thread, NEW o \in Elems(wait_objects'[t]), status'[t] \in Waiting
             PROVE  t \in Elems(waiting_threads'[o])
  BY DEF Listed
<1>1. status[t] \in Waiting /\ wait_objects'[t] = wait_objects[t]
  BY DEF NoNewWait
<1> QED BY <1>1 DEF Listed

\* What ShouldWait looks at.
LEMMA AnnouncedKept ==
    ASSUME TypeOK, UNCHANGED <<lock_count, holding_thread, available_count, signaled>>,
           \A t \in Thread : status'[t] = "Dead" => status[t] = "Dead"
    PROVE  Announced
<1> SUFFICES ASSUME NEW t \in Thread, NEW o \in Object, ShouldWait(o, t)
             PROVE  ShouldWait(o, t)'
  BY DEF Announced
<1> QED BY DEF ShouldWait

-------------------------------------------------------------------------------
(* The wakeup loop                                                         *)

\* Choosing the next thread to wake changes no object.
LEMMA WakeNextKeeps ==
    ASSUME WaitInv, WakeNext
    PROVE  Listed' /\ Attended'
<1>1. sync.pc = "scan" /\ UNCHANGED <<threadVars, objectVars>>
  BY DEF WakeNext, SyncAt
<1>2. sync'.obj = sync.obj /\ sync'.pc = "acquire"
  <2>1. sync \in SyncSet
    BY DEF WaitInv, TypeOK, SyncSet, SyncPC
  <2> QED BY <2>1 DEF WakeNext, SyncSet
<1>3. NoNewWait
  BY <1>1 DEF NoNewWait, threadVars
<1>4. Announced
  BY <1>1, AnnouncedKept DEF WaitInv, threadVars, objectVars
<1>5. \A o \in Object : Waking(o) => Waking(o)'
  BY <1>2 DEF Waking
<1>6. Attended'
  BY <1>3, <1>4, <1>5, AttendedInLoop DEF WaitInv
<1>7. Listed'
  BY <1>1, <1>3, ListedKept DEF WaitInv, objectVars
<1> QED BY <1>6, <1>7

\* At the end of the loop nobody is left whose wait could end.
LEMMA NobodyLeft ==
    ASSUME WaitInv, sync.pc = "scan", NobodyToWake(sync.obj)
    PROVE  \A t \in Thread : ~Satisfiable(t)
<1> SUFFICES ASSUME NEW t \in Thread, Satisfiable(t)
             PROVE  FALSE
  OBVIOUS
<1>1. Elems(wait_objects[t]) \subseteq Object
  BY WaitObjects DEF WaitInv
<1>2. \A o \in Elems(wait_objects[t]) : status[t] \in Waiting => t \in Elems(waiting_threads[o])
  BY DEF WaitInv, Listed
<1>3. CASE status[t] = "WaitSynchAll"
  <2>1. \A o \in Elems(wait_objects[t]) : ~ShouldWait(o, t)
    BY <1>3 DEF Satisfiable
  <2>2. sync.obj \in Elems(wait_objects[t])
    BY <1>3, <2>1 DEF WaitInv, Attended, Waking
  <2> QED BY <1>2, <1>3, <2>1, <2>2 DEF NobodyToWake, ReadyToRun, Waiting
<1>4. CASE status[t] = "WaitSynchAny"
  <2>1. PICK o \in Elems(wait_objects[t]) : ~ShouldWait(o, t)
    BY <1>4 DEF Satisfiable
  <2>2. o = sync.obj
    BY <1>4, <2>1 DEF WaitInv, Attended, Waking
  <2> QED BY <1>2, <1>4, <2>1, <2>2 DEF NobodyToWake, ReadyToRun, Waiting
<1> QED BY <1>3, <1>4 DEF Satisfiable

\* The wakeup loop ends only when nobody on the list could go.
LEMMA WakeupDoneKeeps ==
    ASSUME WaitInv, WakeupDone
    PROVE  Listed' /\ Attended'
<1>1. sync.pc = "scan" /\ UNCHANGED <<threadVars, waiting_threads, lock_count, holding_thread,
                                      available_count>>
  BY DEF WakeupDone, SyncAt
<1>2. NoNewWait
  BY <1>1 DEF NoNewWait, threadVars
<1>3. Listed'
  BY <1>1, <1>2, ListedKept DEF WaitInv
<1>4. CASE Inconsistent(sync.obj)
  <2>1. UNCHANGED <<signaled, sync>>
    BY <1>4 DEF WakeupDone
  <2>2. Announced
    BY <1>1, <2>1, AnnouncedKept DEF WaitInv, threadVars
  <2>3. \A o \in Object : Waking(o) => Waking(o)'
    BY <2>1 DEF Waking
  <2> QED BY <1>2, <1>3, <2>2, <2>3, AttendedInLoop DEF WaitInv
<1>5. CASE ~Inconsistent(sync.obj)
  <2>1. NobodyToWake(sync.obj)
        /\ signaled' = [e \in Event |->
                          signaled[e] /\ ~(e = sync.obj /\ ResetType[e] = "Pulse")]
    BY <1>5 DEF WakeupDone
  <2>2. \A e \in Event : ~signaled[e] => ~signaled'[e]
    BY <2>1
  <2>3. Announced
    <3> SUFFICES ASSUME NEW t \in Thread, NEW o \in Object, ShouldWait(o, t)
                 PROVE  ShouldWait(o, t)'
      BY DEF Announced
    <3> QED BY <1>1, <2>2 DEF ShouldWait, threadVars
  <2>4. \A t \in Thread : ~Satisfiable(t)
    BY <1>1, <2>1, NobodyLeft
  <2> QED BY <1>2, <1>3, <2>3, <2>4, AttendedFromQuiet DEF WaitInv
<1> QED BY <1>4, <1>5

\* Acquiring an object makes nothing available.
LEMMA AcquireAnnounced ==
    ASSUME TypeOK, NEW x \in Object, NEW u \in Thread, Acquire(x, u),
           x \in Semaphore \/ ~ShouldWait(x, u), UNCHANGED status
    PROVE  Announced
<1> SUFFICES ASSUME NEW t \in Thread, NEW o \in Object, ShouldWait(o, t)
             PROVE  ShouldWait(o, t)'
  BY DEF Announced
<1>1. CASE x \in Mutex /\ AcquireMutex(x, u)
  <2>1. UNCHANGED <<available_count, signaled>>
    BY <1>1 DEF AcquireMutex
  <2>2. lock_count \in [Mutex -> Nat] /\ holding_thread \in [Mutex -> Thread \cup {None}]
    BY DEF TypeOK
  <2>3. lock_count' = [lock_count EXCEPT ![x] = @ + 1]
    BY <1>1 DEF AcquireMutex
  <2>4. lock_count[x] = 0 => holding_thread' = [holding_thread EXCEPT ![x] = u]
    BY <1>1 DEF AcquireMutex
  <2>5. lock_count[x] # 0 => holding_thread' = holding_thread
    BY <1>1 DEF AcquireMutex
  <2>6. CASE o \in Mutex
    <3>1. lock_count[o] > 0 /\ holding_thread[o] # t
      BY <2>6, KindsAssumption DEF ShouldWait
    <3>2. lock_count'[o] > 0 /\ holding_thread'[o] # t
      BY <2>2, <2>3, <2>4, <2>5, <2>6, <3>1
    <3> QED BY <2>6, <3>2 DEF ShouldWait
  <2>7. CASE o \notin Mutex
    BY <2>1, <2>7 DEF ShouldWait
  <2> QED BY <2>6, <2>7
<1>2. CASE x \in Semaphore /\ AcquireSemaphore(x)
  <2>1. UNCHANGED <<signaled, lock_count, holding_thread>>
    BY <1>2 DEF AcquireSemaphore, mutexVars
  <2>2. \A y \in Semaphore : available_count[y] <= 0 => available_count'[y] <= 0
    BY <1>2 DEF AcquireSemaphore, TypeOK
  <2> QED BY <2>1, <2>2 DEF ShouldWait
<1>3. CASE x \in Event /\ AcquireEvent(x)
  <2>1. UNCHANGED <<available_count, lock_count, holding_thread>>
    BY <1>3 DEF AcquireEvent, mutexVars
  <2>2. \A y \in Event : ~signaled[y] => ~signaled'[y]
    BY <1>3 DEF AcquireEvent, TypeOK
  <2> QED BY <2>1, <2>2 DEF ShouldWait
<1>4. CASE UNCHANGED <<available_count, signaled, mutexVars>>
  BY <1>4 DEF ShouldWait, mutexVars
<1> QED BY <1>1, <1>2, <1>3, <1>4 DEF Acquire

\* Acquiring never makes another object available.
LEMMA AcquireNextKeeps ==
    ASSUME WaitInv, AcquireNext
    PROVE  Listed' /\ Attended'
<1> DEFINE o == Head(sync.todo)
           t == sync.thr
<1>1. sync.todo \in Seq(Object) /\ sync.todo # <<>> /\ sync.pc = "acquire" /\ t \in Thread
  BY DEF WaitInv, TypeOK, PhaseOK, AcquireNext, SyncAt
<1>2. o \in Object
  BY <1>1, ElemsHeadTail
<1>3. UNCHANGED <<status, wait_objects, waiting_threads>>
  BY DEF AcquireNext
<1>4. sync'.pc = sync.pc /\ sync'.obj = sync.obj
  <2>1. sync \in SyncSet
    BY DEF WaitInv, TypeOK, SyncSet, SyncPC
  <2> QED BY <2>1 DEF AcquireNext, SyncSet
<1> HIDE DEF o, t
<1>5. Announced
  <2>1. CASE o \notin Semaphore /\ ShouldWait(o, t)
    <3>1. UNCHANGED <<available_count, signaled, mutexVars>>
      BY <2>1 DEF AcquireNext, o, t
    <3>2. UNCHANGED <<lock_count, holding_thread, available_count, signaled>>
      BY <3>1 DEF mutexVars
    <3> QED BY <1>3, <3>2, AnnouncedKept DEF WaitInv
  <2>2. CASE ~(o \notin Semaphore /\ ShouldWait(o, t))
    <3>1. Acquire(o, t)
      BY <2>2 DEF AcquireNext, o, t
    <3> QED BY <1>1, <1>2, <1>3, <2>2, <3>1, AcquireAnnounced DEF WaitInv
  <2> QED BY <2>1, <2>2
<1>6. NoNewWait
  BY <1>3 DEF NoNewWait
<1>7. \A x \in Object : Waking(x) => Waking(x)'
  BY <1>4 DEF Waking
<1>8. Attended'
  BY <1>5, <1>6, <1>7, AttendedInLoop DEF WaitInv
<1>9. Listed'
  BY <1>1, <1>3, <1>6, ListedKept DEF WaitInv
<1> QED BY <1>8, <1>9

\* The woken thread is about to leave its lists.
LEMMA AcquireDoneKeeps ==
    ASSUME WaitInv, AcquireDone
    PROVE  Listed' /\ Attended'
<1>1. sync.pc = "acquire"
      /\ UNCHANGED <<status, wait_objects, waiting_threads, available_count, signaled, mutexVars>>
  BY DEF AcquireDone, SyncAt
<1>2. NoNewWait
  BY <1>1 DEF NoNewWait
<1>3. Announced
  BY <1>1, AnnouncedKept DEF WaitInv, mutexVars
<1>4. \A o \in Object : Waking(o) => Waking(o)'
  <2>1. CASE sync.obj = None
    BY <2>1, KernelAssumption DEF Waking
  <2>2. CASE sync.obj # None
    <3>1. sync' = [sync EXCEPT !.pc = "remove", !.todo = Leaves(sync.thr)]
      BY <2>2 DEF AcquireDone
    <3>2. sync \in SyncSet
      BY DEF WaitInv, TypeOK, SyncSet, SyncPC
    <3>3. sync'.pc = "remove" /\ sync'.obj = sync.obj
      BY <3>1, <3>2 DEF SyncSet
    <3> QED BY <3>3 DEF Waking
  <2> QED BY <2>1, <2>2
<1>5. Attended'
  BY <1>2, <1>3, <1>4, AttendedInLoop DEF WaitInv
<1>6. Listed'
  BY <1>1, <1>2, ListedKept DEF WaitInv
<1> QED BY <1>5, <1>6

\* Changing a waiting list makes nothing available.
LEMMA ListStep ==
    ASSUME WaitInv, UNCHANGED <<status, wait_objects, lock_count, holding_thread,
                                available_count, signaled>>,
           sync'.obj = sync.obj, sync'.pc = sync.pc
    PROVE  Attended'
<1>1. NoNewWait
  BY DEF NoNewWait
<1>2. Announced
  BY AnnouncedKept DEF WaitInv
<1>3. \A o \in Object : Waking(o) => Waking(o)'
  BY DEF Waking
<1> QED BY <1>1, <1>2, <1>3, AttendedInLoop DEF WaitInv

\* A list loses only the thread that is being woken or stopped.
LEMMA RemoveNextKeeps ==
    ASSUME WaitInv, RemoveNext
    PROVE  Listed' /\ Attended'
<1> DEFINE x == Head(sync.todo)
<1>1. sync.todo \in Seq(Object) /\ sync.todo # <<>> /\ sync.pc \in {"remove", "detach"}
      /\ sync.thr \in Thread /\ (sync.pc = "detach" => status[sync.thr] = "Dead")
  BY DEF WaitInv, TypeOK, PhaseOK, RemoveNext, SyncAt
<1>2. x \in Object
  BY <1>1, ElemsHeadTail
<1>3. waiting_threads' = [waiting_threads EXCEPT ![x] = Without(waiting_threads[x], sync.thr)]
  BY DEF RemoveNext, SetWaitingThreads
<1>4. UNCHANGED <<status, wait_objects, lock_count, holding_thread, available_count, signaled>>
  BY DEF RemoveNext
<1>5. sync'.pc = sync.pc /\ sync'.obj = sync.obj /\ sync'.thr = sync.thr
  <2>1. sync \in SyncSet
    BY DEF WaitInv, TypeOK, SyncSet, SyncPC
  <2> QED BY <2>1 DEF RemoveNext, SyncSet
<1>6. Attended'
  BY <1>4, <1>5, ListStep
<1> HIDE DEF x
<1>7. ASSUME NEW t \in Thread, NEW o \in Elems(wait_objects'[t]), status'[t] \in Waiting
      PROVE  \/ t \in Elems(waiting_threads'[o])
             \/ sync'.pc = "remove" /\ sync'.thr = t
  <2>1. CASE t = sync.thr
    <3>1. sync.pc = "remove"
      BY <1>1, <1>4, <1>7, <2>1 DEF Waiting
    <3> QED BY <1>5, <2>1, <3>1
  <2>2. CASE t # sync.thr
    <3>1. o \in Elems(wait_objects[t]) /\ status[t] \in Waiting
      BY <1>4, <1>7
    <3>2. t \in Elems(waiting_threads[o])
      BY <1>1, <2>2, <3>1 DEF WaitInv, Listed
    <3>3. o \in Object
      BY <3>1, WaitObjects DEF WaitInv
    <3>4. waiting_threads \in [Object -> Seq(Thread)]
      BY DEF WaitInv, TypeOK
    <3>5. CASE o = x
      <4>1. waiting_threads[o] \in Seq(Thread)
        BY <3>3, <3>4
      <4>2. t \in Elems(Without(waiting_threads[o], sync.thr))
        BY <2>2, <3>2, <4>1, WithoutKeeps
      <4>3. waiting_threads'[o] = Without(waiting_threads[o], sync.thr)
        BY <1>3, <3>3, <3>4, <3>5
      <4> QED BY <4>2, <4>3
    <3>6. CASE o # x
      BY <1>2, <1>3, <3>2, <3>3, <3>4, <3>6
    <3> QED BY <3>5, <3>6
  <2> QED BY <2>1, <2>2
<1>8. Listed'
  BY <1>7 DEF Listed
<1> QED BY <1>6, <1>8

\* The thread that left the lists no longer waits.
LEMMA RemoveDoneKeeps ==
    ASSUME WaitInv, RemoveDone
    PROVE  Listed' /\ Attended'
<1>1. sync.pc \in {"remove", "detach"} /\ sync.thr \in Thread
      /\ (sync.pc = "detach" => status[sync.thr] = "Dead")
  BY DEF WaitInv, PhaseOK, RemoveDone, SyncAt
<1>2. wait_objects' = [wait_objects EXCEPT ![sync.thr] = <<>>] /\ sync' = LoopOn
      /\ UNCHANGED objectVars
  BY DEF RemoveDone
<1>3. /\ \A t \in Thread : t # sync.thr => status'[t] = status[t]
      /\ status'[sync.thr] \notin Waiting
      /\ status'[sync.thr] = "Dead" => status[sync.thr] = "Dead"
  <2>1. CASE sync.pc = "remove"
    <3>1. ResumeFromWait(sync.thr)
      BY <2>1 DEF RemoveDone
    <3>2. status \in [Thread -> Status]
      BY DEF WaitInv, TypeOK
    <3>3. CASE status[sync.thr] \in Resumable
      <4>1. status' = [status EXCEPT ![sync.thr] = "Ready"]
        BY <3>1, <3>3 DEF ResumeFromWait
      <4> QED BY <1>1, <3>2, <4>1 DEF Waiting
    <3>4. CASE status[sync.thr] \notin Resumable
      <4>1. status' = status
        BY <3>1, <3>4 DEF ResumeFromWait
      <4> QED BY <3>4, <4>1 DEF Resumable
    <3> QED BY <3>3, <3>4
  <2>2. CASE sync.pc # "remove"
    <3>1. status' = status
      BY <2>2 DEF RemoveDone
    <3> QED BY <1>1, <2>2, <3>1 DEF Waiting
  <2> QED BY <2>1, <2>2
<1>4. NoNewWait
  <2>1. wait_objects \in [Thread -> Seq(Object)]
    BY DEF WaitInv, TypeOK
  <2> QED BY <1>1, <1>2, <1>3, <2>1 DEF NoNewWait
<1>5. Announced
  <2>1. \A t \in Thread : status'[t] = "Dead" => status[t] = "Dead"
    BY <1>3
  <2> QED BY <1>2, <2>1, AnnouncedKept DEF WaitInv, objectVars
<1>6. \A o \in Object : Waking(o) => Waking(o)'
  <2>1. CASE sync.obj = None
    BY <2>1, KernelAssumption DEF Waking
  <2>2. CASE sync.obj # None
    <3>1. sync'.pc = "scan" /\ sync'.obj = sync.obj
      BY <1>2, <2>2 DEF LoopOn, SyncIdle
    <3> QED BY <3>1 DEF Waking
  <2> QED BY <2>1, <2>2
<1>7. Attended'
  BY <1>4, <1>5, <1>6, AttendedInLoop DEF WaitInv
<1>8. Listed'
  <2> SUFFICES ASSUME NEW t \in Thread, NEW o \in Elems(wait_objects'[t]), status'[t] \in Waiting
               PROVE  t \in Elems(waiting_threads'[o])
    BY DEF Listed
  <2>1. t # sync.thr
    BY <1>3
  <2>2. status[t] \in Waiting /\ o \in Elems(wait_objects[t])
    BY <1>4 DEF NoNewWait
  <2>3. t \in Elems(waiting_threads[o])
    BY <1>1, <2>1, <2>2 DEF WaitInv, Listed
  <2> QED BY <1>2, <2>3 DEF objectVars
<1> QED BY <1>7, <1>8

\* Entering a list changes no object.
LEMMA AddNextKeeps ==
    ASSUME WaitInv, AddNext
    PROVE  Listed' /\ Attended'
<1> DEFINE x   == Head(sync.todo)
           new == IF sync.thr \in Elems(waiting_threads[x]) THEN waiting_threads[x]
                  ELSE Append(waiting_threads[x], sync.thr)
<1>1. sync.todo \in Seq(Object) /\ sync.todo # <<>> /\ sync.pc = "add" /\ sync.thr \in Thread
  BY DEF WaitInv, TypeOK, PhaseOK, AddNext, SyncAt
<1>2. x \in Object /\ \A y : y \in Elems(sync.todo) => y = x \/ y \in Elems(Tail(sync.todo))
  BY <1>1, ElemsHeadTail
<1>3. waiting_threads' = [waiting_threads EXCEPT ![x] = new]
  BY DEF AddNext, SetWaitingThreads
<1>4. UNCHANGED <<status, wait_objects, lock_count, holding_thread, available_count, signaled>>
  BY DEF AddNext
<1>5. waiting_threads \in [Object -> Seq(Thread)]
  BY DEF WaitInv, TypeOK
<1>6. sync.thr \in Elems(new) /\ Elems(waiting_threads[x]) \subseteq Elems(new)
  <2>1. waiting_threads[x] \in Seq(Thread)
    BY <1>2, <1>5
  <2> QED BY <1>1, <2>1, ElemsAppend
<1> HIDE DEF x, new
<1>7. \A t \in Thread, o \in Object :
        t \in Elems(waiting_threads[o]) => t \in Elems(waiting_threads'[o])
  BY <1>2, <1>3, <1>5, <1>6
<1>8. sync.thr \in Elems(waiting_threads'[x])
  BY <1>2, <1>3, <1>5, <1>6
<1>9. \/ sync' = SyncIdle /\ Len(sync.todo) = 1
      \/ sync'.pc = "add" /\ sync'.thr = sync.thr /\ sync'.todo = Tail(sync.todo)
  <2>1. sync' = IF Len(sync.todo) = 1 THEN SyncIdle ELSE [sync EXCEPT !.todo = Tail(@)]
    BY DEF AddNext
  <2>2. sync \in SyncSet
    BY DEF WaitInv, TypeOK, SyncSet, SyncPC
  <2> QED BY <1>1, <2>1, <2>2 DEF SyncSet
<1>10. Len(sync.todo) = 1 => Elems(sync.todo) \subseteq {x}
  BY <1>1 DEF Elems, x
<1>11. Attended'
  <2>1. NoNewWait
    BY <1>4 DEF NoNewWait
  <2>2. Announced
    BY <1>4, AnnouncedKept DEF WaitInv
  <2>3. \A o \in Object : Waking(o) => Waking(o)'
    BY <1>1 DEF Waking
  <2> QED BY <2>1, <2>2, <2>3, AttendedInLoop DEF WaitInv
<1>12. Listed'
  <2> SUFFICES ASSUME NEW t \in Thread, NEW o \in Elems(wait_objects'[t]), status'[t] \in Waiting
               PROVE  \/ t \in Elems(waiting_threads'[o])
                      \/ sync'.pc = "add" /\ sync'.thr = t /\ o \in Elems(sync'.todo)
    BY DEF Listed
  <2>1. o \in Elems(wait_objects[t]) /\ status[t] \in Waiting
    BY <1>4
  <2>2. o \in Object
    BY <2>1, WaitObjects DEF WaitInv
  <2>3. CASE t \in Elems(waiting_threads[o])
    BY <1>7, <2>2, <2>3
  <2>4. CASE sync.thr = t /\ o \in Elems(sync.todo)
    <3>1. CASE o = x
      BY <1>8, <2>4, <3>1
    <3>2. CASE o # x
      <4>1. o \in Elems(Tail(sync.todo)) /\ Len(sync.todo) # 1
        BY <1>2, <1>10, <2>4, <3>2
      <4> QED BY <1>9, <2>4, <4>1
    <3> QED BY <3>1, <3>2
  <2> QED BY <1>1, <2>1, <2>3, <2>4 DEF WaitInv, Listed
<1> QED BY <1>11, <1>12

\* Priorities do not matter for who could go.
LEMMA UpdateNextKeeps ==
    ASSUME WaitInv, UpdateNext
    PROVE  Listed' /\ Attended'
<1>1. sync.pc = "update"
      /\ UNCHANGED <<status, wait_objects, waiting_threads, lock_count, holding_thread,
                     available_count, signaled>>
  BY DEF UpdateNext, SyncAt
<1>2. NoNewWait
  BY <1>1 DEF NoNewWait
<1>3. Announced
  BY <1>1, AnnouncedKept DEF WaitInv
<1>4. \A o \in Object : Waking(o) => Waking(o)'
  BY <1>1 DEF Waking
<1>5. Listed'
  BY <1>1, <1>2, ListedKept DEF WaitInv
<1> QED BY <1>2, <1>3, <1>4, <1>5, AttendedInLoop DEF WaitInv

-------------------------------------------------------------------------------
(* Calls, events and the outer loops                                       *)

\* A step that begins while no loop is in progress.
LEMMA IdleStep ==
    ASSUME WaitInv, sync.pc = "idle", NoNewWait, Announced, UNCHANGED waiting_threads
    PROVE  Listed' /\ Attended'
<1>1. \A o \in Object : ~Waking(o)
  BY DEF Waking
<1>2. \A t \in Thread : ~Satisfiable(t)
  BY <1>1, NobodySatisfiable DEF WaitInv
<1> QED BY <1>2, AttendedFromQuiet, ListedKept DEF WaitInv

\* One that changes neither objects nor who waits or is dead.
LEMMA QuietStep ==
    ASSUME WaitInv, sync.pc = "idle", UNCHANGED <<wait_objects, objectVars>>,
           \A t \in Thread : \/ status'[t] = status[t]
                             \/ status'[t] \notin Waiting \cup {"Dead"}
    PROVE  Listed' /\ Attended'
<1>1. NoNewWait
  BY DEF NoNewWait
<1>2. \A t \in Thread : status'[t] = "Dead" => status[t] = "Dead"
  OBVIOUS
<1>3. Announced
  BY <1>2, AnnouncedKept DEF WaitInv, objectVars
<1> QED BY <1>1, <1>3, IdleStep DEF objectVars

\* A thread starts to wait only for what it cannot have.
LEMMA WaitBlocksKeeps ==
    ASSUME WaitInv, NEW c \in Core, NEW all \in BOOLEAN, NEW list \in Seq(Object),
           NEW timed \in BOOLEAN, WaitBlocks(c, all, list, timed)
    PROVE  Listed' /\ Attended'
<1> DEFINE t == current_thread[c]
<1>1. t \in Thread /\ sync.pc = "idle"
  BY CallerType DEF WaitBlocks, WakeAfterDelay, WaitInv
<1>2. /\ IF all THEN Available(list, t) # 1 .. Len(list) ELSE Available(list, t) = {}
      /\ status' = [status EXCEPT ![t] = IF all THEN "WaitSynchAll" ELSE "WaitSynchAny"]
      /\ wait_objects' = [wait_objects EXCEPT ![t] = list]
      /\ sync' = IF list = <<>> THEN SyncIdle
                 ELSE [SyncIdle EXCEPT !.pc = "add", !.thr = t, !.todo = list]
      /\ UNCHANGED objectVars
  BY DEF WaitBlocks, WakeAfterDelay
<1> HIDE DEF t
<1>3. /\ status \in [Thread -> Status] /\ wait_objects \in [Thread -> Seq(Object)]
      /\ \A u \in Thread : Elems(wait_objects[u]) \subseteq Object
  BY WaitObjects DEF WaitInv, TypeOK
<1>4. \A u \in Thread : ~Satisfiable(u)
  <2>1. \A o \in Object : ~Waking(o)
    BY <1>1 DEF Waking
  <2> QED BY <2>1, NobodySatisfiable DEF WaitInv
<1>5. \A u \in Thread, o \in Object : ShouldWait(o, u) => ShouldWait(o, u)'
  <2>1. \A u \in Thread : status'[u] = "Dead" => status[u] = "Dead"
    BY <1>1, <1>2, <1>3
  <2>2. UNCHANGED <<lock_count, holding_thread, available_count, signaled>>
    BY <1>2 DEF objectVars
  <2> QED BY <2>1, <2>2 DEF ShouldWait
<1>6. \A o \in Elems(list) : o \in Object
  BY DEF Elems
<1>7. Attended'
  <2>1. ASSUME NEW u \in Thread, status'[u] = "WaitSynchAll"
        PROVE  \E o \in Elems(wait_objects'[u]) : ShouldWait(o, u)'
    <3>1. CASE u = t
      <4>1. all /\ wait_objects'[u] = list
        BY <1>1, <1>2, <1>3, <2>1, <3>1
      <4>2. PICK i \in 1 .. Len(list) : ShouldWait(list[i], t)
        BY <1>2, <4>1 DEF Available
      <4>3. list[i] \in Elems(list)
        BY DEF Elems
      <4> QED BY <1>1, <1>5, <1>6, <3>1, <4>1, <4>2, <4>3
    <3>2. CASE u # t
      <4>1. status[u] = "WaitSynchAll" /\ wait_objects'[u] = wait_objects[u]
        BY <1>1, <1>2, <1>3, <2>1, <3>2
      <4>2. PICK o \in Elems(wait_objects[u]) : ShouldWait(o, u)
        BY <1>4, <4>1 DEF Satisfiable
      <4> QED BY <1>3, <1>5, <4>1, <4>2
    <3> QED BY <3>1, <3>2
  <2>2. ASSUME NEW u \in Thread, status'[u] = "WaitSynchAny", NEW o \in Elems(wait_objects'[u])
        PROVE  ShouldWait(o, u)'
    <3>1. CASE u = t
      <4>1. ~all /\ wait_objects'[u] = list
        BY <1>1, <1>2, <1>3, <2>2, <3>1
      <4>2. \A i \in 1 .. Len(list) : ShouldWait(list[i], t)
        BY <1>2, <4>1 DEF Available
      <4>3. ShouldWait(o, t)
        BY <4>1, <4>2 DEF Elems
      <4> QED BY <1>1, <1>5, <1>6, <3>1, <4>1, <4>3
    <3>2. CASE u # t
      <4>1. status[u] = "WaitSynchAny" /\ wait_objects'[u] = wait_objects[u]
        BY <1>1, <1>2, <1>3, <2>2, <3>2
      <4>2. ShouldWait(o, u)
        BY <1>4, <4>1 DEF Satisfiable
      <4> QED BY <1>3, <1>5, <4>1, <4>2
    <3> QED BY <3>1, <3>2
  <2> QED BY <2>1, <2>2 DEF Attended
<1>8. Listed'
  <2> SUFFICES ASSUME NEW u \in Thread, NEW o \in Elems(wait_objects'[u]), status'[u] \in Waiting
               PROVE  \/ u \in Elems(waiting_threads'[o])
                      \/ sync'.pc = "add" /\ sync'.thr = u /\ o \in Elems(sync'.todo)
    BY DEF Listed
  <2>1. CASE u = t
    <3>1. wait_objects'[u] = list
      BY <1>1, <1>2, <1>3, <2>1
    <3>2. list # <<>>
      BY <3>1 DEF Elems
    <3>3. sync' = [SyncIdle EXCEPT !.pc = "add", !.thr = t, !.todo = list]
      BY <1>2, <3>2
    <3>4. sync'.pc = "add" /\ sync'.thr = t /\ sync'.todo = list
      BY <3>3 DEF SyncIdle
    <3> QED BY <2>1, <3>1, <3>4
  <2>2. CASE u # t
    <3>1. status[u] \in Waiting /\ o \in Elems(wait_objects[u])
      BY <1>1, <1>2, <1>3, <2>2
    <3>2. u \in Elems(waiting_threads[o])
      BY <1>1, <3>1 DEF WaitInv, Listed
    <3> QED BY <1>2, <3>2 DEF objectVars
  <2> QED BY <2>1, <2>2
<1> QED BY <1>7, <1>8

\* A thread that dies becomes available to those who join it, and its wakeup
\* loop starts.
LEMMA BeginStopKeeps ==
    ASSUME WaitInv, sync.pc = "idle", NEW t \in Thread, BeginStop(t)
    PROVE  Listed' /\ Attended'
<1>1. /\ status' = [status EXCEPT ![t] = "Dead"]
      /\ sync' = ScanOf(t)
      /\ UNCHANGED <<wait_objects, objectVars>>
  BY DEF BeginStop
<1>2. status \in [Thread -> Status]
  BY DEF WaitInv, TypeOK
<1>3. NoNewWait
  BY <1>1, <1>2 DEF NoNewWait, Waiting
<1>4. Waking(t)'
  BY <1>1 DEF Waking, ScanOf, SyncIdle
<1>5. Announced
  <2> SUFFICES ASSUME NEW u \in Thread, NEW o \in Object, ShouldWait(o, u), o # t
               PROVE  ShouldWait(o, u)'
    BY <1>4 DEF Announced
  <2>1. o \in Thread => status'[o] = status[o]
    BY <1>1, <1>2
  <2>2. UNCHANGED <<lock_count, holding_thread, available_count, signaled>>
    BY <1>1 DEF objectVars
  <2> QED BY <2>1, <2>2 DEF ShouldWait
<1> QED BY <1>1, <1>3, <1>5, IdleStep DEF objectVars

\* A mutex released by Stop is scanned at once.
LEMMA StopReleaseKeeps ==
    ASSUME WaitInv, StopRelease
    PROVE  Listed' /\ Attended'
<1>1. PICK m \in stop.muts :
         /\ lock_count' = [lock_count EXCEPT ![m] = 0]
         /\ holding_thread' = [holding_thread EXCEPT ![m] = None]
         /\ sync' = ScanOf(m)
  BY DEF StopRelease
<1>2. sync.pc = "idle" /\ UNCHANGED <<status, wait_objects, waiting_threads, available_count,
                                      signaled>>
  BY DEF StopRelease, StopAt, threadVars
<1>3. NoNewWait
  BY <1>2 DEF NoNewWait
<1>4. Waking(m)'
  BY <1>1 DEF Waking, ScanOf, SyncIdle
<1>5. Announced
  <2> SUFFICES ASSUME NEW u \in Thread, NEW o \in Object, ShouldWait(o, u), o # m
               PROVE  ShouldWait(o, u)'
    BY <1>4 DEF Announced
  <2>1. o \in Mutex => lock_count'[o] = lock_count[o] /\ holding_thread'[o] = holding_thread[o]
    BY <1>1 DEF WaitInv, TypeOK
  <2> QED BY <1>2, <2>1 DEF ShouldWait
<1> QED BY <1>2, <1>3, <1>5, IdleStep

\* A mutex released by its holder is scanned at once.
LEMMA ReleaseMutexKeeps ==
    ASSUME WaitInv, NEW c \in Core, NEW m \in Mutex, ReleaseMutex(c, m)
    PROVE  Listed' /\ Attended'
<1>1. sync.pc = "idle"
  BY CallerType DEF ReleaseMutex, WaitInv
<1>2. /\ lock_count[m] > 0
      /\ lock_count' = [lock_count EXCEPT ![m] = @ - 1]
      /\ lock_count[m] = 1 => holding_thread' = [holding_thread EXCEPT ![m] = None]
                              /\ sync' = ScanOf(m)
      /\ lock_count[m] # 1 => UNCHANGED holding_thread
      /\ UNCHANGED <<status, wait_objects, waiting_threads, available_count, signaled>>
  BY DEF ReleaseMutex
<1>3. lock_count \in [Mutex -> Nat] /\ holding_thread \in [Mutex -> Thread \cup {None}]
  BY DEF WaitInv, TypeOK
<1>4. NoNewWait
  BY <1>2 DEF NoNewWait
<1>5. lock_count[m] = 1 => Waking(m)'
  BY <1>2 DEF Waking, ScanOf, SyncIdle
<1>6. Announced
  <2> SUFFICES ASSUME NEW u \in Thread, NEW o \in Object, ShouldWait(o, u),
                      ~(o = m /\ lock_count[m] = 1)
               PROVE  ShouldWait(o, u)'
    BY <1>5 DEF Announced
  <2>1. CASE o \in Mutex
    <3>1. lock_count[o] > 0 /\ holding_thread[o] # u
      BY <2>1, KindsAssumption DEF ShouldWait
    <3>2. lock_count'[o] > 0 /\ holding_thread'[o] # u
      BY <1>2, <1>3, <2>1, <3>1
    <3> QED BY <2>1, <3>2 DEF ShouldWait
  <2>2. CASE o \notin Mutex
    BY <1>2, <2>2 DEF ShouldWait
  <2> QED BY <2>1, <2>2
<1> QED BY <1>1, <1>2, <1>4, <1>6, IdleStep

\* A released semaphore is scanned at once.
LEMMA ReleaseSemaphoreKeeps ==
    ASSUME WaitInv, NEW c \in Core, NEW s \in Semaphore, NEW n \in ReleaseCounts,
           ReleaseSemaphore(c, s, n)
    PROVE  Listed' /\ Attended'
<1>1. sync.pc = "idle"
  BY CallerType DEF ReleaseSemaphore, WaitInv
<1>2. /\ available_count' = [available_count EXCEPT ![s] = @ + n]
      /\ sync' = ScanOf(s)
      /\ UNCHANGED <<status, wait_objects, waiting_threads, lock_count, holding_thread, signaled>>
  BY DEF ReleaseSemaphore, threadVars
<1>3. NoNewWait
  BY <1>2 DEF NoNewWait
<1>4. Waking(s)'
  BY <1>2 DEF Waking, ScanOf, SyncIdle
<1>5. Announced
  <2> SUFFICES ASSUME NEW u \in Thread, NEW o \in Object, ShouldWait(o, u), o # s
               PROVE  ShouldWait(o, u)'
    BY <1>4 DEF Announced
  <2>1. o \in Semaphore => available_count'[o] = available_count[o]
    BY <1>2 DEF WaitInv, TypeOK
  <2> QED BY <1>2, <2>1 DEF ShouldWait
<1> QED BY <1>1, <1>2, <1>3, <1>5, IdleStep

\* A signalled event is scanned at once.
LEMMA SignalKeeps ==
    ASSUME WaitInv, sync.pc = "idle", NEW e \in Event, Signal(e)
    PROVE  Listed' /\ Attended'
<1>1. /\ signaled' = [signaled EXCEPT ![e] = TRUE]
      /\ sync' = ScanOf(e)
      /\ UNCHANGED <<status, wait_objects, waiting_threads, lock_count, holding_thread,
                     available_count>>
  BY DEF Signal, threadVars
<1>2. NoNewWait
  BY <1>1 DEF NoNewWait
<1>3. Waking(e)'
  BY <1>1 DEF Waking, ScanOf, SyncIdle
<1>4. Announced
  <2> SUFFICES ASSUME NEW u \in Thread, NEW o \in Object, ShouldWait(o, u), o # e
               PROVE  ShouldWait(o, u)'
    BY <1>3 DEF Announced
  <2>1. o \in Event => signaled'[o] = signaled[o]
    BY <1>1 DEF WaitInv, TypeOK
  <2> QED BY <1>1, <2>1 DEF ShouldWait
<1> QED BY <1>1, <1>2, <1>4, IdleStep

\* Clearing an event can only make threads wait longer.
LEMMA ClearEventKeeps ==
    ASSUME WaitInv, NEW c \in Core, NEW e \in Event, ClearEvent(c, e)
    PROVE  Listed' /\ Attended'
<1>1. sync.pc = "idle"
  BY CallerType DEF ClearEvent, WaitInv
<1>2. /\ signaled' = [signaled EXCEPT ![e] = FALSE]
      /\ UNCHANGED <<status, wait_objects, waiting_threads, lock_count, holding_thread,
                     available_count>>
  BY DEF ClearEvent, threadVars
<1>3. NoNewWait
  BY <1>2 DEF NoNewWait
<1>4. \A y \in Event : ~signaled[y] => ~signaled'[y]
  BY <1>2 DEF WaitInv, TypeOK
<1>5. Announced
  <2> SUFFICES ASSUME NEW u \in Thread, NEW o \in Object, ShouldWait(o, u)
               PROVE  ShouldWait(o, u)'
    BY DEF Announced
  <2> QED BY <1>2, <1>4 DEF ShouldWait
<1> QED BY <1>1, <1>2, <1>3, <1>5, IdleStep

\* A timeout takes a thread out of its wait.
LEMMA TimeoutFiresKeeps ==
    ASSUME WaitInv, NEW t \in Thread, TimeoutFires(t)
    PROVE  Listed' /\ Attended'
<1>1. sync.pc = "idle"
  BY Idle DEF TimeoutFires, WaitInv
<1>2. UNCHANGED <<wait_objects, objectVars>>
  BY DEF TimeoutFires
<1>3. \A u \in Thread : \/ status'[u] = status[u]
                        \/ status'[u] \notin Waiting \cup {"Dead"}
  <2>1. CASE WaitTimesOut(t)
    BY <2>1 DEF TimeoutFires
  <2>2. CASE ~WaitTimesOut(t)
    <3>1. ResumeFromWait(t)
      BY <2>2 DEF TimeoutFires
    <3> QED BY <3>1 DEF ResumeFromWait, Waiting, WaitInv, TypeOK
  <2> QED BY <2>1, <2>2
<1> QED BY <1>1, <1>2, <1>3, QuietStep

\* The scheduler neither starts nor ends a wait.
LEMMA RescheduleKeeps ==
    ASSUME WaitInv, NEW c \in Core, Reschedule(c)
    PROVE  Listed' /\ Attended'
<1>1. sync.pc = "idle"
  BY Idle DEF Reschedule, WaitInv
<1>2. UNCHANGED <<wait_objects, objectVars>>
  BY DEF Reschedule, RescheduleCore
<1>3. \A u \in Thread : status'[u] = status[u] \/ status'[u] \in {"Ready", "Running"}
  BY RescheduleType DEF Reschedule, WaitInv
<1>4. \A u \in Thread : \/ status'[u] = status[u]
                        \/ status'[u] \notin Waiting \cup {"Dead"}
  BY <1>3 DEF Waiting
<1> QED BY <1>1, <1>2, <1>4, QuietStep

\* Calls that change neither objects nor who waits or is dead.
LEMMA OtherCallsKeep ==
    ASSUME WaitInv, NEW c \in Core,
           \/ \E all \in BOOLEAN, list \in Seq(Object) : WaitAcquires(c, all, list)
           \/ \E timed \in BOOLEAN : SleepThread(c, timed)
           \/ \E t \in Thread : CreateThread(c, t)
           \/ \E t \in Thread, p \in SetPriorities : SetThreadPriority(c, t, p)
           \/ \E p \in Process : TerminateProcess(c, p)
           \/ \E p \in Process, S \in Controllable, stopped \in BOOLEAN :
                ControlProcess(c, p, S, stopped)
    PROVE  Listed' /\ Attended'
<1>1. status \in [Thread -> Status]
  BY DEF WaitInv, TypeOK
<1>2. CASE \E all \in BOOLEAN, list \in Seq(Object) : WaitAcquires(c, all, list)
  <2>1. Calls(c, current_thread[c]) /\ UNCHANGED <<status, wait_objects, objectVars>>
    BY <1>2 DEF WaitAcquires, threadVars
  <2> QED BY <2>1, CallerType, QuietStep DEF WaitInv
<1>3. CASE \E timed \in BOOLEAN : SleepThread(c, timed)
  <2>1. /\ Calls(c, current_thread[c])
        /\ status' = [status EXCEPT ![current_thread[c]] = "WaitSleep"]
        /\ UNCHANGED <<wait_objects, objectVars>>
    BY <1>3 DEF SleepThread, WakeAfterDelay
  <2>2. \A u \in Thread : status'[u] = status[u] \/ status'[u] \notin Waiting \cup {"Dead"}
    BY <1>1, <2>1 DEF Waiting
  <2> QED BY <2>1, <2>2, CallerType, QuietStep DEF WaitInv
<1>4. CASE \E t \in Thread : CreateThread(c, t)
  <2>1. PICK t \in Thread : CreateThread(c, t)
    BY <1>4
  <2>2. /\ Calls(c, current_thread[c])
        /\ status' = [status EXCEPT ![t] = "Ready"]
        /\ UNCHANGED <<wait_objects, objectVars>>
    BY <2>1 DEF CreateThread, NewThread
  <2>3. \A u \in Thread : status'[u] = status[u] \/ status'[u] \notin Waiting \cup {"Dead"}
    BY <1>1, <2>2 DEF Waiting
  <2> QED BY <2>2, <2>3, CallerType, QuietStep DEF WaitInv
<1>5. CASE \E t \in Thread, p \in SetPriorities : SetThreadPriority(c, t, p)
  <2>1. Calls(c, current_thread[c]) /\ UNCHANGED <<status, wait_objects, objectVars>>
    BY <1>5 DEF SetThreadPriority
  <2> QED BY <2>1, CallerType, QuietStep DEF WaitInv
<1>6. CASE \E p \in Process : TerminateProcess(c, p)
  <2>1. Calls(c, current_thread[c]) /\ UNCHANGED <<status, wait_objects, objectVars>>
    BY <1>6 DEF TerminateProcess, threadVars
  <2> QED BY <2>1, CallerType, QuietStep DEF WaitInv
<1>7. CASE \E p \in Process, S \in Controllable, stopped \in BOOLEAN :
             ControlProcess(c, p, S, stopped)
  <2>1. Calls(c, current_thread[c]) /\ UNCHANGED <<status, wait_objects, objectVars>>
    BY <1>7 DEF ControlProcess
  <2> QED BY <2>1, CallerType, QuietStep DEF WaitInv
<1> QED BY <1>2, <1>3, <1>4, <1>5, <1>6, <1>7

\* Every system call keeps the invariant.
LEMMA ThreadCallKeeps ==
    ASSUME WaitInv, NEW c \in Core, ThreadCall(c)
    PROVE  Listed' /\ Attended'
<1>1. \A t \in Thread : \A list \in WaitLists[t] : list \in Seq(Object)
  BY SvcAssumption
<1>2. CASE WaitReturns(c)
  <2>1. \E all \in BOOLEAN, list \in Seq(Object) : WaitAcquires(c, all, list)
    BY <1>1, <1>2 DEF WaitReturns
  <2> QED BY <2>1, OtherCallsKeep
<1>3. CASE WaitBegins(c)
  BY <1>1, <1>3, WaitBlocksKeeps DEF WaitBegins
<1>4. CASE ExitThread(c)
  <2>1. Calls(c, current_thread[c]) /\ BeginStop(current_thread[c])
    BY <1>4 DEF ExitThread
  <2> QED BY <2>1, CallerType, BeginStopKeeps DEF WaitInv
<1>5. CASE \E m \in Mutex : ReleaseMutex(c, m)
  BY <1>5, ReleaseMutexKeeps
<1>6. CASE \E s \in Semaphore, n \in ReleaseCounts : ReleaseSemaphore(c, s, n)
  BY <1>6, ReleaseSemaphoreKeeps
<1>7. CASE \E e \in Event : SignalEvent(c, e)
  <2>1. PICK e \in Event : Calls(c, current_thread[c]) /\ Signal(e)
    BY <1>7 DEF SignalEvent
  <2> QED BY <2>1, CallerType, SignalKeeps DEF WaitInv
<1>8. CASE \E e \in Event : ClearEvent(c, e)
  BY <1>8, ClearEventKeeps
<1>9. CASE \/ \E timed \in BOOLEAN : SleepThread(c, timed)
           \/ \E t \in Thread : CreateThread(c, t)
           \/ \E t \in Thread, p \in SetPriorities : SetThreadPriority(c, t, p)
           \/ \E p \in Process : TerminateProcess(c, p)
           \/ \E p \in Process, S \in Controllable, stopped \in BOOLEAN :
                ControlProcess(c, p, S, stopped)
  BY <1>9, OtherCallsKeep
<1> QED BY <1>2, <1>3, <1>4, <1>5, <1>6, <1>7, <1>8, <1>9 DEF ThreadCall

\* The loops of Stop and TerminateProcess.
LEMMA OuterStepKeeps ==
    ASSUME WaitInv, StopStep \/ TermStep
    PROVE  Listed' /\ Attended'
<1>1. CASE StopDetach
  <2>1. sync.pc = "idle" /\ UNCHANGED <<status, wait_objects, objectVars>>
    BY <1>1 DEF StopDetach, StopAt, threadVars
  <2> QED BY <2>1, QuietStep
<1>2. CASE StopRelease
  BY <1>2, StopReleaseKeeps
<1>3. CASE StopDone
  <2>1. sync.pc = "idle" /\ UNCHANGED <<status, wait_objects, objectVars>>
    BY <1>3 DEF StopDone, StopAt
  <2> QED BY <2>1, QuietStep
<1>4. CASE TermVictim
  <2>1. PICK t \in Victims : BeginStop(t)
    BY <1>4 DEF TermVictim
  <2>2. t \in Thread /\ sync.pc = "idle"
    BY <1>4 DEF TermVictim, TermAt, StopAt, Victims
  <2> QED BY <2>1, <2>2, BeginStopKeeps
<1>5. CASE TermCurrent
  <2> DEFINE t == current_thread[term.core]
  <2>1. sync.pc = "idle"
    BY <1>5 DEF TermCurrent, TermAt, StopAt
  <2>2. CASE t # None /\ ProcessOf[t] = term.process
    <3>1. BeginStop(t)
      BY <1>5, <2>2 DEF TermCurrent
    <3>2. term.core \in Core
      BY <1>5, KernelAssumption DEF TermCurrent, WaitInv, TypeOK, Core
    <3>3. t \in Thread
      BY <2>2, <3>2 DEF WaitInv, TypeOK
    <3> HIDE DEF t
    <3> QED BY <2>1, <3>1, <3>3, BeginStopKeeps
  <2>3. CASE ~(t # None /\ ProcessOf[t] = term.process)
    <3>1. UNCHANGED <<status, wait_objects, objectVars>>
      BY <1>5, <2>3 DEF TermCurrent, threadVars
    <3> QED BY <2>1, <3>1, QuietStep
  <2> QED BY <2>2, <2>3
<1>6. CASE TermDone
  <2>1. sync.pc = "idle" /\ UNCHANGED <<status, wait_objects, objectVars>>
    BY <1>6 DEF TermDone, TermAt, StopAt, threadVars
  <2> QED BY <2>1, QuietStep
<1> QED BY <1>1, <1>2, <1>3, <1>4, <1>5, <1>6 DEF StopStep, TermStep

\* Every step of the system keeps the invariant.
LEMMA StepKeeps ==
    ASSUME WaitInv, [Next]_vars
    PROVE  Listed' /\ Attended'
<1>1. CASE SyncStep
  BY <1>1, WakeNextKeeps, WakeupDoneKeeps, AcquireNextKeeps, AcquireDoneKeeps, RemoveNextKeeps,
     RemoveDoneKeeps, AddNextKeeps, UpdateNextKeeps DEF SyncStep
<1>2. CASE StopStep \/ TermStep
  BY <1>2, OuterStepKeeps
<1>3. CASE \E c \in Core : ThreadCall(c) \/ Reschedule(c)
  BY <1>3, ThreadCallKeeps, RescheduleKeeps
<1>4. CASE \E t \in Thread : TimeoutFires(t)
  BY <1>4, TimeoutFiresKeeps
<1>5. CASE \E t \in Thread, delayed \in BOOLEAN : ProcessRun(t, delayed)
  <2>1. PICK t \in Thread, delayed \in BOOLEAN : ProcessRun(t, delayed)
    BY <1>5
  <2>2. /\ MayBegin
        /\ status' = [status EXCEPT ![t] = IF delayed THEN "WaitSleep" ELSE "Ready"]
        /\ UNCHANGED <<wait_objects, objectVars>>
    BY <2>1 DEF ProcessRun, NewThread, WakeAfterDelay
  <2>3. status \in [Thread -> Status]
    BY DEF WaitInv, TypeOK
  <2>4. \A u \in Thread : status'[u] = status[u] \/ status'[u] \notin Waiting \cup {"Dead"}
    BY <2>2, <2>3 DEF Waiting
  <2> QED BY <2>2, <2>4, Idle, QuietStep DEF WaitInv
<1>6. CASE \E e \in Event : ServiceSignal(e)
  <2>1. PICK e \in Event : MayBegin /\ Signal(e)
    BY <1>6 DEF ServiceSignal
  <2> QED BY <2>1, Idle, SignalKeeps DEF WaitInv
<1>7. CASE UNCHANGED vars
  BY <1>7 DEF WaitInv, Listed, Attended, Waking, ShouldWait, vars, threadVars, objectVars, callVars
<1> QED BY <1>1, <1>2, <1>3, <1>4, <1>5, <1>6, <1>7 DEF Next, KernelStep

\* Initially nobody waits.
LEMMA InitWaits == Init => Listed /\ Attended
<1> SUFFICES ASSUME Init PROVE Listed /\ Attended
  OBVIOUS
<1>1. \A t \in Thread : status[t] \notin Waiting
  BY DEF Init, Waiting
<1> QED BY <1>1 DEF Listed, Attended, Waiting

\* The invariant holds in every state.
LEMMA NothingLostInv == Spec => []WaitInv
<1>1. Init => WaitInv
  BY InitType, InitWaits DEF WaitInv
<1>2. WaitInv /\ [Next]_vars => WaitInv'
  BY StepType, StepKeeps DEF WaitInv
<1> QED BY <1>1, <1>2, PTL DEF Spec

\* No wakeup is lost (WakeupAllWaitingThreads, and every place that calls it):
\* between kernel calls no thread waits for something it could have, for any
\* number of threads, cores and objects and any wait lists.
THEOREM NothingLost == Spec => []NoLostWakeup
<1>1. WaitInv => NoLostWakeup
  <2> SUFFICES ASSUME WaitInv, KernelIdle
               PROVE  \A t \in Thread : ~Satisfiable(t)
    BY DEF NoLostWakeup
  <2>1. \A o \in Object : ~Waking(o)
    BY DEF KernelIdle, Waking
  <2> QED BY <2>1, NobodySatisfiable DEF WaitInv
<1> QED BY <1>1, NothingLostInv, PTL

-------------------------------------------------------------------------------
(* Mutexes                                                                 *)

Locked == \A m \in Mutex : lock_count[m] > 0 <=> holding_thread[m] # None

\* The mutexes a dead thread holds are going to be released.
Holders ==
    \A m \in Mutex, t \in Thread : holding_thread[m] = t =>
      /\ m \in held_mutexes[t]
      /\ status[t] = "Dead" =>
           /\ stop.thr = t
           /\ \/ stop.pc = "detach"
              \/ stop.pc = "mutexes" /\ m \in stop.muts

Helds ==
    \A t \in Thread : \A m \in held_mutexes[t] :
      \/ holding_thread[m] = t
      \/ stop.pc = "mutexes" /\ stop.thr = t /\ m \notin stop.muts

Releasing == stop.pc = "mutexes" => \A m \in stop.muts : holding_thread[m] = stop.thr

\* Every live thread has the priority UpdatePriority would give it.
Boosted ==
    \A t \in Thread : status[t] # "Dead" =>
      current_priority[t] = Inherited(t, held_mutexes[t], mutex_priority)

MutexInv == Locked /\ Holders /\ Helds /\ Releasing /\ Boosted

-------------------------------------------------------------------------------
(* Steps in general                                                        *)

\* A live thread holds what it has in held_mutexes.
LEMMA LiveHolds ==
    ASSUME PhaseOK, MutexInv, NEW t \in Thread, status[t] # "Dead", NEW m \in held_mutexes[t]
    PROVE  holding_thread[m] = t
BY DEF PhaseOK, MutexInv, Helds

\* Threads whose priority is computed anew, and threads nothing of which changed.
LEMMA BoostedKept ==
    ASSUME MutexInv,
           \A t \in Thread : status'[t] # "Dead" =>
             \/ current_priority'[t] =
                  Best({nominal_priority'[t]} \cup {mutex_priority'[m] : m \in held_mutexes'[t]})
             \/ /\ status[t] # "Dead" /\ current_priority'[t] = current_priority[t]
                /\ nominal_priority'[t] = nominal_priority[t] /\ held_mutexes'[t] = held_mutexes[t]
                /\ \A m \in held_mutexes[t] : mutex_priority'[m] = mutex_priority[m]
    PROVE  Boosted'
<1> SUFFICES ASSUME NEW t \in Thread, status'[t] # "Dead"
             PROVE  current_priority'[t] =
                      Best({nominal_priority'[t]} \cup {mutex_priority'[m] : m \in held_mutexes'[t]})
  BY DEF Boosted, Inherited
<1>1. CASE /\ status[t] # "Dead" /\ current_priority'[t] = current_priority[t]
           /\ nominal_priority'[t] = nominal_priority[t] /\ held_mutexes'[t] = held_mutexes[t]
           /\ \A m \in held_mutexes[t] : mutex_priority'[m] = mutex_priority[m]
  <2>1. current_priority[t] =
          Best({nominal_priority[t]} \cup {mutex_priority[m] : m \in held_mutexes[t]})
    BY <1>1 DEF MutexInv, Boosted, Inherited
  <2>2. {nominal_priority[t]} \cup {mutex_priority[m] : m \in held_mutexes[t]}
          = {nominal_priority'[t]} \cup {mutex_priority'[m] : m \in held_mutexes'[t]}
    BY <1>1
  <2> QED BY <1>1, <2>1, <2>2
<1> QED BY <1>1

\* A step in which no mutex and no priority changes, and nobody dies.
LEMMA MutexSame ==
    ASSUME MutexInv, UNCHANGED <<lock_count, holding_thread, mutex_priority, held_mutexes,
                                 nominal_priority, current_priority, stop>>,
           \A t \in Thread : status'[t] = "Dead" <=> status[t] = "Dead"
    PROVE  MutexInv'
<1>1. Boosted'
  BY BoostedKept
<1>2. Locked' /\ Holders' /\ Helds' /\ Releasing'
  BY DEF MutexInv, Locked, Holders, Helds, Releasing
<1> QED BY <1>1, <1>2 DEF MutexInv

\* UpdatePriority of t with the mutexes it holds afterwards.
LEMMA UpdateBoosts ==
    ASSUME TypeOK, PhaseOK, MutexInv, NEW t \in Thread,
           UpdatePriority(t, held_mutexes'[t], mutex_priority'),
           UNCHANGED <<status, nominal_priority>>,
           \A u \in Thread : u # t => held_mutexes'[u] = held_mutexes[u],
           \A u \in Thread : u # t /\ status[u] # "Dead" =>
             \A m \in held_mutexes[u] : mutex_priority'[m] = mutex_priority[m]
    PROVE  Boosted'
<1>1. current_priority' = [current_priority EXCEPT ![t] =
                             Inherited(t, held_mutexes'[t], mutex_priority')]
  BY DEF UpdatePriority, BoostPriority
<1>2. \A u \in Thread : u # t => current_priority'[u] = current_priority[u]
  BY <1>1 DEF TypeOK
<1>3. current_priority'[t] =
        Best({nominal_priority'[t]} \cup {mutex_priority'[m] : m \in held_mutexes'[t]})
  BY <1>1 DEF TypeOK, Inherited
<1> QED BY <1>2, <1>3, BoostedKept

-------------------------------------------------------------------------------
(* The loops                                                               *)

LEMMA AcquireMutexInv ==
    ASSUME TypeOK, PhaseOK, MutexInv, NEW o \in Mutex, NEW t \in Thread, status[t] # "Dead",
           AcquireMutex(o, t), UNCHANGED <<status, nominal_priority, stop>>
    PROVE  MutexInv'
<1>1. lock_count' = [lock_count EXCEPT ![o] = @ + 1] /\ lock_count \in [Mutex -> Nat]
  BY DEF AcquireMutex, TypeOK
<1>2. CASE lock_count[o] = 0
  <2> DEFINE held == held_mutexes[t] \cup {o}
             mp   == [mutex_priority EXCEPT ![o] = current_priority[t]]
  <2>1. /\ mutex_priority' = mp
        /\ held_mutexes' = [held_mutexes EXCEPT ![t] = held]
        /\ holding_thread' = [holding_thread EXCEPT ![o] = t]
        /\ UpdatePriority(t, held, mp)
    BY <1>2 DEF AcquireMutex
  <2>2. holding_thread[o] = None /\ None \notin Thread
    BY <1>2, KernelAssumption DEF MutexInv, Locked, Object
  <2>3. \A u \in Thread : held_mutexes'[u] = IF u = t THEN held ELSE held_mutexes[u]
    BY <2>1 DEF TypeOK
  <2>4. \A m \in Mutex : /\ holding_thread'[m] = IF m = o THEN t ELSE holding_thread[m]
                         /\ mutex_priority'[m] = IF m = o THEN current_priority[t] ELSE mutex_priority[m]
    BY <2>1 DEF TypeOK
  <2>5. \A u \in Thread : held_mutexes[u] \subseteq Mutex
    BY DEF TypeOK
  <2>6. \A u \in Thread : status[u] # "Dead" => o \notin held_mutexes[u]
    BY <2>2, LiveHolds
  <2>7. Boosted'
    <3>1. UpdatePriority(t, held_mutexes'[t], mutex_priority')
      BY <2>1, <2>3
    <3>2. \A u \in Thread : u # t /\ status[u] # "Dead" =>
             \A m \in held_mutexes[u] : mutex_priority'[m] = mutex_priority[m]
      BY <2>4, <2>5, <2>6
    <3> QED BY <2>3, <3>1, <3>2, UpdateBoosts
  <2>8. Locked'
    <3>1. \A m \in Mutex : lock_count'[m] = IF m = o THEN 1 ELSE lock_count[m]
      BY <1>1, <1>2
    <3> QED BY <2>2, <2>4, <3>1 DEF MutexInv, Locked
  <2>9. Holders'
    BY <2>3, <2>4 DEF MutexInv, Holders
  <2>10. Helds'
    <3> SUFFICES ASSUME NEW u \in Thread, NEW m \in held_mutexes'[u]
                 PROVE  \/ holding_thread'[m] = u
                        \/ stop.pc = "mutexes" /\ stop.thr = u /\ m \notin stop.muts
      BY DEF Helds
    <3>1. CASE m = o /\ u = t
      BY <2>4, <3>1
    <3>2. CASE m # o \/ u # t
      <4>1. m \in held_mutexes[u] /\ m \in Mutex
        BY <2>3, <2>5, <3>2
      <4>2. \/ holding_thread[m] = u
            \/ stop.pc = "mutexes" /\ stop.thr = u /\ m \notin stop.muts
        BY <4>1 DEF MutexInv, Helds
      <4>3. holding_thread[m] = u => m # o
        BY <2>2
      <4> QED BY <2>4, <4>1, <4>2, <4>3
    <3> QED BY <3>1, <3>2
  <2>11. Releasing'
    <3>1. stop.muts \subseteq Mutex
      BY DEF TypeOK
    <3>2. stop.pc = "mutexes" => stop.thr \in Thread
      BY DEF PhaseOK
    <3> QED BY <2>2, <2>4, <3>1, <3>2 DEF MutexInv, Releasing
  <2> QED BY <2>7, <2>8, <2>9, <2>10, <2>11 DEF MutexInv
<1>3. CASE lock_count[o] # 0
  <2>1. UNCHANGED <<mutex_priority, held_mutexes, holding_thread, current_priority>>
    BY <1>3 DEF AcquireMutex, prioVars
  <2>2. Locked'
    <3>1. \A m \in Mutex : lock_count'[m] > 0 <=> lock_count[m] > 0
      BY <1>1, <1>3
    <3> QED BY <2>1, <3>1 DEF MutexInv, Locked
  <2>3. Boosted'
    BY <2>1, BoostedKept
  <2>4. Holders' /\ Helds' /\ Releasing'
    BY <2>1 DEF MutexInv, Holders, Helds, Releasing
  <2> QED BY <2>2, <2>3, <2>4 DEF MutexInv
<1> QED BY <1>2, <1>3

LEMMA AcquireNextMutex ==
    ASSUME TypeOK, PhaseOK, SchedInv, MutexInv, AcquireNext
    PROVE  MutexInv'
<1> DEFINE o == Head(sync.todo)
           t == sync.thr
<1>1. UNCHANGED <<status, nominal_priority, stop>>
  BY DEF AcquireNext, keptVars
<1>2. t \in Thread /\ sync.pc = "acquire"
  BY DEF AcquireNext, SyncAt, PhaseOK
<1>3. status[t] # "Dead"
  BY <1>2 DEF SchedInv, Loops, Waiting
<1>4. \/ UNCHANGED mutexVars
      \/ o \in Mutex /\ AcquireMutex(o, t)
  BY DEF AcquireNext, Acquire, AcquireSemaphore, AcquireEvent
<1> HIDE DEF o, t
<1>5. CASE UNCHANGED mutexVars
  BY <1>1, <1>5, MutexSame DEF mutexVars, prioVars
<1>6. CASE o \in Mutex /\ AcquireMutex(o, t)
  BY <1>1, <1>2, <1>3, <1>6, AcquireMutexInv
<1> QED BY <1>4, <1>5, <1>6

\* Mutex::UpdatePriority only concerns the thread that holds the mutex.
LEMMA MutexUpdateInv ==
    ASSUME TypeOK, PhaseOK, MutexInv, NEW m \in Mutex, NEW list, MutexUpdatePriority(m, list),
           UNCHANGED <<status, nominal_priority, held_mutexes, lock_count, holding_thread, stop>>
    PROVE  MutexInv'
<1> DEFINE best == Best({ThreadPrioLowest} \cup {current_priority[w] : w \in Elems(list)})
           mp   == [mutex_priority EXCEPT ![m] = best]
           h    == holding_thread[m]
<1>1. CASE h = None \/ best = mutex_priority[m]
  <2>1. UNCHANGED <<mutex_priority, current_priority>>
    BY <1>1 DEF MutexUpdatePriority, prioVars
  <2> QED BY <2>1, MutexSame
<1>2. CASE ~(h = None \/ best = mutex_priority[m])
  <2>1. mutex_priority' = mp /\ UpdatePriority(h, held_mutexes[h], mp)
    BY <1>2 DEF MutexUpdatePriority
  <2>2. h \in Thread
    BY <1>2 DEF TypeOK
  <2> HIDE DEF best
  <2>3. \A n \in Mutex : n # m => mutex_priority'[n] = mutex_priority[n]
    BY <2>1 DEF TypeOK
  <2>4. \A u \in Thread : u # h /\ status[u] # "Dead" =>
          \A n \in held_mutexes[u] : mutex_priority'[n] = mutex_priority[n]
    <3> SUFFICES ASSUME NEW u \in Thread, u # h, status[u] # "Dead", NEW n \in held_mutexes[u]
                 PROVE  mutex_priority'[n] = mutex_priority[n]
      OBVIOUS
    <3>1. holding_thread[n] = u /\ n \in Mutex
      BY LiveHolds DEF TypeOK
    <3> QED BY <2>3, <3>1
  <2>5. UpdatePriority(h, held_mutexes'[h], mutex_priority')
    BY <2>1
  <2> HIDE DEF h
  <2>6. Boosted'
    BY <2>2, <2>4, <2>5, UpdateBoosts
  <2>7. Locked' /\ Holders' /\ Helds' /\ Releasing'
    BY DEF MutexInv, Locked, Holders, Helds, Releasing
  <2> QED BY <2>6, <2>7 DEF MutexInv
<1> QED BY <1>1, <1>2

LEMMA SetWaitingMutex ==
    ASSUME TypeOK, PhaseOK, MutexInv, NEW o, NEW list, SetWaitingThreads(o, list),
           UNCHANGED <<status, nominal_priority, held_mutexes, lock_count, holding_thread, stop>>
    PROVE  MutexInv'
<1>1. CASE o \in Mutex
  BY <1>1, MutexUpdateInv DEF SetWaitingThreads
<1>2. CASE o \notin Mutex
  <2>1. UNCHANGED <<mutex_priority, current_priority>>
    BY <1>2 DEF SetWaitingThreads, prioVars
  <2> QED BY <2>1, MutexSame
<1> QED BY <1>1, <1>2

\* ResumeFromWait makes nobody alive who was dead.
LEMMA ResumeDead ==
    ASSUME TypeOK, NEW t \in Thread, ResumeFromWait(t)
    PROVE  \A u \in Thread : status'[u] = "Dead" <=> status[u] = "Dead"
<1>1. CASE status[t] \in Resumable
  BY <1>1 DEF ResumeFromWait, Resumable, Waiting, TypeOK
<1>2. CASE status[t] \notin Resumable
  BY <1>2 DEF ResumeFromWait
<1> QED BY <1>1, <1>2

LEMMA SyncMutex ==
    ASSUME TypeOK, PhaseOK, SchedInv, MutexInv, SyncStep
    PROVE  MutexInv'
<1>1. CASE WakeNext \/ WakeupDone \/ AcquireDone
  <2>1. UNCHANGED <<lock_count, holding_thread, mutex_priority, held_mutexes, nominal_priority,
                    current_priority, stop, status>>
    BY <1>1 DEF WakeNext, WakeupDone, AcquireDone, threadVars, objectVars, keptVars, mutexVars,
          prioVars
  <2> QED BY <2>1, MutexSame
<1>2. CASE AcquireNext
  BY <1>2, AcquireNextMutex
<1>3. CASE RemoveNext \/ AddNext
  <2>1. UNCHANGED <<status, nominal_priority, held_mutexes, lock_count, holding_thread, stop>>
    BY <1>3 DEF RemoveNext, AddNext, keptVars
  <2>2. \E o, list : SetWaitingThreads(o, list)
    BY <1>3 DEF RemoveNext, AddNext
  <2> QED BY <2>1, <2>2, SetWaitingMutex
<1>4. CASE RemoveDone
  <2>1. UNCHANGED <<lock_count, holding_thread, mutex_priority, held_mutexes, nominal_priority,
                    current_priority, stop>>
    BY <1>4 DEF RemoveDone, keptVars, objectVars
  <2>2. sync.thr \in Thread
    BY <1>4 DEF RemoveDone, SyncAt, PhaseOK
  <2>3. ResumeFromWait(sync.thr) \/ status' = status
    BY <1>4 DEF RemoveDone
  <2>4. \A u \in Thread : status'[u] = "Dead" <=> status[u] = "Dead"
    BY <2>2, <2>3, ResumeDead
  <2> QED BY <2>1, <2>4, MutexSame
<1>5. CASE UpdateNext
  <2>1. UNCHANGED <<status, nominal_priority, held_mutexes, lock_count, holding_thread, stop>>
    BY <1>5 DEF UpdateNext, keptVars
  <2>2. \E m \in Mutex : MutexUpdatePriority(m, waiting_threads[m])
    BY <1>5 DEF UpdateNext, TypeOK
  <2> QED BY <2>1, <2>2, MutexUpdateInv
<1> QED BY <1>1, <1>2, <1>3, <1>4, <1>5 DEF SyncStep

-------------------------------------------------------------------------------
(* Stopping a thread                                                       *)

LEMMA BeginStopMutex ==
    ASSUME TypeOK, PhaseOK, MutexInv, stop.pc = "idle", NEW t \in Thread, BeginStop(t)
    PROVE  MutexInv'
<1>1. /\ UNCHANGED <<lock_count, holding_thread, mutex_priority, held_mutexes, nominal_priority,
                     current_priority>>
      /\ status' = [status EXCEPT ![t] = "Dead"]
      /\ stop' = [pc |-> "detach", thr |-> t, muts |-> {}]
  BY DEF BeginStop, objectVars
<1>2. \A u \in Thread : status'[u] = IF u = t THEN "Dead" ELSE status[u]
  BY <1>1 DEF TypeOK
<1>3. stop'.pc = "detach" /\ stop'.thr = t
  BY <1>1
<1>4. Boosted'
  BY <1>1, <1>2, BoostedKept
<1>5. Locked' /\ Releasing'
  BY <1>1, <1>3 DEF MutexInv, Locked, Releasing
<1>6. Holders'
  BY <1>1, <1>2, <1>3 DEF MutexInv, Holders
<1>7. Helds'
  BY <1>1 DEF MutexInv, Helds
<1> QED BY <1>4, <1>5, <1>6, <1>7 DEF MutexInv

LEMMA StopMutex ==
    ASSUME TypeOK, PhaseOK, MutexInv, StopStep
    PROVE  MutexInv'
<1>1. CASE StopDetach
  <2>1. /\ UNCHANGED <<lock_count, holding_thread, mutex_priority, held_mutexes, nominal_priority,
                       current_priority, status>>
        /\ stop.pc = "detach"
    BY <1>1 DEF StopDetach, StopAt, threadVars, objectVars
  <2>2. stop.thr \in Thread
    BY <2>1 DEF PhaseOK
  <2>3. stop'.pc = "mutexes" /\ stop'.thr = stop.thr /\ stop'.muts = held_mutexes[stop.thr]
    BY <1>1 DEF StopDetach, TypeOK
  <2>4. Boosted' /\ Locked'
    BY <2>1, BoostedKept DEF MutexInv, Locked
  <2>5. Holders' /\ Helds' /\ Releasing'
    BY <2>1, <2>2, <2>3 DEF MutexInv, Holders, Helds, Releasing
  <2> QED BY <2>4, <2>5 DEF MutexInv
<1>2. CASE StopRelease
  <2>1. PICK m \in stop.muts :
          /\ lock_count' = [lock_count EXCEPT ![m] = 0]
          /\ holding_thread' = [holding_thread EXCEPT ![m] = None]
          /\ stop' = [stop EXCEPT !.muts = StillToRelease(m)]
    BY <1>2 DEF StopRelease
  <2>2. /\ UNCHANGED <<mutex_priority, held_mutexes, nominal_priority, current_priority, status>>
        /\ stop.pc = "mutexes"
    BY <1>2 DEF StopRelease, StopAt, threadVars
  <2>3. stop.thr \in Thread /\ m \in Mutex /\ None \notin Thread
    BY <2>2, KernelAssumption DEF PhaseOK, TypeOK, Object
  <2>4. stop'.pc = "mutexes" /\ stop'.thr = stop.thr /\ stop'.muts = stop.muts \ {m}
    BY <2>1, <2>2 DEF TypeOK, StillToRelease
  <2>5. holding_thread[m] = stop.thr /\ \A n \in stop.muts : holding_thread[n] = stop.thr
    BY <2>2 DEF MutexInv, Releasing
  <2>6. \A n \in Mutex : /\ holding_thread'[n] = IF n = m THEN None ELSE holding_thread[n]
                         /\ lock_count'[n] = IF n = m THEN 0 ELSE lock_count[n]
    BY <2>1 DEF TypeOK
  <2>7. Boosted'
    BY <2>2, BoostedKept
  <2>8. Locked'
    BY <2>6 DEF MutexInv, Locked
  <2>9. Holders'
    BY <2>2, <2>3, <2>4, <2>6 DEF MutexInv, Holders
  <2>10. Helds'
    <3> SUFFICES ASSUME NEW u \in Thread, NEW n \in held_mutexes[u]
                 PROVE  \/ holding_thread'[n] = u
                        \/ stop'.pc = "mutexes" /\ stop'.thr = u /\ n \notin stop'.muts
      BY <2>2 DEF Helds
    <3>1. n \in Mutex
      BY DEF TypeOK
    <3>2. \/ holding_thread[n] = u
          \/ stop.pc = "mutexes" /\ stop.thr = u /\ n \notin stop.muts
      BY DEF MutexInv, Helds
    <3> QED BY <2>4, <2>5, <2>6, <3>1, <3>2
  <2>11. Releasing'
    <3>1. \A n \in stop.muts : n \in Mutex
      BY DEF TypeOK
    <3> QED BY <2>4, <2>5, <2>6, <3>1 DEF Releasing
  <2> QED BY <2>7, <2>8, <2>9, <2>10, <2>11 DEF MutexInv
<1>3. CASE StopDone
  <2>1. /\ UNCHANGED <<lock_count, holding_thread, mutex_priority, nominal_priority,
                       current_priority, status>>
        /\ stop.pc = "mutexes" /\ stop.muts = {} /\ stop' = StopIdle
        /\ held_mutexes' = [held_mutexes EXCEPT ![stop.thr] = {}]
    BY <1>3 DEF StopDone, StopAt, objectVars
  <2>2. stop.thr \in Thread /\ status[stop.thr] = "Dead"
    BY <2>1 DEF PhaseOK
  <2>3. \A u \in Thread : held_mutexes'[u] = IF u = stop.thr THEN {} ELSE held_mutexes[u]
    BY <2>1 DEF TypeOK
  <2>4. stop'.pc = "idle"
    BY <2>1 DEF StopIdle
  <2>5. Boosted'
    <3>1. \A u \in Thread : status[u] # "Dead" => held_mutexes'[u] = held_mutexes[u]
      BY <2>2, <2>3
    <3> QED BY <2>1, <3>1, BoostedKept
  <2>6. Locked' /\ Releasing'
    BY <2>1, <2>4 DEF MutexInv, Locked, Releasing
  <2>7. Holders'
    BY <2>1, <2>2, <2>3 DEF MutexInv, Holders
  <2>8. Helds'
    BY <2>1, <2>3 DEF MutexInv, Helds
  <2> QED BY <2>5, <2>6, <2>7, <2>8 DEF MutexInv
<1> QED BY <1>1, <1>2, <1>3 DEF StopStep

LEMMA TermMutex ==
    ASSUME TypeOK, PhaseOK, SchedInv, MutexInv, TermStep
    PROVE  MutexInv'
<1>1. stop.pc = "idle"
  BY DEF TermStep, TermVictim, TermCurrent, TermDone, TermAt, StopAt
<1>2. CASE \E t \in Thread : BeginStop(t)
  BY <1>1, <1>2, BeginStopMutex
<1>3. CASE UNCHANGED <<threadVars, objectVars, stop>>
  BY <1>3, MutexSame DEF threadVars, objectVars
<1>4. CASE TermVictim
  BY <1>2, <1>4 DEF TermVictim, Victims
<1>5. CASE TermCurrent
  <2> DEFINE t == current_thread[term.core]
  <2>1. term.core \in Core
    BY <1>5, KernelAssumption DEF TermCurrent, TypeOK, Core
  <2>2. t \in Thread \cup {None}
    BY <2>1 DEF TypeOK
  <2>3. \/ t # None /\ BeginStop(t)
        \/ UNCHANGED <<threadVars, objectVars, stop>>
    BY <1>5 DEF TermCurrent
  <2> HIDE DEF t
  <2> QED BY <1>2, <1>3, <2>2, <2>3
<1>6. CASE TermDone
  BY <1>3, <1>6 DEF TermDone
<1> QED BY <1>4, <1>5, <1>6 DEF TermStep

-------------------------------------------------------------------------------
(* Calls and events                                                        *)

LEMMA ReleaseMutexInv ==
    ASSUME TypeOK, PhaseOK, SchedInv, MutexInv, NEW c \in Core, NEW m \in Mutex, ReleaseMutex(c, m)
    PROVE  MutexInv'
<1> DEFINE t == current_thread[c]
<1>1. /\ Calls(c, t) /\ holding_thread[m] = t /\ lock_count[m] > 0
      /\ lock_count' = [lock_count EXCEPT ![m] = @ - 1]
      /\ UNCHANGED <<status, nominal_priority, mutex_priority, stop>>
  BY DEF ReleaseMutex
<1>2. t \in Thread /\ status[t] = "Running" /\ stop.pc = "idle"
  BY <1>1, CallerRuns
<1>3. \A n \in Mutex : lock_count[n] \in Nat
                       /\ lock_count'[n] = IF n = m THEN lock_count[m] - 1 ELSE lock_count[n]
  BY <1>1 DEF TypeOK
<1>4. CASE lock_count[m] = 1
  <2> DEFINE held == held_mutexes[t] \ {m}
  <2>1. /\ held_mutexes' = [held_mutexes EXCEPT ![t] = held]
        /\ UpdatePriority(t, held, mutex_priority)
        /\ holding_thread' = [holding_thread EXCEPT ![m] = None]
    BY <1>4 DEF ReleaseMutex, HeldAfterRelease
  <2> HIDE DEF t
  <2>2. \A u \in Thread : held_mutexes'[u] = IF u = t THEN held ELSE held_mutexes[u]
    BY <2>1 DEF TypeOK
  <2>3. \A n \in Mutex : holding_thread'[n] = IF n = m THEN None ELSE holding_thread[n]
    BY <2>1 DEF TypeOK
  <2>4. Boosted'
    <3>1. UpdatePriority(t, held_mutexes'[t], mutex_priority')
      BY <1>1, <1>2, <2>1, <2>2
    <3> QED BY <1>1, <1>2, <2>2, <3>1, UpdateBoosts
  <2>5. Locked'
    BY <1>3, <1>4, <2>3 DEF MutexInv, Locked
  <2>6. None \notin Thread /\ \A u \in Thread : held_mutexes[u] \subseteq Mutex
    BY KernelAssumption DEF Object, TypeOK
  <2>7. Holders'
    BY <1>1, <2>2, <2>3, <2>6 DEF MutexInv, Holders
  <2>8. Helds'
    BY <1>1, <1>2, <2>2, <2>3, <2>6 DEF MutexInv, Helds
  <2>9. Releasing'
    BY <1>1, <1>2 DEF Releasing
  <2> QED BY <2>4, <2>5, <2>7, <2>8, <2>9 DEF MutexInv
<1>5. CASE lock_count[m] # 1
  <2>1. UNCHANGED <<held_mutexes, holding_thread, current_priority>>
    BY <1>5 DEF ReleaseMutex, prioVars
  <2>2. \A n \in Mutex : lock_count'[n] > 0 <=> lock_count[n] > 0
    BY <1>1, <1>3, <1>5
  <2>3. Boosted'
    BY <1>1, <2>1, BoostedKept
  <2>4. Locked' /\ Holders' /\ Helds' /\ Releasing'
    BY <1>1, <2>1, <2>2 DEF MutexInv, Locked, Holders, Helds, Releasing
  <2> QED BY <2>3, <2>4 DEF MutexInv
<1> QED BY <1>4, <1>5

LEMMA SetThreadPriorityMutex ==
    ASSUME TypeOK, MutexInv, NEW c \in Core, NEW t \in Thread, NEW p \in Priority,
           SetThreadPriority(c, t, p)
    PROVE  MutexInv'
<1> DEFINE best == Best({p} \cup {mutex_priority[m] : m \in held_mutexes[t]})
<1>1. /\ UNCHANGED <<status, held_mutexes, lock_count, holding_thread, mutex_priority, stop>>
      /\ nominal_priority' = [nominal_priority EXCEPT ![t] = p]
      /\ current_priority' = [current_priority EXCEPT ![t] = best]
  BY DEF SetThreadPriority, objectVars
<1> HIDE DEF best
<1>2. \A u \in Thread : /\ nominal_priority'[u] = IF u = t THEN p ELSE nominal_priority[u]
                        /\ current_priority'[u] = IF u = t THEN best ELSE current_priority[u]
  BY <1>1 DEF TypeOK
<1>3. best = Best({nominal_priority'[t]} \cup {mutex_priority'[m] : m \in held_mutexes'[t]})
  BY <1>1, <1>2 DEF best
<1>4. Boosted'
  BY <1>1, <1>2, <1>3, BoostedKept
<1>5. Locked' /\ Holders' /\ Helds' /\ Releasing'
  BY <1>1 DEF MutexInv, Locked, Holders, Helds, Releasing
<1> QED BY <1>4, <1>5 DEF MutexInv

\* A thread that is alive gets another status.
LEMMA LiveStatus ==
    ASSUME TypeOK, NEW t \in Thread, NEW y, status' = [status EXCEPT ![t] = y],
           status[t] # "Dead", y # "Dead"
    PROVE  \A u \in Thread : status'[u] = "Dead" <=> status[u] = "Dead"
BY DEF TypeOK

LEMMA ThreadCallMutex ==
    ASSUME TypeOK, PhaseOK, SchedInv, MutexInv, NEW c \in Core, ThreadCall(c)
    PROVE  MutexInv'
<1> DEFINE kept == <<lock_count, holding_thread, mutex_priority, held_mutexes, nominal_priority,
                     current_priority, stop>>
<1>1. CASE WaitReturns(c)
  <2>1. UNCHANGED <<kept, status>>
    BY <1>1 DEF WaitReturns, WaitAcquires, threadVars, objectVars
  <2> QED BY <2>1, MutexSame
<1>2. CASE WaitBegins(c)
  <2>1. /\ UNCHANGED kept /\ Calls(c, current_thread[c])
        /\ \E y \in Waiting : status' = [status EXCEPT ![current_thread[c]] = y]
    BY <1>2 DEF WaitBegins, WaitBlocks, objectVars, Waiting
  <2>2. \A u \in Thread : status'[u] = "Dead" <=> status[u] = "Dead"
    BY <2>1, CallerRuns, LiveStatus DEF Waiting
  <2> QED BY <2>1, <2>2, MutexSame
<1>3. CASE \E timed \in BOOLEAN : SleepThread(c, timed)
  <2>1. /\ UNCHANGED kept /\ Calls(c, current_thread[c])
        /\ status' = [status EXCEPT ![current_thread[c]] = "WaitSleep"]
    BY <1>3 DEF SleepThread, objectVars, callVars
  <2>2. \A u \in Thread : status'[u] = "Dead" <=> status[u] = "Dead"
    BY <2>1, CallerRuns, LiveStatus
  <2> QED BY <2>1, <2>2, MutexSame
<1>4. CASE \E t \in Thread : CreateThread(c, t)
  <2>1. PICK t \in Thread : CreateThread(c, t)
    BY <1>4
  <2>2. /\ UNCHANGED kept /\ status[t] = "None" /\ status' = [status EXCEPT ![t] = "Ready"]
    BY <2>1 DEF CreateThread, NewThread, objectVars
  <2>3. \A u \in Thread : status'[u] = "Dead" <=> status[u] = "Dead"
    BY <2>2, LiveStatus
  <2> QED BY <2>2, <2>3, MutexSame
<1>5. CASE \E t \in Thread, p \in SetPriorities : SetThreadPriority(c, t, p)
  BY <1>5, SvcAssumption, SetThreadPriorityMutex
<1>6. CASE ExitThread(c)
  <2>1. Calls(c, current_thread[c]) /\ BeginStop(current_thread[c])
    BY <1>6 DEF ExitThread
  <2>2. current_thread[c] \in Thread /\ stop.pc = "idle"
    BY <2>1, CallerRuns
  <2> QED BY <2>1, <2>2, BeginStopMutex
<1>7. CASE \/ \E p \in Process : TerminateProcess(c, p)
           \/ \E p \in Process, S \in Controllable, stopped \in BOOLEAN :
                ControlProcess(c, p, S, stopped)
  <2>1. UNCHANGED <<kept, status>>
    BY <1>7 DEF TerminateProcess, ControlProcess, threadVars, objectVars, callVars
  <2> QED BY <2>1, MutexSame
<1>8. CASE \E m \in Mutex : ReleaseMutex(c, m)
  BY <1>8, ReleaseMutexInv
<1>9. CASE \/ \E s \in Semaphore, n \in ReleaseCounts : ReleaseSemaphore(c, s, n)
           \/ \E e \in Event : SignalEvent(c, e)
           \/ \E e \in Event : ClearEvent(c, e)
  <2>1. UNCHANGED <<kept, status>>
    BY <1>9 DEF ReleaseSemaphore, SignalEvent, Signal, ClearEvent, threadVars, callVars
  <2> QED BY <2>1, MutexSame
<1> QED BY <1>1, <1>2, <1>3, <1>4, <1>5, <1>6, <1>7, <1>8, <1>9 DEF ThreadCall

LEMMA StepMutex ==
    ASSUME TypeOK, PhaseOK, SchedInv, MutexInv, [Next]_vars
    PROVE  MutexInv'
<1> DEFINE kept == <<lock_count, holding_thread, mutex_priority, held_mutexes, nominal_priority,
                     current_priority, stop>>
<1>1. CASE SyncStep
  BY <1>1, SyncMutex
<1>2. CASE StopStep
  BY <1>2, StopMutex
<1>3. CASE TermStep
  BY <1>3, TermMutex
<1>4. CASE \E c \in Core : ThreadCall(c)
  BY <1>4, ThreadCallMutex
<1>5. CASE \E c \in Core : Reschedule(c)
  <2>1. PICK c \in Core : Reschedule(c)
    BY <1>5
  <2>2. UNCHANGED kept
    BY <2>1 DEF Reschedule, RescheduleCore, objectVars
  <2>3. \A u \in Thread : status'[u] = "Dead" <=> status[u] = "Dead"
    BY <2>1, RescheduleSched DEF Switches
  <2> QED BY <2>2, <2>3, MutexSame
<1>6. CASE \E t \in Thread : TimeoutFires(t)
  <2>1. PICK t \in Thread : TimeoutFires(t)
    BY <1>6
  <2>2. UNCHANGED kept
    BY <2>1 DEF TimeoutFires, objectVars
  <2>3. ResumeFromWait(t) \/ status' = status
    BY <2>1 DEF TimeoutFires
  <2>4. \A u \in Thread : status'[u] = "Dead" <=> status[u] = "Dead"
    BY <2>3, ResumeDead
  <2> QED BY <2>2, <2>4, MutexSame
<1>7. CASE \E t \in Thread, delayed \in BOOLEAN : ProcessRun(t, delayed)
  <2>1. PICK t \in Thread, delayed \in BOOLEAN : ProcessRun(t, delayed)
    BY <1>7
  <2>2. /\ UNCHANGED kept /\ process_status[ProcessOf[t]] = "Created"
        /\ \E y \in {"Ready", "WaitSleep"} : status' = [status EXCEPT ![t] = y]
    BY <2>1 DEF ProcessRun, NewThread, objectVars
  <2>3. status[t] = "None"
    BY <2>2 DEF SchedInv, Births
  <2>4. \A u \in Thread : status'[u] = "Dead" <=> status[u] = "Dead"
    BY <2>2, <2>3, LiveStatus
  <2> QED BY <2>2, <2>4, MutexSame
<1>8. CASE \E e \in Event : ServiceSignal(e)
  <2>1. UNCHANGED <<kept, status>>
    BY <1>8 DEF ServiceSignal, Signal, threadVars
  <2> QED BY <2>1, MutexSame
<1>9. CASE UNCHANGED vars
  <2>1. UNCHANGED <<kept, status>>
    BY <1>9 DEF vars, threadVars, objectVars, callVars
  <2> QED BY <2>1, MutexSame
<1> QED BY <1>1, <1>2, <1>3, <1>4, <1>5, <1>6, <1>7, <1>8, <1>9 DEF Next, KernelStep

\* The best of one priority is that priority.
LEMMA BestOfOne ==
    ASSUME NEW p \in Priority
    PROVE  Best({p}) = p
BY DEF Best

LEMMA InitMutex == Init => MutexInv
<1> SUFFICES ASSUME Init PROVE MutexInv
  OBVIOUS
<1>1. None \notin Thread
  BY KernelAssumption DEF Object
<1>2. Locked /\ Holders /\ Helds
  BY <1>1 DEF Init, Locked, Holders, Helds
<1>3. Releasing
  BY DEF Init, Releasing, StopIdle
<1>4. Boosted
  <2> SUFFICES ASSUME NEW t \in Thread
               PROVE  current_priority[t] = Inherited(t, held_mutexes[t], mutex_priority)
    BY DEF Boosted
  <2>1. InitPriority[t] \in Priority
    BY KernelAssumption
  <2>2. held_mutexes[t] = {} /\ current_priority[t] = InitPriority[t]
        /\ nominal_priority[t] = InitPriority[t]
    BY DEF Init
  <2>3. {nominal_priority[t]} \cup {mutex_priority[m] : m \in held_mutexes[t]} = {InitPriority[t]}
    BY <2>2
  <2> QED BY <2>1, <2>2, <2>3, BestOfOne DEF Inherited
<1> QED BY <1>2, <1>3, <1>4 DEF MutexInv

LEMMA MutexesAgree == Spec => [](TypeOK /\ PhaseOK /\ SchedInv /\ MutexInv)
<1>1. Init => TypeOK /\ PhaseOK /\ SchedInv /\ MutexInv
  BY InitType, InitSched, InitMutex
<1>2. TypeOK /\ PhaseOK /\ SchedInv /\ MutexInv /\ [Next]_vars
        => (TypeOK /\ PhaseOK /\ SchedInv /\ MutexInv)'
  BY StepType, StepSched, StepMutex
<1> QED BY <1>1, <1>2, PTL DEF Spec

\* Acquire, Release and ReleaseThreadMutexes: between calls a mutex is locked
\* exactly when a live thread holds it, and the thread knows it holds it.
THEOREM MutexesAreOwned == Spec => []MutexOwnership
<1>1. MutexInv => MutexOwnership
  BY DEF MutexInv, Locked, Holders, Helds, MutexOwnership, KernelIdle
<1> QED BY <1>1, MutexesAgree, PTL

\* Release and SetThreadPriority take a boost back: a live thread that holds no
\* mutex has the priority it was given.
THEOREM BoostsEnd == Spec => []BoostEnds
<1>1. TypeOK /\ MutexInv => BoostEnds
  <2> SUFFICES ASSUME TypeOK, MutexInv, NEW t \in Thread, held_mutexes[t] = {}, status[t] # "Dead"
               PROVE  current_priority[t] = nominal_priority[t]
    BY DEF BoostEnds
  <2>1. nominal_priority[t] \in Priority
    BY DEF TypeOK
  <2>2. {nominal_priority[t]} \cup {mutex_priority[m] : m \in held_mutexes[t]} = {nominal_priority[t]}
    OBVIOUS
  <2>3. current_priority[t] = Best({nominal_priority[t]})
    BY <2>2 DEF MutexInv, Boosted, Inherited
  <2> QED BY <2>1, <2>3, BestOfOne
<1> QED BY <1>1, MutexesAgree, PTL

-------------------------------------------------------------------------------
(* Waiting lists                                                           *)

ListedOnce == \A o \in Object : Distinct(waiting_threads[o])

\* Who is on a list waits for the object; the loop that takes a thread off its
\* lists has not come to the ones it is still on.
OnlyWaiters ==
    \A o \in Object : \A t \in Elems(waiting_threads[o]) :
      /\ o \in Elems(wait_objects[t])
      /\ sync.pc \in {"remove", "detach"} /\ sync.thr = t => o \in Elems(sync.todo)

Adding == sync.pc = "add" => Elems(sync.todo) \subseteq Elems(wait_objects[sync.thr])

\* A thread with wait objects waits, or is being stopped.
WaitsOnly ==
    \A t \in Thread : wait_objects[t] # <<>> =>
      \/ status[t] \in Waiting
      \/ stop.pc = "detach" /\ stop.thr = t
      \/ sync.pc = "detach" /\ sync.thr = t

ListInv == ListedOnce /\ OnlyWaiters /\ Adding /\ WaitsOnly

LEMMA EmptyElems ==
    ASSUME NEW o, NEW s, o \in Elems(s)
    PROVE  s # <<>>
BY DEF Elems

\* A list is its head and the rest; in a list without repetitions the rest does not
\* hold the head.
LEMMA HeadAndTail ==
    ASSUME NEW T, NEW s \in Seq(T), s # <<>>
    PROVE  /\ Head(s) \in T /\ Tail(s) \in Seq(T)
           /\ Elems(s) = {Head(s)} \cup Elems(Tail(s))
           /\ Distinct(s) => Distinct(Tail(s)) /\ Head(s) \notin Elems(Tail(s))
<1>1. /\ Head(s) = s[1] /\ Head(s) \in T /\ Tail(s) \in Seq(T) /\ Len(Tail(s)) = Len(s) - 1
      /\ Len(s) \in Nat /\ Len(s) > 0
      /\ \A i \in 1 .. Len(s) - 1 : Tail(s)[i] = s[i + 1]
  BY HeadTailProperties, EmptySeq, LenProperties
<1>2. 1 \in 1 .. Len(s) /\ \A i \in 1 .. Len(s) - 1 : i + 1 \in 1 .. Len(s) /\ i + 1 # 1
  BY <1>1
<1>3. Elems(Tail(s)) \subseteq Elems(s) /\ Head(s) \in Elems(s)
  BY <1>1, <1>2 DEF Elems
<1>4. Elems(s) \subseteq {Head(s)} \cup Elems(Tail(s))
  BY ElemsHeadTail
<1>5. ASSUME Distinct(s) PROVE Distinct(Tail(s)) /\ Head(s) \notin Elems(Tail(s))
  <2>1. Head(s) \notin Elems(Tail(s))
    BY <1>1, <1>2, <1>5 DEF Distinct, Elems
  <2>2. \A i, j \in 1 .. Len(s) - 1 : i + 1 = j + 1 => i = j
    BY <1>1
  <2>3. Distinct(Tail(s))
    BY <1>1, <1>2, <1>5, <2>2 DEF Distinct
  <2> QED BY <2>1, <2>3
<1> QED BY <1>1, <1>3, <1>4, <1>5

LEMMA ListType ==
    ASSUME TypeOK, NEW o \in Object
    PROVE  waiting_threads[o] \in Seq(Thread) /\ Elems(waiting_threads[o]) \subseteq Thread
<1>1. waiting_threads[o] \in Seq(Thread)
  BY DEF TypeOK
<1> QED BY <1>1 DEF Elems

\* A step that changes no list; a loop that takes a thread off may begin.
LEMMA ListsKept ==
    ASSUME TypeOK, ListInv, UNCHANGED <<waiting_threads, wait_objects>>,
           \/ UNCHANGED sync
           \/ sync'.pc \in {"idle", "scan", "acquire", "update"}
           \/ sync'.pc \in {"remove", "detach"} /\ sync'.todo = wait_objects[sync'.thr],
           WaitsOnly'
    PROVE  ListInv'
<1>1. ListedOnce' /\ Adding'
  BY DEF ListInv, ListedOnce, Adding
<1>2. OnlyWaiters'
  BY DEF ListInv, OnlyWaiters
<1> QED BY <1>1, <1>2 DEF ListInv

LEMMA WaitsKept ==
    ASSUME ListInv, UNCHANGED wait_objects,
           \A t \in Thread : status[t] \in Waiting => status'[t] \in Waiting,
           stop.pc = "detach" => stop' = stop,
           sync.pc = "detach" => sync' = sync
    PROVE  WaitsOnly'
BY DEF ListInv, WaitsOnly

LEMMA RemoveNextLists ==
    ASSUME TypeOK, PhaseOK, ListInv, RemoveNext
    PROVE  ListInv'
<1> DEFINE o == Head(sync.todo)
           t == sync.thr
<1>1. sync.todo \in Seq(Object) /\ sync.todo # <<>> /\ sync.pc \in {"remove", "detach"}
      /\ t \in Thread
  BY DEF RemoveNext, SyncAt, TypeOK, PhaseOK
<1>2. o \in Object /\ Elems(sync.todo) = {o} \cup Elems(Tail(sync.todo))
  BY <1>1, HeadAndTail
<1>3. waiting_threads' = [waiting_threads EXCEPT ![o] = Without(waiting_threads[o], t)]
      /\ UNCHANGED <<wait_objects, status, stop>>
  BY DEF RemoveNext, SetWaitingThreads, keptVars
<1>4. sync'.pc = sync.pc /\ sync'.thr = t /\ sync'.todo = Tail(sync.todo)
  BY DEF RemoveNext, TypeOK
<1> HIDE DEF o, t
<1>5. /\ Elems(Without(waiting_threads[o], t)) = Elems(waiting_threads[o]) \ {t}
      /\ Distinct(Without(waiting_threads[o], t))
  BY <1>2, ListType, WithoutDistinct DEF ListInv, ListedOnce
<1>6. \A x \in Object : waiting_threads'[x] = IF x = o THEN Without(waiting_threads[o], t)
                                               ELSE waiting_threads[x]
  BY <1>3 DEF TypeOK
<1>7. ListedOnce'
  BY <1>5, <1>6 DEF ListInv, ListedOnce
<1>8. OnlyWaiters'
  <2> SUFFICES ASSUME NEW x \in Object, NEW u \in Elems(waiting_threads'[x])
               PROVE  /\ x \in Elems(wait_objects[u])
                      /\ u = t => x \in Elems(Tail(sync.todo))
    BY <1>3, <1>4 DEF OnlyWaiters
  <2>1. u \in Elems(waiting_threads[x]) /\ (x = o => u # t)
    BY <1>5, <1>6
  <2>2. x \in Elems(wait_objects[u]) /\ (u = t => x \in Elems(sync.todo))
    BY <1>1, <2>1 DEF ListInv, OnlyWaiters, t
  <2> QED BY <1>2, <2>1, <2>2
<1>9. Adding' /\ WaitsOnly'
  BY <1>1, <1>3, <1>4 DEF ListInv, Adding, WaitsOnly, t
<1> QED BY <1>7, <1>8, <1>9 DEF ListInv

LEMMA AddNextLists ==
    ASSUME TypeOK, PhaseOK, ListInv, AddNext
    PROVE  ListInv'
<1> DEFINE o == Head(sync.todo)
           t == sync.thr
           new == IF t \in Elems(waiting_threads[o]) THEN waiting_threads[o]
                  ELSE Append(waiting_threads[o], t)
<1>1. sync.todo \in Seq(Object) /\ sync.todo # <<>> /\ sync.pc = "add" /\ t \in Thread
  BY DEF AddNext, SyncAt, TypeOK, PhaseOK
<1>2. o \in Object /\ Elems(sync.todo) = {o} \cup Elems(Tail(sync.todo))
  BY <1>1, HeadAndTail
<1>3. waiting_threads' = [waiting_threads EXCEPT ![o] = new]
      /\ UNCHANGED <<wait_objects, status, stop>>
  BY DEF AddNext, SetWaitingThreads, keptVars
<1>4. sync'.pc = "idle" \/ (sync'.pc = "add" /\ sync'.thr = t /\ sync'.todo = Tail(sync.todo))
  <2>1. sync' = SyncIdle \/ sync' = [sync EXCEPT !.todo = Tail(@)]
    BY DEF AddNext
  <2>2. CASE sync' = SyncIdle
    BY <2>2 DEF SyncIdle
  <2>3. CASE sync' = [sync EXCEPT !.todo = Tail(@)]
    BY <1>1, <2>3 DEF TypeOK
  <2> QED BY <2>1, <2>2, <2>3
<1> HIDE DEF o, t
<1>5. Elems(new) \subseteq Elems(waiting_threads[o]) \cup {t} /\ Distinct(new)
  <2>1. Distinct(waiting_threads[o])
    BY <1>2 DEF ListInv, ListedOnce
  <2>2. CASE t \in Elems(waiting_threads[o])
    BY <2>1, <2>2
  <2>3. CASE t \notin Elems(waiting_threads[o])
    BY <1>1, <1>2, <2>1, <2>3, ListType, AppendDistinct
  <2> QED BY <2>2, <2>3
<1> HIDE DEF new
<1>6. \A x \in Object : waiting_threads'[x] = IF x = o THEN new ELSE waiting_threads[x]
  BY <1>3 DEF TypeOK
<1>7. ListedOnce'
  BY <1>5, <1>6 DEF ListInv, ListedOnce
<1>8. Elems(sync.todo) \subseteq Elems(wait_objects[t])
  BY <1>1 DEF ListInv, Adding, t
<1>9. OnlyWaiters'
  <2> SUFFICES ASSUME NEW x \in Object, NEW u \in Elems(waiting_threads'[x])
               PROVE  x \in Elems(wait_objects[u])
    BY <1>3, <1>4 DEF OnlyWaiters
  <2>1. CASE u \in Elems(waiting_threads[x])
    BY <2>1 DEF ListInv, OnlyWaiters
  <2>2. CASE u \notin Elems(waiting_threads[x])
    BY <1>2, <1>5, <1>6, <1>8, <2>2
  <2> QED BY <2>1, <2>2
<1>10. Adding'
  BY <1>2, <1>3, <1>4, <1>8 DEF Adding
<1>11. WaitsOnly'
  BY <1>1, <1>3, WaitsKept
<1> QED BY <1>7, <1>9, <1>10, <1>11 DEF ListInv

LEMMA RemoveDoneLists ==
    ASSUME TypeOK, PhaseOK, ListInv, RemoveDone
    PROVE  ListInv'
<1> DEFINE t == sync.thr
<1>1. /\ sync.pc \in {"remove", "detach"} /\ sync.todo = <<>> /\ t \in Thread
      /\ wait_objects' = [wait_objects EXCEPT ![t] = <<>>]
      /\ UNCHANGED <<waiting_threads, stop>>
  BY DEF RemoveDone, SyncAt, PhaseOK, keptVars, objectVars
<1>2. sync'.pc \in {"idle", "scan"}
  <2>1. sync' = LoopOn
    BY DEF RemoveDone
  <2> QED BY <2>1 DEF LoopOn, SyncIdle
<1>3. \A u \in Thread : wait_objects'[u] = IF u = t THEN <<>> ELSE wait_objects[u]
  BY <1>1 DEF TypeOK
<1>4. \A u \in Thread : u # t => status'[u] = status[u]
  BY <1>1 DEF RemoveDone, ResumeFromWait, TypeOK
<1>5. \A o \in Object : t \notin Elems(waiting_threads[o])
  <2>1. \A o : o \notin Elems(sync.todo)
    BY <1>1, EmptyElems
  <2> QED BY <1>1, <2>1 DEF ListInv, OnlyWaiters
<1>6. ListedOnce' /\ Adding'
  BY <1>1, <1>2 DEF ListInv, ListedOnce, Adding
<1>7. OnlyWaiters'
  <2>1. \A o \in Object : \A u \in Elems(waiting_threads[o]) : u \in Thread /\ u # t
    BY <1>5, ListType
  <2> QED BY <1>1, <1>2, <1>3, <2>1 DEF ListInv, OnlyWaiters
<1>8. WaitsOnly'
  BY <1>1, <1>3, <1>4 DEF ListInv, WaitsOnly
<1> QED BY <1>6, <1>7, <1>8 DEF ListInv

\* Loops that change no list.
LEMMA SyncLists ==
    ASSUME TypeOK, PhaseOK, ListInv, SyncStep
    PROVE  ListInv'
<1>1. CASE WakeNext \/ WakeupDone \/ AcquireNext \/ AcquireDone \/ UpdateNext
  <2>1. UNCHANGED <<waiting_threads, wait_objects, status, stop>> /\ sync.pc # "detach"
    BY <1>1 DEF WakeNext, WakeupDone, AcquireNext, AcquireDone, UpdateNext, SyncAt, threadVars,
          objectVars, keptVars
  <2>2. \/ sync' = sync
        \/ sync'.pc \in {"idle", "scan", "acquire", "update"}
        \/ sync'.pc \in {"remove", "detach"} /\ sync'.todo = wait_objects[sync'.thr]
    <3>1. CASE WakeNext \/ AcquireNext
      BY <3>1 DEF WakeNext, AcquireNext, SyncAt, TypeOK
    <3>2. CASE WakeupDone \/ UpdateNext
      <4>1. sync' = sync \/ sync' = SyncIdle \/ sync'.pc = "update"
        BY <3>2 DEF WakeupDone, UpdateNext, SyncAt, TypeOK
      <4> QED BY <4>1 DEF SyncIdle
    <3>3. CASE AcquireDone
      <4>1. \/ sync' = SyncIdle
            \/ sync' = [sync EXCEPT !.pc = "remove", !.todo = wait_objects[sync.thr]]
        BY <3>3 DEF AcquireDone, Leaves
      <4>2. CASE sync' = SyncIdle
        BY <4>2 DEF SyncIdle
      <4>3. CASE sync' = [sync EXCEPT !.pc = "remove", !.todo = wait_objects[sync.thr]]
        <5>1. sync'.pc = "remove" /\ sync'.thr = sync.thr /\ sync'.todo = wait_objects[sync.thr]
          BY <4>3 DEF TypeOK
        <5> QED BY <5>1
      <4> QED BY <4>1, <4>2, <4>3
    <3> QED BY <1>1, <3>1, <3>2, <3>3
  <2>3. WaitsOnly'
    BY <2>1, WaitsKept
  <2> QED BY <2>1, <2>2, <2>3, ListsKept
<1> QED BY <1>1, RemoveNextLists, RemoveDoneLists, AddNextLists DEF SyncStep

LEMMA BeginStopLists ==
    ASSUME TypeOK, ListInv, sync.pc = "idle", stop.pc = "idle", NEW t \in Thread, BeginStop(t)
    PROVE  ListInv'
<1>1. /\ UNCHANGED <<waiting_threads, wait_objects>> /\ sync' = ScanOf(t)
      /\ status' = [status EXCEPT ![t] = "Dead"]
      /\ stop' = [pc |-> "detach", thr |-> t, muts |-> {}]
  BY DEF BeginStop, objectVars
<1>2. sync'.pc = "scan" /\ stop'.pc = "detach" /\ stop'.thr = t
  BY <1>1 DEF ScanOf, SyncIdle
<1>3. \A u \in Thread : u # t => status'[u] = status[u]
  BY <1>1 DEF TypeOK
<1>4. WaitsOnly'
  BY <1>1, <1>2, <1>3 DEF ListInv, WaitsOnly
<1> QED BY <1>1, <1>2, <1>4, ListsKept

LEMMA OuterLists ==
    ASSUME TypeOK, PhaseOK, SchedInv, ListInv, StopStep \/ TermStep
    PROVE  ListInv'
<1>1. sync.pc = "idle"
  BY DEF StopStep, StopDetach, StopRelease, StopDone, TermStep, TermVictim, TermCurrent, TermDone,
        TermAt, StopAt
<1>2. CASE StopDetach
  <2>1. /\ stop.pc = "detach" /\ stop.thr \in Thread
        /\ UNCHANGED <<waiting_threads, wait_objects, status>>
    BY <1>2 DEF StopDetach, StopAt, PhaseOK, threadVars, objectVars
  <2>2. CASE wait_objects[stop.thr] = <<>>
    <3>1. sync' = SyncIdle
      BY <1>2, <2>2 DEF StopDetach
    <3>2. sync'.pc = "idle"
      BY <3>1 DEF SyncIdle
    <3>3. WaitsOnly'
      BY <1>1, <2>1, <2>2 DEF ListInv, WaitsOnly
    <3> QED BY <2>1, <3>2, <3>3, ListsKept
  <2>3. CASE wait_objects[stop.thr] # <<>>
    <3>1. sync' = [SyncIdle EXCEPT !.pc = "detach", !.thr = stop.thr,
                                   !.todo = wait_objects[stop.thr]]
      BY <1>2, <2>3 DEF StopDetach
    <3>2. sync'.pc = "detach" /\ sync'.thr = stop.thr /\ sync'.todo = wait_objects[stop.thr]
      BY <3>1 DEF SyncIdle
    <3>3. WaitsOnly'
      BY <1>1, <2>1, <3>2 DEF ListInv, WaitsOnly
    <3> QED BY <2>1, <3>2, <3>3, ListsKept
  <2> QED BY <2>2, <2>3
<1>3. CASE StopRelease \/ StopDone
  <2>1. UNCHANGED <<waiting_threads, wait_objects, status>> /\ stop.pc = "mutexes"
    BY <1>3 DEF StopRelease, StopDone, StopAt, threadVars, objectVars
  <2>2. sync'.pc \in {"idle", "scan"}
    <3>1. sync' = sync \/ \E m : sync' = ScanOf(m)
      BY <1>3 DEF StopRelease, StopDone
    <3>2. \A o : ScanOf(o).pc = "scan"
      BY DEF ScanOf, SyncIdle
    <3> QED BY <1>1, <3>1, <3>2
  <2>3. WaitsOnly'
    BY <1>1, <2>1, WaitsKept
  <2> QED BY <2>1, <2>2, <2>3, ListsKept
<1>4. CASE TermStep
  <2>1. stop.pc = "idle"
    BY <1>4 DEF TermStep, TermVictim, TermCurrent, TermDone, TermAt, StopAt
  <2>2. CASE \E t \in Thread : BeginStop(t)
    BY <1>1, <2>1, <2>2, BeginStopLists
  <2>3. CASE UNCHANGED <<threadVars, objectVars, sync, stop>>
    <3>1. UNCHANGED <<waiting_threads, wait_objects, status, sync, stop>>
      BY <2>3 DEF threadVars, objectVars
    <3> QED BY <3>1, WaitsKept, ListsKept
  <2>4. CASE TermCurrent
    <3> DEFINE t == current_thread[term.core]
    <3>1. term.core \in Core
      BY <2>4, KernelAssumption DEF TermCurrent, TypeOK, Core
    <3>2. t \in Thread \cup {None}
      BY <3>1 DEF TypeOK
    <3>3. \/ t # None /\ BeginStop(t)
          \/ UNCHANGED <<threadVars, objectVars, sync, stop>>
      BY <2>4 DEF TermCurrent
    <3> HIDE DEF t
    <3> QED BY <2>2, <2>3, <3>2, <3>3
  <2> QED BY <1>4, <2>2, <2>3, <2>4 DEF TermStep, TermVictim, TermDone, Victims
<1> QED BY <1>2, <1>3, <1>4 DEF StopStep

\* The caller has no wait objects and is on no list when it starts to wait.
LEMMA WaitBlocksLists ==
    ASSUME TypeOK, PhaseOK, SchedInv, ListInv, NEW c \in Core, NEW all \in BOOLEAN, NEW list,
           NEW timed, WaitBlocks(c, all, list, timed)
    PROVE  ListInv'
<1> DEFINE t == current_thread[c]
           y == IF all THEN "WaitSynchAll" ELSE "WaitSynchAny"
<1>1. /\ Calls(c, t) /\ UNCHANGED <<waiting_threads, stop>>
      /\ status' = [status EXCEPT ![t] = y]
      /\ wait_objects' = [wait_objects EXCEPT ![t] = list]
  BY DEF WaitBlocks, objectVars
<1>2. t \in Thread /\ status[t] = "Running" /\ sync.pc = "idle" /\ stop.pc = "idle"
  BY <1>1, CallerRuns
<1>3. sync'.pc = "idle" \/ (sync'.pc = "add" /\ sync'.thr = t /\ sync'.todo = list)
  <2>1. \/ sync' = SyncIdle
        \/ sync' = [SyncIdle EXCEPT !.pc = "add", !.thr = t, !.todo = list]
    BY DEF WaitBlocks
  <2>2. CASE sync' = SyncIdle
    BY <2>2 DEF SyncIdle
  <2>3. CASE sync' = [SyncIdle EXCEPT !.pc = "add", !.thr = t, !.todo = list]
    <3> HIDE DEF t
    <3> QED BY <2>3 DEF SyncIdle
  <2> QED BY <2>1, <2>2, <2>3
<1>4. y \in Waiting
  BY DEF Waiting
<1> HIDE DEF t, y
<1>5. /\ \A u \in Thread : wait_objects'[u] = IF u = t THEN list ELSE wait_objects[u]
      /\ \A u \in Thread : status'[u] = IF u = t THEN y ELSE status[u]
  BY <1>1 DEF TypeOK
<1>6. wait_objects[t] = <<>>
  BY <1>2 DEF ListInv, WaitsOnly, Waiting
<1>7. \A o \in Object : t \notin Elems(waiting_threads[o])
  BY <1>6, EmptyElems DEF ListInv, OnlyWaiters
<1>8. OnlyWaiters'
  <2>1. \A o \in Object : \A u \in Elems(waiting_threads[o]) : u \in Thread /\ u # t
    BY <1>7, ListType
  <2> QED BY <1>1, <1>3, <1>5, <2>1 DEF ListInv, OnlyWaiters
<1>9. ListedOnce' /\ Adding'
  BY <1>1, <1>2, <1>3, <1>5 DEF ListInv, ListedOnce, Adding
<1>10. WaitsOnly'
  BY <1>1, <1>2, <1>4, <1>5 DEF ListInv, WaitsOnly
<1> QED BY <1>8, <1>9, <1>10 DEF ListInv

\* Between calls, a step that changes no list and lets every waiting thread wait on.
LEMMA IdleLists ==
    ASSUME TypeOK, ListInv, sync.pc = "idle", UNCHANGED <<waiting_threads, wait_objects, stop>>,
           \A t \in Thread : status[t] \in Waiting => status'[t] = status[t],
           UNCHANGED sync \/ sync'.pc \in {"idle", "scan", "acquire", "update"}
    PROVE  ListInv'
<1>1. WaitsOnly'
  BY WaitsKept
<1> QED BY <1>1, ListsKept

\* A thread that does not wait gets another status.
LEMMA OthersWaitOn ==
    ASSUME TypeOK, NEW t \in Thread, NEW y, status' = [status EXCEPT ![t] = y],
           status[t] \notin Waiting
    PROVE  \A u \in Thread : status[u] \in Waiting => status'[u] = status[u]
BY DEF TypeOK

LEMMA ThreadCallLists ==
    ASSUME TypeOK, PhaseOK, SchedInv, ListInv, NEW c \in Core, ThreadCall(c)
    PROVE  ListInv'
<1> DEFINE kept == <<waiting_threads, wait_objects, stop>>
<1>0. \A o : ScanOf(o).pc = "scan"
  BY DEF ScanOf, SyncIdle
<1>1. CASE WaitReturns(c)
  <2>1. UNCHANGED <<kept, status>> /\ Calls(c, current_thread[c])
    BY <1>1 DEF WaitReturns, WaitAcquires, threadVars, objectVars
  <2>2. sync'.pc = "acquire"
    <3>1. \E x, todo : sync' = [SyncIdle EXCEPT !.pc = "acquire", !.thr = x, !.todo = todo]
      BY <1>1 DEF WaitReturns, WaitAcquires
    <3> QED BY <3>1 DEF SyncIdle
  <2> QED BY <2>1, <2>2, CallerRuns, IdleLists
<1>2. CASE WaitBegins(c)
  BY <1>2, WaitBlocksLists DEF WaitBegins
<1>3. CASE \E timed \in BOOLEAN : SleepThread(c, timed)
  <2>1. /\ UNCHANGED <<kept, sync>> /\ Calls(c, current_thread[c])
        /\ status' = [status EXCEPT ![current_thread[c]] = "WaitSleep"]
    BY <1>3 DEF SleepThread, objectVars, callVars
  <2>2. \A u \in Thread : status[u] \in Waiting => status'[u] = status[u]
    BY <2>1, CallerRuns, OthersWaitOn DEF Waiting
  <2> QED BY <2>1, <2>2, CallerRuns, IdleLists
<1>4. CASE \E t \in Thread : CreateThread(c, t)
  <2>1. PICK t \in Thread : CreateThread(c, t)
    BY <1>4
  <2>2. /\ UNCHANGED <<kept, sync>> /\ Calls(c, current_thread[c])
        /\ status[t] = "None" /\ status' = [status EXCEPT ![t] = "Ready"]
    BY <2>1 DEF CreateThread, NewThread, objectVars
  <2>3. \A u \in Thread : status[u] \in Waiting => status'[u] = status[u]
    BY <2>2, OthersWaitOn DEF Waiting
  <2> QED BY <2>2, <2>3, CallerRuns, IdleLists
<1>5. CASE \E t \in Thread, p \in SetPriorities : SetThreadPriority(c, t, p)
  <2>1. UNCHANGED <<kept, status>> /\ Calls(c, current_thread[c])
    BY <1>5 DEF SetThreadPriority, objectVars
  <2>2. sync'.pc \in {"idle", "update"}
    BY <1>5 DEF SetThreadPriority, SyncIdle
  <2> QED BY <2>1, <2>2, CallerRuns, IdleLists
<1>6. CASE ExitThread(c)
  <2>1. Calls(c, current_thread[c]) /\ BeginStop(current_thread[c])
    BY <1>6 DEF ExitThread
  <2>2. current_thread[c] \in Thread /\ sync.pc = "idle" /\ stop.pc = "idle"
    BY <2>1, CallerRuns
  <2> QED BY <2>1, <2>2, BeginStopLists
<1>7. CASE \/ \E p \in Process : TerminateProcess(c, p)
           \/ \E p \in Process, S \in Controllable, stopped \in BOOLEAN :
                ControlProcess(c, p, S, stopped)
           \/ \E e \in Event : ClearEvent(c, e)
  <2>1. UNCHANGED <<kept, status, sync>> /\ Calls(c, current_thread[c])
    BY <1>7 DEF TerminateProcess, ControlProcess, ClearEvent, threadVars, objectVars, callVars
  <2> QED BY <2>1, CallerRuns, IdleLists
<1>8. CASE \E m \in Mutex : ReleaseMutex(c, m)
  <2>1. /\ UNCHANGED <<kept, status>> /\ Calls(c, current_thread[c])
        /\ UNCHANGED sync \/ \E m \in Mutex : sync' = ScanOf(m)
    BY <1>8 DEF ReleaseMutex
  <2> QED BY <1>0, <2>1, CallerRuns, IdleLists
<1>9. CASE \/ \E s \in Semaphore, n \in ReleaseCounts : ReleaseSemaphore(c, s, n)
           \/ \E e \in Event : SignalEvent(c, e)
  <2>1. /\ UNCHANGED <<kept, status>> /\ Calls(c, current_thread[c])
        /\ \E o : sync' = ScanOf(o)
    BY <1>9 DEF ReleaseSemaphore, SignalEvent, Signal, threadVars
  <2> QED BY <1>0, <2>1, CallerRuns, IdleLists
<1> QED BY <1>1, <1>2, <1>3, <1>4, <1>5, <1>6, <1>7, <1>8, <1>9 DEF ThreadCall

LEMMA TimeoutLists ==
    ASSUME TypeOK, PhaseOK, SchedInv, ListInv, NEW t \in Thread, TimeoutFires(t)
    PROVE  ListInv'
<1>1. UNCHANGED <<waiting_threads, wait_objects, stop>> /\ sync.pc = "idle" /\ t \in wakeups
  BY Idle DEF TimeoutFires, objectVars
<1>2. CASE WaitTimesOut(t)
  <2>1. /\ sync' = [SyncIdle EXCEPT !.pc = "remove", !.thr = t, !.todo = wait_objects[t]]
        /\ status' = status
    BY <1>2 DEF TimeoutFires
  <2>2. sync'.pc = "remove" /\ sync'.thr = t /\ sync'.todo = wait_objects[t]
    BY <2>1 DEF SyncIdle
  <2>3. WaitsOnly'
    BY <1>1, <2>1, WaitsKept
  <2> QED BY <1>1, <2>2, <2>3, ListsKept
<1>3. CASE ~WaitTimesOut(t)
  <2>1. ResumeFromWait(t) /\ sync' = sync
    BY <1>3 DEF TimeoutFires
  <2>2. \A u \in Thread : status[u] \in Waiting => status'[u] = status[u]
    BY <1>3, <2>1 DEF ResumeFromWait, WaitTimesOut, TypeOK
  <2> QED BY <1>1, <2>1, <2>2, IdleLists
<1> QED BY <1>2, <1>3

LEMMA StepLists ==
    ASSUME TypeOK, PhaseOK, SchedInv, ListInv, [Next]_vars
    PROVE  ListInv'
<1>1. CASE SyncStep
  BY <1>1, SyncLists
<1>2. CASE StopStep \/ TermStep
  BY <1>2, OuterLists
<1>3. CASE \E c \in Core : ThreadCall(c)
  BY <1>3, ThreadCallLists
<1>4. CASE \E c \in Core : Reschedule(c)
  <2>1. PICK c \in Core : Reschedule(c)
    BY <1>4
  <2>2. UNCHANGED <<waiting_threads, wait_objects, stop, sync>> /\ sync.pc = "idle"
    BY <2>1, Idle DEF Reschedule, RescheduleCore, objectVars
  <2>3. \A u \in Thread : status[u] \in Waiting => status'[u] = status[u]
    BY <2>1, RescheduleSched DEF Switches, Waiting
  <2> QED BY <2>2, <2>3, IdleLists
<1>5. CASE \E t \in Thread : TimeoutFires(t)
  BY <1>5, TimeoutLists
<1>6. CASE \E t \in Thread, delayed \in BOOLEAN : ProcessRun(t, delayed)
  <2>1. PICK t \in Thread, delayed \in BOOLEAN : ProcessRun(t, delayed)
    BY <1>6
  <2>2. /\ UNCHANGED <<waiting_threads, wait_objects, stop, sync>> /\ sync.pc = "idle"
        /\ process_status[ProcessOf[t]] = "Created"
        /\ \E y : status' = [status EXCEPT ![t] = y]
    BY <2>1, Idle DEF ProcessRun, NewThread, objectVars
  <2>3. status[t] = "None"
    BY <2>2 DEF SchedInv, Births
  <2>4. \A u \in Thread : status[u] \in Waiting => status'[u] = status[u]
    BY <2>2, <2>3, OthersWaitOn DEF Waiting
  <2> QED BY <2>2, <2>4, IdleLists
<1>7. CASE \E e \in Event : ServiceSignal(e)
  <2>1. /\ UNCHANGED <<waiting_threads, wait_objects, stop, status>> /\ sync.pc = "idle"
        /\ \E o : sync' = ScanOf(o)
    BY <1>7, Idle DEF ServiceSignal, Signal, threadVars
  <2>2. \A o : ScanOf(o).pc = "scan"
    BY DEF ScanOf, SyncIdle
  <2> QED BY <2>1, <2>2, IdleLists
<1>8. CASE UNCHANGED vars
  <2>1. UNCHANGED <<waiting_threads, wait_objects, stop, status, sync>>
    BY <1>8 DEF vars, threadVars, objectVars, callVars
  <2> QED BY <2>1, WaitsKept, ListsKept
<1> QED BY <1>1, <1>2, <1>3, <1>4, <1>5, <1>6, <1>7, <1>8 DEF Next, KernelStep

LEMMA InitLists == Init => ListInv
<1> SUFFICES ASSUME Init PROVE ListInv
  OBVIOUS
<1>1. /\ \A o \in Object : waiting_threads[o] = <<>>
      /\ \A t \in Thread : wait_objects[t] = <<>>
  BY DEF Init
<1>2. Elems(<<>>) = {} /\ Distinct(<<>>)
  BY DEF Elems, Distinct
<1>3. sync.pc = "idle"
  BY DEF Init, SyncIdle
<1> QED BY <1>1, <1>2, <1>3 DEF ListInv, ListedOnce, OnlyWaiters, Adding, WaitsOnly

LEMMA ListsAgree == Spec => [](TypeOK /\ PhaseOK /\ SchedInv /\ ListInv)
<1>1. Init => TypeOK /\ PhaseOK /\ SchedInv /\ ListInv
  BY InitType, InitSched, InitLists
<1>2. TypeOK /\ PhaseOK /\ SchedInv /\ ListInv /\ [Next]_vars
        => (TypeOK /\ PhaseOK /\ SchedInv /\ ListInv)'
  BY StepType, StepSched, StepLists
<1> QED BY <1>1, <1>2, PTL DEF Spec

\* AddWaitingThread, RemoveWaitingThread and Stop: between calls an object lists
\* exactly the threads that wait for it, each once.
THEOREM WaitListsAreExact == Spec => []WaitListsExact
<1>1. Spec => []WaitInv
  BY NothingLostInv
<1>2. TypeOK /\ ListInv /\ WaitInv => WaitListsExact
  <2> SUFFICES ASSUME TypeOK, ListInv, WaitInv, KernelIdle
               PROVE  /\ \A o \in Object, t \in Thread :
                           t \in Elems(waiting_threads[o]) <=> o \in Elems(wait_objects[t])
                      /\ \A o \in Object : Distinct(waiting_threads[o])
                      /\ \A t \in Thread : wait_objects[t] # <<>> => status[t] \in Waiting
    BY DEF WaitListsExact, Distinct
  <2>1. sync.pc = "idle" /\ stop.pc = "idle"
    BY DEF KernelIdle
  <2>2. \A t \in Thread : wait_objects[t] # <<>> => status[t] \in Waiting
    BY <2>1 DEF ListInv, WaitsOnly
  <2>3. ASSUME NEW o \in Object, NEW t \in Thread, o \in Elems(wait_objects[t])
        PROVE  t \in Elems(waiting_threads[o])
    <3>1. status[t] \in Waiting
      BY <2>2, <2>3, EmptyElems
    <3> QED BY <2>1, <2>3, <3>1 DEF WaitInv, Listed
  <2> QED BY <2>2, <2>3 DEF ListInv, ListedOnce, OnlyWaiters
<1> QED BY <1>1, <1>2, ListsAgree, PTL

-------------------------------------------------------------------------------
(* The kernel's assertions                                                 *)

\* What a guest must keep to: it does not pass the handle of a process that has
\* exited, names no object twice in one wait, and does not wait for itself.
WellBehaved ==
    /\ ~StaleHandles
    /\ \A t \in Thread : \A list \in WaitLists[t] : Distinct(list) /\ t \notin Elems(list)

\* A thread waits for a list it passed.
Handed == \A t \in Thread : wait_objects[t] = <<>> \/ wait_objects[t] \in WaitLists[t]

\* Until a thread that is being stopped leaves its lists, only the threads that
\* wait for it are woken.
Detaching ==
    stop.pc = "detach" =>
      /\ sync.pc \in {"idle", "scan", "acquire", "remove"}
      /\ sync.pc # "idle" => sync.obj = stop.thr

\* What is left to acquire is still available, and nothing is acquired twice.
Acquiring ==
    sync.pc = "acquire" =>
      /\ Distinct(sync.todo)
      /\ \A o \in Elems(sync.todo) : o \in Semaphore \/ ~ShouldWait(o, sync.thr)

PanicInv == Handed /\ Detaching /\ Acquiring /\ NoPanic

\* The list of an object that is being scanned only holds waiting threads.
LEMMA Consistent ==
    ASSUME TypeOK, PhaseOK, ListInv, PanicInv, WellBehaved, sync.pc = "scan"
    PROVE  ~Inconsistent(sync.obj)
<1>1. sync.obj \in Object
  BY DEF PhaseOK
<1> SUFFICES ASSUME NEW t \in Elems(waiting_threads[sync.obj]) PROVE status[t] \in Waiting
  BY DEF Inconsistent
<1>2. t \in Thread /\ sync.obj \in Elems(wait_objects[t])
  BY <1>1, ListType DEF ListInv, OnlyWaiters
<1>3. wait_objects[t] # <<>>
  BY <1>2, EmptyElems
<1>4. t \notin Elems(wait_objects[t])
  BY <1>2, <1>3 DEF PanicInv, Handed, WellBehaved
<1>5. CASE stop.pc = "detach" /\ stop.thr = t
  BY <1>2, <1>4, <1>5 DEF PanicInv, Detaching
<1> QED BY <1>2, <1>3, <1>5 DEF ListInv, WaitsOnly

\* Acquiring one object takes no other one away.
LEMMA AcquireLeaves ==
    ASSUME TypeOK, NEW x \in Object, NEW u \in Thread, Acquire(x, u), UNCHANGED status,
           NEW o \in Object, o # x, ~ShouldWait(o, u)
    PROVE  ~ShouldWait(o, u)'
<1>1. CASE x \in Mutex /\ AcquireMutex(x, u)
  <2>1. /\ UNCHANGED <<available_count, signaled>>
        /\ \A m \in Mutex : m # x => lock_count'[m] = lock_count[m]
                                     /\ holding_thread'[m] = holding_thread[m]
    BY <1>1 DEF AcquireMutex, TypeOK
  <2> QED BY <2>1 DEF ShouldWait
<1>2. CASE x \in Semaphore /\ AcquireSemaphore(x)
  <2>1. /\ UNCHANGED <<lock_count, holding_thread, signaled>>
        /\ \A s \in Semaphore : s # x => available_count'[s] = available_count[s]
    BY <1>2 DEF AcquireSemaphore, mutexVars, TypeOK
  <2> QED BY <2>1 DEF ShouldWait
<1>3. CASE x \in Event /\ AcquireEvent(x)
  <2>1. /\ UNCHANGED <<lock_count, holding_thread, available_count>>
        /\ \A e \in Event : e # x => signaled'[e] = signaled[e]
    BY <1>3 DEF AcquireEvent, mutexVars, TypeOK
  <2> QED BY <2>1 DEF ShouldWait
<1>4. CASE UNCHANGED <<available_count, signaled, mutexVars>>
  BY <1>4 DEF ShouldWait, mutexVars
<1> QED BY <1>1, <1>2, <1>3, <1>4 DEF Acquire

LEMMA WakeNextPanic ==
    ASSUME TypeOK, PhaseOK, ListInv, PanicInv, WellBehaved, WakeNext
    PROVE  PanicInv'
<1>1. /\ sync.pc = "scan" /\ sync.obj \in Object
      /\ UNCHANGED <<threadVars, objectVars, stop, panic>>
  BY DEF WakeNext, SyncAt, PhaseOK
<1>2. PICK i \in 1 .. Len(waiting_threads[sync.obj]) :
        LET t == waiting_threads[sync.obj][i]
        IN  /\ IsHighestPriorityReady(sync.obj, i)
            /\ sync' = [sync EXCEPT !.pc = "acquire", !.thr = t,
                            !.todo = IF status[t] = "WaitSynchAll" THEN wait_objects[t]
                                     ELSE <<sync.obj>>]
  BY DEF WakeNext
<1>3. PICK t : t = waiting_threads[sync.obj][i]
  OBVIOUS
<1> DEFINE todo == IF status[t] = "WaitSynchAll" THEN wait_objects[t] ELSE <<sync.obj>>
<1>4. t \in Thread /\ sync.obj \in Elems(wait_objects[t])
  <2>1. t \in Elems(waiting_threads[sync.obj])
    BY <1>3 DEF Elems
  <2> QED BY <1>1, <2>1, ListType DEF ListInv, OnlyWaiters
<1>5. ReadyToRun(sync.obj, t)
  BY <1>2, <1>3 DEF IsHighestPriorityReady
<1>6. sync' = [sync EXCEPT !.pc = "acquire", !.thr = t, !.todo = todo]
  BY <1>2, <1>3
<1>7. Distinct(todo) /\ \A o \in Elems(todo) : ~ShouldWait(o, t)
  <2>1. CASE status[t] = "WaitSynchAll"
    <3>1. wait_objects[t] \in WaitLists[t]
      BY <1>4, EmptyElems DEF PanicInv, Handed
    <3> QED BY <1>4, <1>5, <2>1, <3>1 DEF WellBehaved, ReadyToRun
  <2>2. CASE status[t] # "WaitSynchAll"
    <3>1. Distinct(<<sync.obj>>) /\ Elems(<<sync.obj>>) = {sync.obj}
      BY DEF Distinct, Elems
    <3> QED BY <1>5, <2>2, <3>1 DEF ReadyToRun
  <2> QED BY <2>1, <2>2
<1> HIDE DEF todo
<1>8. sync'.pc = "acquire" /\ sync'.thr = t /\ sync'.todo = todo /\ sync'.obj = sync.obj
  BY <1>6 DEF TypeOK
<1>9. \A o : ShouldWait(o, t)' <=> ShouldWait(o, t)
  BY <1>1 DEF ShouldWait, threadVars, objectVars
<1>10. Acquiring'
  BY <1>7, <1>8, <1>9 DEF Acquiring
<1>11. Handed' /\ Detaching' /\ NoPanic'
  BY <1>1, <1>8 DEF PanicInv, Handed, Detaching, NoPanic, threadVars
<1> QED BY <1>10, <1>11 DEF PanicInv

LEMMA AcquireNextPanic ==
    ASSUME TypeOK, PhaseOK, PanicInv, AcquireNext
    PROVE  PanicInv'
<1>0. PICK x, u : x = Head(sync.todo) /\ u = sync.thr
  OBVIOUS
<1>1. /\ sync.pc = "acquire" /\ sync.todo # <<>> /\ u \in Thread
      /\ sync' = [sync EXCEPT !.todo = Tail(@)]
      /\ UNCHANGED <<status, wait_objects, stop>>
  BY <1>0 DEF AcquireNext, SyncAt, PhaseOK, keptVars
<1>2. sync.todo \in Seq(Object)
  BY DEF TypeOK
<1>3. /\ x \in Object /\ Tail(sync.todo) \in Seq(Object)
      /\ Elems(sync.todo) = {x} \cup Elems(Tail(sync.todo))
      /\ Distinct(Tail(sync.todo)) /\ x \notin Elems(Tail(sync.todo))
  BY <1>0, <1>1, <1>2, HeadAndTail DEF PanicInv, Acquiring
<1>4. x \in Semaphore \/ ~ShouldWait(x, u)
  BY <1>0, <1>1, <1>3 DEF PanicInv, Acquiring
<1>5. Acquire(x, u) /\ UNCHANGED panic
  BY <1>0, <1>4 DEF AcquireNext
<1>6. /\ sync'.pc = "acquire" /\ sync'.thr = u /\ sync'.obj = sync.obj
      /\ sync'.todo = Tail(sync.todo)
  BY <1>0, <1>1 DEF TypeOK
<1>7. ASSUME NEW o \in Elems(Tail(sync.todo)) PROVE o \in Semaphore \/ ~ShouldWait(o, u)'
  <2>1. o \in Object
    BY <1>3 DEF Elems
  <2>2. o # x /\ (o \in Semaphore \/ ~ShouldWait(o, u))
    BY <1>0, <1>1, <1>3 DEF PanicInv, Acquiring
  <2> QED BY <1>1, <1>3, <1>5, <2>1, <2>2, AcquireLeaves
<1>8. Acquiring'
  BY <1>3, <1>6, <1>7 DEF Acquiring
<1>9. Handed' /\ Detaching' /\ NoPanic'
  BY <1>1, <1>5, <1>6 DEF PanicInv, Handed, Detaching, NoPanic
<1> QED BY <1>8, <1>9 DEF PanicInv

\* A step that fails no assertion, hands no list and starts no acquisition.
LEMMA PanicKept ==
    ASSUME PanicInv, UNCHANGED <<wait_objects, panic>>, sync'.pc # "acquire", Detaching'
    PROVE  PanicInv'
BY DEF PanicInv, Handed, Acquiring, NoPanic

\* The thread is resumed once: it waits, sleeps, or has just been made ready.
LEMMA ResumeAsserts ==
    ASSUME SchedInv, NEW t \in Thread, ResumeFromWait(t), status[t] \in Resumable \cup {"Ready"}
    PROVE  panic' = panic
<1>1. status[t] = "Ready" => ~wakeup_callback[t]
  BY DEF SchedInv, Callbacks, Waiting
<1> QED BY <1>1 DEF ResumeFromWait

LEMMA RemoveDonePanic ==
    ASSUME TypeOK, PhaseOK, SchedInv, PanicInv, RemoveDone
    PROVE  PanicInv'
<1>1. PICK t \in Thread : t = sync.thr
  BY DEF RemoveDone, SyncAt, PhaseOK
<1>2. /\ sync.pc \in {"remove", "detach"} /\ UNCHANGED stop
      /\ wait_objects' = [wait_objects EXCEPT ![t] = <<>>]
  BY <1>1 DEF RemoveDone, SyncAt, keptVars
<1>3. \/ sync'.pc = "idle"
      \/ sync'.pc = "scan" /\ sync'.obj = sync.obj
  <2>1. \/ sync' = SyncIdle
        \/ sync' = [SyncIdle EXCEPT !.pc = "scan", !.obj = sync.obj]
    BY DEF RemoveDone, LoopOn
  <2>2. CASE sync' = SyncIdle
    BY <2>2 DEF SyncIdle
  <2>3. CASE sync' = [SyncIdle EXCEPT !.pc = "scan", !.obj = sync.obj]
    <3>1. PICK o : o = sync.obj
      OBVIOUS
    <3>2. sync' = [SyncIdle EXCEPT !.pc = "scan", !.obj = o]
      BY <2>3, <3>1
    <3> QED BY <3>1, <3>2 DEF SyncIdle
  <2> QED BY <2>1, <2>2, <2>3
<1>4. panic' = panic
  <2>1. CASE sync.pc = "remove"
    <3>1. ResumeFromWait(t) /\ status[t] \in Resumable
      BY <1>1, <2>1 DEF RemoveDone, SchedInv, Loops, Resumable
    <3> QED BY <3>1, ResumeAsserts
  <2>2. CASE sync.pc # "remove"
    BY <2>2 DEF RemoveDone
  <2> QED BY <2>1, <2>2
<1>5. Handed'
  <2>1. \A u \in Thread : wait_objects'[u] = wait_objects[u] \/ wait_objects'[u] = <<>>
    BY <1>2 DEF TypeOK
  <2> QED BY <2>1 DEF PanicInv, Handed
<1>6. Detaching' /\ Acquiring' /\ NoPanic'
  BY <1>2, <1>3, <1>4 DEF PanicInv, Detaching, Acquiring, NoPanic
<1> QED BY <1>5, <1>6 DEF PanicInv

LEMMA SyncPanic ==
    ASSUME TypeOK, PhaseOK, SchedInv, ListInv, PanicInv, WellBehaved, SyncStep
    PROVE  PanicInv'
<1>1. CASE WakeupDone
  <2>1. sync.pc = "scan" /\ UNCHANGED <<wait_objects, stop>>
    BY <1>1 DEF WakeupDone, SyncAt, threadVars
  <2>2. ~Inconsistent(sync.obj)
    BY <2>1, Consistent
  <2>3. sync' = SyncIdle /\ UNCHANGED panic
    BY <1>1, <2>2 DEF WakeupDone
  <2>4. sync'.pc = "idle"
    BY <2>3 DEF SyncIdle
  <2> QED BY <2>1, <2>3, <2>4, PanicKept DEF Detaching
<1>2. CASE AcquireDone
  <2>1. sync.pc = "acquire" /\ UNCHANGED <<wait_objects, stop, panic>>
    BY <1>2 DEF AcquireDone, SyncAt, keptVars
  <2>2. \/ sync'.pc = "idle"
        \/ sync'.pc = "remove" /\ sync'.obj = sync.obj
    <3>1. \/ sync' = SyncIdle
          \/ sync' = [sync EXCEPT !.pc = "remove", !.todo = wait_objects[sync.thr]]
      BY <1>2 DEF AcquireDone, Leaves
    <3>2. CASE sync' = SyncIdle
      BY <3>2 DEF SyncIdle
    <3>3. CASE sync' = [sync EXCEPT !.pc = "remove", !.todo = wait_objects[sync.thr]]
      BY <3>3 DEF TypeOK
    <3> QED BY <3>1, <3>2, <3>3
  <2>3. Detaching'
    BY <2>1, <2>2 DEF PanicInv, Detaching
  <2> QED BY <2>1, <2>2, <2>3, PanicKept
<1>3. CASE RemoveNext
  <2>1. sync.pc \in {"remove", "detach"} /\ UNCHANGED <<wait_objects, stop, panic>>
    BY <1>3 DEF RemoveNext, SyncAt, keptVars
  <2>2. sync'.pc = sync.pc /\ sync'.obj = sync.obj
    BY <1>3 DEF RemoveNext, TypeOK
  <2>3. Detaching'
    BY <2>1, <2>2 DEF PanicInv, Detaching
  <2> QED BY <2>1, <2>2, <2>3, PanicKept
<1>4. CASE AddNext \/ UpdateNext
  <2>1. sync.pc \in {"add", "update"} /\ UNCHANGED <<wait_objects, stop, panic>>
    BY <1>4 DEF AddNext, UpdateNext, SyncAt, keptVars
  <2>2. sync'.pc \in {"idle", "add", "update"}
    <3>1. \/ sync' = SyncIdle
          \/ sync' = [sync EXCEPT !.todo = Tail(@)]
          \/ \E m : sync' = [sync EXCEPT !.muts = @ \ {m}]
      BY <1>4 DEF AddNext, UpdateNext
    <3>2. CASE sync' = SyncIdle
      BY <3>2 DEF SyncIdle
    <3>3. CASE sync' = [sync EXCEPT !.todo = Tail(@)]
      BY <2>1, <3>3 DEF TypeOK
    <3>4. CASE \E m : sync' = [sync EXCEPT !.muts = @ \ {m}]
      BY <2>1, <3>4 DEF TypeOK
    <3> QED BY <3>1, <3>2, <3>3, <3>4
  <2>3. Detaching'
    BY <2>1 DEF PanicInv, Detaching
  <2> QED BY <2>1, <2>2, <2>3, PanicKept
<1> QED BY <1>1, <1>2, <1>3, <1>4, WakeNextPanic, AcquireNextPanic, RemoveDonePanic DEF SyncStep

LEMMA BeginStopPanic ==
    ASSUME PanicInv, NEW t \in Thread, BeginStop(t)
    PROVE  PanicInv'
<1>1. /\ sync' = ScanOf(t) /\ stop' = [pc |-> "detach", thr |-> t, muts |-> {}]
      /\ UNCHANGED <<wait_objects, panic>>
  BY DEF BeginStop
<1>2. sync'.pc = "scan" /\ sync'.obj = t /\ stop'.thr = t
  BY <1>1 DEF ScanOf, SyncIdle
<1> QED BY <1>1, <1>2, PanicKept DEF Detaching

LEMMA OuterPanic ==
    ASSUME TypeOK, PhaseOK, PanicInv, StopStep \/ TermStep
    PROVE  PanicInv'
<1>1. sync.pc = "idle"
  BY DEF StopStep, StopDetach, StopRelease, StopDone, TermStep, TermVictim, TermCurrent, TermDone,
        TermAt, StopAt
<1>2. CASE StopStep
  <2>1. UNCHANGED <<wait_objects, panic>>
    BY <1>2 DEF StopStep, StopDetach, StopRelease, StopDone, threadVars
  <2>2. stop'.pc # "detach"
    <3>1. \/ \E M : stop' = [stop EXCEPT !.pc = "mutexes", !.muts = M]
          \/ stop.pc = "mutexes" /\ \E M : stop' = [stop EXCEPT !.muts = M]
          \/ stop' = StopIdle
      BY <1>2 DEF StopStep, StopDetach, StopRelease, StopDone, StopAt
    <3>2. CASE \E M : stop' = [stop EXCEPT !.pc = "mutexes", !.muts = M]
      BY <3>2 DEF TypeOK
    <3>3. CASE stop.pc = "mutexes" /\ \E M : stop' = [stop EXCEPT !.muts = M]
      BY <3>3 DEF TypeOK
    <3>4. CASE stop' = StopIdle
      BY <3>4 DEF StopIdle
    <3> QED BY <3>1, <3>2, <3>3, <3>4
  <2>3. sync'.pc # "acquire"
    <3>1. \/ sync' = sync
          \/ sync' = SyncIdle
          \/ \E m : sync' = ScanOf(m)
          \/ \E u, todo : sync' = [SyncIdle EXCEPT !.pc = "detach", !.thr = u, !.todo = todo]
      BY <1>2 DEF StopStep, StopDetach, StopRelease, StopDone
    <3>2. SyncIdle.pc = "idle" /\ \A m : ScanOf(m).pc = "scan"
      BY DEF SyncIdle, ScanOf
    <3>3. CASE \E u, todo : sync' = [SyncIdle EXCEPT !.pc = "detach", !.thr = u, !.todo = todo]
      BY <3>3 DEF SyncIdle
    <3> QED BY <1>1, <3>1, <3>2, <3>3
  <2> QED BY <2>1, <2>2, <2>3, PanicKept DEF Detaching
<1>3. CASE TermStep
  <2>1. CASE \E t \in Thread : BeginStop(t)
    BY <2>1, BeginStopPanic
  <2>2. CASE UNCHANGED <<threadVars, sync, stop, panic>>
    <3>1. UNCHANGED <<wait_objects, sync, stop, panic>>
      BY <2>2 DEF threadVars
    <3> QED BY <1>1, <3>1, PanicKept DEF PanicInv, Detaching
  <2>3. CASE TermCurrent
    <3> DEFINE t == current_thread[term.core]
    <3>1. term.core \in Core
      BY <2>3, KernelAssumption DEF TermCurrent, TypeOK, Core
    <3>2. t \in Thread \cup {None}
      BY <3>1 DEF TypeOK
    <3>3. \/ t # None /\ BeginStop(t)
          \/ UNCHANGED <<threadVars, sync, stop, panic>>
      BY <2>3 DEF TermCurrent
    <3> HIDE DEF t
    <3> QED BY <2>1, <2>2, <3>2, <3>3
  <2> QED BY <1>3, <2>1, <2>2, <2>3 DEF TermStep, TermVictim, TermDone, Victims
<1> QED BY <1>2, <1>3

\* Between calls nothing is being stopped.
LEMMA IdlePanic ==
    ASSUME PanicInv, UNCHANGED <<wait_objects, stop, panic>>, stop.pc = "idle",
           sync'.pc # "acquire"
    PROVE  PanicInv'
<1>1. Detaching'
  BY DEF Detaching
<1> QED BY <1>1, PanicKept

\* What is acquired directly was found available by the same call.
LEMMA WaitAcquiresPanic ==
    ASSUME TypeOK, SchedInv, PanicInv, WellBehaved, NEW c \in Core, NEW all \in BOOLEAN,
           NEW t \in Thread, current_thread[c] = t, NEW list \in WaitLists[t],
           WaitAcquires(c, all, list)
    PROVE  PanicInv'
<1>1. /\ Calls(c, t) /\ UNCHANGED <<threadVars, objectVars, stop, panic>>
      /\ \/ /\ Available(list, t) = 1 .. Len(list)
            /\ sync' = [SyncIdle EXCEPT !.pc = "acquire", !.thr = t, !.todo = list]
         \/ \E i \in Available(list, t) :
              sync' = [SyncIdle EXCEPT !.pc = "acquire", !.thr = t, !.todo = <<list[i]>>]
  BY DEF WaitAcquires
<1>2. stop.pc = "idle"
  BY <1>1, CallerRuns
<1>3. \E todo : /\ sync' = [SyncIdle EXCEPT !.pc = "acquire", !.thr = t, !.todo = todo]
                /\ Distinct(todo) /\ \A o \in Elems(todo) : ~ShouldWait(o, t)
  <2>1. CASE /\ Available(list, t) = 1 .. Len(list)
             /\ sync' = [SyncIdle EXCEPT !.pc = "acquire", !.thr = t, !.todo = list]
    <3>1. \A i \in 1 .. Len(list) : ~ShouldWait(list[i], t)
      BY <2>1 DEF Available
    <3>2. \A o \in Elems(list) : ~ShouldWait(o, t)
      BY <3>1 DEF Elems
    <3>3. Distinct(list)
      BY DEF WellBehaved
    <3> QED BY <2>1, <3>2, <3>3
  <2>2. ASSUME NEW i \in Available(list, t),
               sync' = [SyncIdle EXCEPT !.pc = "acquire", !.thr = t, !.todo = <<list[i]>>]
        PROVE  \E todo : /\ sync' = [SyncIdle EXCEPT !.pc = "acquire", !.thr = t, !.todo = todo]
                         /\ Distinct(todo) /\ \A o \in Elems(todo) : ~ShouldWait(o, t)
    <3>1. ~ShouldWait(list[i], t)
      BY DEF Available
    <3>2. \A x : Distinct(<<x>>) /\ Elems(<<x>>) = {x}
      BY DEF Distinct, Elems
    <3>3. Distinct(<<list[i]>>) /\ \A o \in Elems(<<list[i]>>) : ~ShouldWait(o, t)
      BY <3>1, <3>2
    <3> QED BY <2>2, <3>3
  <2> QED BY <1>1, <2>1, <2>2
<1>4. PICK todo : /\ sync' = [SyncIdle EXCEPT !.pc = "acquire", !.thr = t, !.todo = todo]
                  /\ Distinct(todo) /\ \A o \in Elems(todo) : ~ShouldWait(o, t)
  BY <1>3
<1>5. sync'.thr = t /\ sync'.todo = todo
  BY <1>4 DEF SyncIdle
<1>6. \A o : ShouldWait(o, t)' <=> ShouldWait(o, t)
  BY <1>1 DEF ShouldWait, threadVars, objectVars
<1>7. Acquiring'
  BY <1>4, <1>5, <1>6 DEF Acquiring
<1>8. Handed' /\ Detaching' /\ NoPanic'
  BY <1>1, <1>2 DEF PanicInv, Handed, Detaching, NoPanic, threadVars
<1> QED BY <1>7, <1>8 DEF PanicInv

LEMMA WaitBlocksPanic ==
    ASSUME TypeOK, SchedInv, PanicInv, NEW c \in Core, NEW all \in BOOLEAN,
           NEW timed \in BOOLEAN, NEW t \in Thread, current_thread[c] = t,
           NEW list \in WaitLists[t], WaitBlocks(c, all, list, timed)
    PROVE  PanicInv'
<1>1. /\ Calls(c, t) /\ UNCHANGED <<stop, panic>>
      /\ wait_objects' = [wait_objects EXCEPT ![t] = list]
      /\ \/ sync' = SyncIdle
         \/ sync' = [SyncIdle EXCEPT !.pc = "add", !.thr = t, !.todo = list]
  BY DEF WaitBlocks
<1>2. sync'.pc \in {"idle", "add"} /\ stop.pc = "idle"
  <2>1. SyncIdle.pc = "idle"
    BY DEF SyncIdle
  <2>2. CASE sync' = [SyncIdle EXCEPT !.pc = "add", !.thr = t, !.todo = list]
    BY <1>1, <2>2, CallerRuns DEF SyncIdle
  <2> QED BY <1>1, <2>1, <2>2, CallerRuns
<1>3. Handed'
  <2>1. \A u \in Thread : wait_objects'[u] = IF u = t THEN list ELSE wait_objects[u]
    BY <1>1 DEF TypeOK
  <2> QED BY <2>1 DEF PanicInv, Handed
<1>4. Detaching' /\ Acquiring' /\ NoPanic'
  BY <1>1, <1>2 DEF PanicInv, Detaching, Acquiring, NoPanic
<1> QED BY <1>3, <1>4 DEF PanicInv

LEMMA ThreadCallPanic ==
    ASSUME TypeOK, PhaseOK, SchedInv, PanicInv, WellBehaved, NEW c \in Core, ThreadCall(c)
    PROVE  PanicInv'
<1>0. SyncIdle.pc = "idle" /\ \A o : ScanOf(o).pc = "scan"
  BY DEF ScanOf, SyncIdle
<1>1. CASE WaitReturns(c)
  BY <1>1, WaitAcquiresPanic DEF WaitReturns
<1>2. CASE WaitBegins(c)
  BY <1>2, WaitBlocksPanic DEF WaitBegins
<1>3. CASE \/ \E timed \in BOOLEAN : SleepThread(c, timed)
           \/ \E t \in Thread : CreateThread(c, t)
           \/ \E p \in Process, S \in Controllable, stopped \in BOOLEAN :
                ControlProcess(c, p, S, stopped)
           \/ \E e \in Event : ClearEvent(c, e)
  <2>1. Calls(c, current_thread[c]) /\ UNCHANGED <<wait_objects, stop, panic, sync>>
    BY <1>3 DEF SleepThread, CreateThread, ControlProcess, ClearEvent, threadVars, callVars
  <2> QED BY <2>1, CallerRuns, IdlePanic
<1>4. CASE \E t \in Thread, p \in SetPriorities : SetThreadPriority(c, t, p)
  <2>1. Calls(c, current_thread[c]) /\ UNCHANGED <<wait_objects, stop, panic>>
    BY <1>4 DEF SetThreadPriority
  <2>2. sync'.pc \in {"idle", "update"}
    BY <1>4 DEF SetThreadPriority, SyncIdle
  <2> QED BY <2>1, <2>2, CallerRuns, IdlePanic
<1>5. CASE ExitThread(c)
  <2>1. Calls(c, current_thread[c]) /\ BeginStop(current_thread[c])
    BY <1>5 DEF ExitThread
  <2>2. current_thread[c] \in Thread
    BY <2>1, CallerRuns
  <2> QED BY <2>1, <2>2, BeginStopPanic
<1>6. CASE \E p \in Process : TerminateProcess(c, p)
  <2>1. Calls(c, current_thread[c]) /\ UNCHANGED <<wait_objects, stop, panic, sync>>
    BY <1>6 DEF TerminateProcess, threadVars, WellBehaved
  <2> QED BY <2>1, CallerRuns, IdlePanic
<1>7. CASE \E m \in Mutex : ReleaseMutex(c, m)
  <2>1. /\ Calls(c, current_thread[c]) /\ UNCHANGED <<wait_objects, stop, panic>>
        /\ UNCHANGED sync \/ \E m \in Mutex : sync' = ScanOf(m)
    BY <1>7 DEF ReleaseMutex
  <2> QED BY <1>0, <2>1, CallerRuns, IdlePanic
<1>8. CASE \/ \E s \in Semaphore, n \in ReleaseCounts : ReleaseSemaphore(c, s, n)
           \/ \E e \in Event : SignalEvent(c, e)
  <2>1. /\ Calls(c, current_thread[c]) /\ UNCHANGED <<wait_objects, stop, panic>>
        /\ \E o : sync' = ScanOf(o)
    BY <1>8 DEF ReleaseSemaphore, SignalEvent, Signal, threadVars
  <2> QED BY <1>0, <2>1, CallerRuns, IdlePanic
<1> QED BY <1>1, <1>2, <1>3, <1>4, <1>5, <1>6, <1>7, <1>8 DEF ThreadCall

LEMMA TimeoutPanic ==
    ASSUME TypeOK, SchedInv, PanicInv, NEW t \in Thread, TimeoutFires(t)
    PROVE  PanicInv'
<1>1. /\ UNCHANGED <<wait_objects, stop>> /\ stop.pc = "idle" /\ sync.pc = "idle"
      /\ t \in wakeups
  BY Idle DEF TimeoutFires
<1>2. CASE WaitTimesOut(t)
  <2>1. /\ sync' = [SyncIdle EXCEPT !.pc = "remove", !.thr = t, !.todo = wait_objects[t]]
        /\ UNCHANGED panic
    BY <1>2 DEF TimeoutFires
  <2>2. sync'.pc = "remove"
    BY <2>1 DEF SyncIdle
  <2> QED BY <1>1, <2>1, <2>2, IdlePanic
<1>3. CASE ~WaitTimesOut(t)
  <2>1. ResumeFromWait(t) /\ UNCHANGED sync
    BY <1>3 DEF TimeoutFires
  <2>2. status[t] \in Resumable \cup {"Ready"}
    BY <1>1 DEF SchedInv, NoStaleTimeout, TypeOK, Status
  <2>3. panic' = panic
    BY <2>1, <2>2, ResumeAsserts
  <2> QED BY <1>1, <2>1, <2>3, IdlePanic
<1> QED BY <1>2, <1>3

LEMMA StepPanic ==
    ASSUME TypeOK, PhaseOK, SchedInv, ListInv, PanicInv, WellBehaved, [Next]_vars
    PROVE  PanicInv'
<1>1. CASE SyncStep
  BY <1>1, SyncPanic
<1>2. CASE StopStep \/ TermStep
  BY <1>2, OuterPanic
<1>3. CASE \E c \in Core : ThreadCall(c)
  BY <1>3, ThreadCallPanic
<1>4. CASE \E c \in Core : Reschedule(c)
  <2>1. PICK c \in Core : Reschedule(c)
    BY <1>4
  <2>2. /\ UNCHANGED <<wait_objects, stop, sync>> /\ sync.pc = "idle" /\ stop.pc = "idle"
    BY <2>1, Idle DEF Reschedule, RescheduleCore
  <2>3. panic' = panic
    BY <2>1, RescheduleSched DEF Switches
  <2> QED BY <2>2, <2>3, IdlePanic
<1>5. CASE \E t \in Thread : TimeoutFires(t)
  BY <1>5, TimeoutPanic
<1>6. CASE \E t \in Thread, delayed \in BOOLEAN : ProcessRun(t, delayed)
  <2>1. UNCHANGED <<wait_objects, stop, sync, panic>> /\ sync.pc = "idle" /\ stop.pc = "idle"
    BY <1>6, Idle DEF ProcessRun
  <2> QED BY <2>1, IdlePanic
<1>7. CASE \E e \in Event : ServiceSignal(e)
  <2>1. /\ UNCHANGED <<wait_objects, stop, panic>> /\ stop.pc = "idle"
        /\ \E o : sync' = ScanOf(o)
    BY <1>7, Idle DEF ServiceSignal, Signal, threadVars
  <2>2. \A o : ScanOf(o).pc = "scan"
    BY DEF ScanOf, SyncIdle
  <2> QED BY <2>1, <2>2, IdlePanic
<1>8. CASE UNCHANGED vars
  <2>1. UNCHANGED <<status, lock_count, holding_thread, available_count, signaled, wait_objects,
                    stop, sync, panic>>
    BY <1>8 DEF vars, threadVars, objectVars, callVars
  <2>2. Acquiring'
    <3>1. ASSUME NEW o, NEW u PROVE ShouldWait(o, u)' <=> ShouldWait(o, u)
      BY <2>1 DEF ShouldWait
    <3>2. PICK u : u = sync.thr
      OBVIOUS
    <3> QED BY <2>1, <3>1, <3>2 DEF PanicInv, Acquiring
  <2> QED BY <2>1, <2>2 DEF PanicInv, Handed, Detaching, NoPanic
<1> QED BY <1>1, <1>2, <1>3, <1>4, <1>5, <1>6, <1>7, <1>8 DEF Next, KernelStep

LEMMA InitPanic == Init => PanicInv
<1> SUFFICES ASSUME Init PROVE PanicInv
  OBVIOUS
<1>1. sync.pc = "idle" /\ stop.pc = "idle"
  BY DEF Init, SyncIdle, StopIdle
<1> QED BY <1>1 DEF Init, PanicInv, Handed, Detaching, Acquiring, NoPanic

\* None of the assertions of the kernel fails, whatever a well-behaved guest
\* calls, on any number of cores: ResumeFromWait, SwitchContext,
\* GetHighestPriorityReadyThread, Acquire of mutexes, events and threads, and
\* TerminateProcess.
THEOREM AssertionsHold == WellBehaved => (Spec => []NoPanic)
<1> SUFFICES ASSUME WellBehaved PROVE Spec => []NoPanic
  OBVIOUS
<1>1. Init => PanicInv
  BY InitPanic
<1>2. TypeOK /\ PhaseOK /\ SchedInv /\ ListInv /\ PanicInv /\ [Next]_vars => PanicInv'
  BY StepPanic
<1>3. PanicInv => NoPanic
  BY DEF PanicInv
<1> QED BY <1>1, <1>2, <1>3, ListsAgree, PTL DEF Spec

-------------------------------------------------------------------------------
(* Resource limits                                                         *)

Stopping(p) == stop.pc # "idle" /\ ProcessOf[stop.thr] = p

\* How many threads the limit counts too few: the thread that is being stopped is
\* counted until StopDone.
Missing(p) == Cardinality(LiveThreads(p)) + (IF Stopping(p) THEN 1 ELSE 0) - thread_count[p]

\* The cores TerminateProcess is done with, apart from the one it runs on.
OtherCoresDone == IF running_core < term.core THEN term.core - 1 ELSE term.core

\* How many it may count too few: one for each of these cores.
Slack(p) ==
    IF process_status[p] # "Exited" THEN 0
    ELSE IF term.pc = "cores" /\ term.process = p THEN OtherCoresDone
    ELSE NumCores - 1

Counted == \A p \in Process : Missing(p) \in 0 .. Slack(p)

\* The thread that terminates a process is alive when its turn comes.
LastAlive ==
    term.pc = "cores" =>
      /\ running_core \in Core
      /\ term.core <= running_core =>
           /\ current_thread[running_core] \in Thread
           /\ status[current_thread[running_core]] = "Running"

CountInv == Counted /\ LastAlive

LEMMA LiveSize ==
    ASSUME TypeOK, IsFiniteSet(Thread), NEW p
    PROVE  IsFiniteSet(LiveThreads(p)) /\ Cardinality(LiveThreads(p)) \in Nat
<1>1. LiveThreads(p) \in SUBSET Thread
  BY DEF LiveThreads
<1>2. IsFiniteSet(LiveThreads(p))
  BY <1>1, FS_Subset
<1> QED BY <1>2, FS_CardinalityType

LEMMA CountSame ==
    ASSUME Counted, \A p \in Process : Missing(p)' = Missing(p),
           \A p \in Process : Slack(p)' = Slack(p)
    PROVE  Counted'
BY DEF Counted

\* The allowance moves only when a process is terminated.
LEMMA SlackKept ==
    ASSUME UNCHANGED process_status,
           \/ UNCHANGED <<term, running_core>>
           \/ term.pc = "idle" /\ term'.pc = "idle"
    PROVE  \A p \in Process : Slack(p)' = Slack(p)
BY DEF Slack, OtherCoresDone

\* Nobody is born or dies.
LEMMA MissingKept ==
    ASSUME UNCHANGED thread_count,
           \A t \in Thread : status'[t] \in {"None", "Dead"} <=> status[t] \in {"None", "Dead"},
           stop'.pc # "idle" <=> stop.pc # "idle", stop.pc # "idle" => stop'.thr = stop.thr
    PROVE  \A p \in Process : Missing(p)' = Missing(p)
<1>1. \A p : LiveThreads(p)' = LiveThreads(p)
  BY DEF LiveThreads
<1>2. \A p : Stopping(p)' <=> Stopping(p)
  BY DEF Stopping
<1> QED BY <1>1, <1>2 DEF Missing

\* Run and CreateThread.
LEMMA BirthMissing ==
    ASSUME TypeOK, IsFiniteSet(Thread), NEW t \in Thread, status[t] = "None",
           NEW y, y \notin {"None", "Dead"}, status' = [status EXCEPT ![t] = y],
           thread_count' = [thread_count EXCEPT ![ProcessOf[t]] = @ + 1], UNCHANGED stop
    PROVE  \A p \in Process : Missing(p)' = Missing(p)
<1> SUFFICES ASSUME NEW p \in Process PROVE Missing(p)' = Missing(p)
  OBVIOUS
<1>1. Stopping(p)' <=> Stopping(p)
  BY DEF Stopping
<1>2. IsFiniteSet(LiveThreads(p)) /\ Cardinality(LiveThreads(p)) \in Nat
  BY LiveSize
<1>3. thread_count[p] \in Int
      /\ thread_count'[p] = IF p = ProcessOf[t] THEN thread_count[p] + 1 ELSE thread_count[p]
  BY KernelAssumption DEF TypeOK
<1>4. CASE p = ProcessOf[t]
  <2>1. LiveThreads(p)' = LiveThreads(p) \cup {t} /\ t \notin LiveThreads(p)
    BY <1>4 DEF LiveThreads, TypeOK
  <2>2. Cardinality(LiveThreads(p)') = Cardinality(LiveThreads(p)) + 1
    BY <1>2, <2>1, FS_AddElement
  <2> QED BY <1>1, <1>2, <1>3, <1>4, <2>2 DEF Missing
<1>5. CASE p # ProcessOf[t]
  <2>1. LiveThreads(p)' = LiveThreads(p)
    BY <1>5 DEF LiveThreads, TypeOK
  <2> QED BY <1>1, <1>3, <1>5, <2>1 DEF Missing
<1> QED BY <1>4, <1>5

\* A live thread is stopped: it dies and stays counted.
LEMMA LiveStopMissing ==
    ASSUME TypeOK, IsFiniteSet(Thread), stop.pc = "idle", NEW t \in Thread,
           status[t] \notin {"None", "Dead"}, BeginStop(t)
    PROVE  \A p \in Process : Missing(p)' = Missing(p)
<1>1. /\ status' = [status EXCEPT ![t] = "Dead"] /\ UNCHANGED thread_count
      /\ stop' = [pc |-> "detach", thr |-> t, muts |-> {}]
  BY DEF BeginStop
<1> SUFFICES ASSUME NEW p \in Process PROVE Missing(p)' = Missing(p)
  OBVIOUS
<1>2. ~Stopping(p) /\ (Stopping(p)' <=> ProcessOf[t] = p)
  BY <1>1 DEF Stopping
<1>3. /\ IsFiniteSet(LiveThreads(p)) /\ Cardinality(LiveThreads(p)) \in Nat
      /\ thread_count[p] \in Int
  BY LiveSize DEF TypeOK
<1>4. CASE p = ProcessOf[t]
  <2>1. LiveThreads(p)' = LiveThreads(p) \ {t} /\ t \in LiveThreads(p)
    BY <1>1, <1>4 DEF LiveThreads, TypeOK
  <2>2. Cardinality(LiveThreads(p)') = Cardinality(LiveThreads(p)) - 1
    BY <1>3, <2>1, FS_RemoveElement
  <2> QED BY <1>1, <1>2, <1>3, <1>4, <2>2 DEF Missing
<1>5. CASE p # ProcessOf[t]
  <2>1. LiveThreads(p)' = LiveThreads(p)
    BY <1>1, <1>5 DEF LiveThreads, TypeOK
  <2> QED BY <1>1, <1>2, <1>5, <2>1 DEF Missing
<1> QED BY <1>4, <1>5

\* A dead thread is stopped again: it will be released again.
LEMMA DeadStopMissing ==
    ASSUME TypeOK, IsFiniteSet(Thread), stop.pc = "idle", NEW t \in Thread, status[t] = "Dead",
           BeginStop(t)
    PROVE  \A p \in Process : Missing(p)' = Missing(p) + (IF p = ProcessOf[t] THEN 1 ELSE 0)
<1>1. /\ status' = [status EXCEPT ![t] = "Dead"] /\ UNCHANGED thread_count
      /\ stop' = [pc |-> "detach", thr |-> t, muts |-> {}]
  BY DEF BeginStop
<1>2. status' = status
  BY <1>1 DEF TypeOK
<1> SUFFICES ASSUME NEW p \in Process
             PROVE  Missing(p)' = Missing(p) + (IF p = ProcessOf[t] THEN 1 ELSE 0)
  OBVIOUS
<1>3. ~Stopping(p) /\ (Stopping(p)' <=> ProcessOf[t] = p)
  BY <1>1 DEF Stopping
<1>4. Cardinality(LiveThreads(p)) \in Nat /\ thread_count[p] \in Int
  BY LiveSize DEF TypeOK
<1>5. LiveThreads(p)' = LiveThreads(p)
  BY <1>2 DEF LiveThreads
<1> QED BY <1>1, <1>3, <1>4, <1>5 DEF Missing

LEMMA StopDoneMissing ==
    ASSUME TypeOK, IsFiniteSet(Thread), PhaseOK, StopDone
    PROVE  \A p \in Process : Missing(p)' = Missing(p)
<1>1. /\ stop.pc = "mutexes" /\ UNCHANGED status /\ stop' = StopIdle
      /\ thread_count' = [thread_count EXCEPT ![ProcessOf[stop.thr]] = @ - 1]
  BY DEF StopDone, StopAt
<1> SUFFICES ASSUME NEW p \in Process PROVE Missing(p)' = Missing(p)
  OBVIOUS
<1>2. ~Stopping(p)' /\ (Stopping(p) <=> ProcessOf[stop.thr] = p)
  BY <1>1 DEF Stopping, StopIdle
<1>3. Cardinality(LiveThreads(p)) \in Nat /\ LiveThreads(p)' = LiveThreads(p)
  BY <1>1, LiveSize DEF LiveThreads
<1>4. thread_count[p] \in Int
      /\ thread_count'[p] = IF p = ProcessOf[stop.thr] THEN thread_count[p] - 1 ELSE thread_count[p]
  BY <1>1 DEF TypeOK
<1> QED BY <1>2, <1>3, <1>4 DEF Missing

LEMMA SyncCount ==
    ASSUME TypeOK, PhaseOK, SchedInv, CountInv, SyncStep
    PROVE  CountInv'
<1>1. UNCHANGED <<thread_count, stop, term, current_thread, process_status, running_core>>
  BY DEF SyncStep, WakeNext, WakeupDone, AcquireNext, AcquireDone, RemoveNext, RemoveDone, AddNext,
        UpdateNext, keptVars, coreVars
<1>2. \/ status' = status
      \/ \E t \in Thread : status[t] \in Waiting /\ status' = [status EXCEPT ![t] = "Ready"]
  <2>1. CASE RemoveDone /\ sync.pc = "remove"
    <3>1. sync.thr \in Thread /\ status[sync.thr] \in Waiting /\ ResumeFromWait(sync.thr)
      BY <2>1 DEF RemoveDone, PhaseOK, SchedInv, Loops
    <3>2. status' = [status EXCEPT ![sync.thr] = "Ready"]
      BY <3>1 DEF ResumeFromWait, Resumable
    <3> QED BY <3>1, <3>2
  <2>2. CASE ~(RemoveDone /\ sync.pc = "remove")
    BY <2>2 DEF SyncStep, WakeNext, WakeupDone, AcquireNext, AcquireDone, RemoveNext, RemoveDone,
          AddNext, UpdateNext, threadVars
  <2> QED BY <2>1, <2>2
<1>3. \A t \in Thread : /\ status'[t] \in {"None", "Dead"} <=> status[t] \in {"None", "Dead"}
                        /\ status[t] = "Running" => status'[t] = "Running"
  BY <1>2 DEF Waiting, TypeOK
<1>4. Counted'
  BY <1>1, <1>3, MissingKept, SlackKept, CountSame DEF CountInv
<1> QED BY <1>1, <1>3, <1>4 DEF CountInv, LastAlive

LEMMA StopCount ==
    ASSUME TypeOK, PhaseOK, IsFiniteSet(Thread), CountInv, StopStep
    PROVE  CountInv'
<1>1. UNCHANGED <<term, current_thread, status, process_status, running_core>>
  BY DEF StopStep, StopDetach, StopRelease, StopDone, coreVars, threadVars
<1>2. \A p \in Process : Missing(p)' = Missing(p)
  <2>1. CASE StopDetach \/ StopRelease
    <3>1. /\ UNCHANGED thread_count /\ stop.pc # "idle"
          /\ \/ \E M : stop' = [stop EXCEPT !.pc = "mutexes", !.muts = M]
             \/ \E M : stop' = [stop EXCEPT !.muts = M]
      BY <2>1 DEF StopDetach, StopRelease, StopAt
    <3>2. stop'.pc # "idle" /\ stop'.thr = stop.thr
      <4>1. CASE \E M : stop' = [stop EXCEPT !.pc = "mutexes", !.muts = M]
        BY <4>1 DEF TypeOK
      <4>2. CASE \E M : stop' = [stop EXCEPT !.muts = M]
        BY <3>1, <4>2 DEF TypeOK
      <4> QED BY <3>1, <4>1, <4>2
    <3> QED BY <1>1, <3>1, <3>2, MissingKept
  <2>2. CASE StopDone
    BY <2>2, StopDoneMissing
  <2> QED BY <2>1, <2>2 DEF StopStep
<1>3. Counted'
  BY <1>1, <1>2, SlackKept, CountSame DEF CountInv
<1> QED BY <1>1, <1>3 DEF CountInv, LastAlive

\* On another core the current thread may be dead, and the allowance grows by one;
\* on its own core the caller is alive.
LEMMA TermCurrentCount ==
    ASSUME TypeOK, PhaseOK, SchedInv, IsFiniteSet(Thread), CountInv, TermCurrent
    PROVE  Counted'
<1>1. /\ stop.pc = "idle" /\ term.pc = "cores" /\ term.core < NumCores
      /\ term' = [term EXCEPT !.core = @ + 1] /\ UNCHANGED running_core
  BY DEF TermCurrent, TermAt, StopAt
<1>2. /\ term'.pc = "cores" /\ term'.process = term.process /\ term'.core = term.core + 1
      /\ term.core \in Core /\ term.core \in Nat /\ NumCores \in Nat
  BY <1>1, KernelAssumption DEF TypeOK, Core
<1>3. running_core \in Int
  BY <1>1 DEF CountInv, LastAlive, Core
<1>4. UNCHANGED process_status
  BY DEF TermCurrent, BeginStop
<1>5. \A p \in Process :
        /\ p # term.process => Slack(p)' = Slack(p)
        /\ p = term.process =>
             Slack(p)' = Slack(p) + (IF term.core = running_core THEN 0 ELSE 1)
  <2> TAKE p \in Process
  <2>1. ASSUME p # term.process PROVE Slack(p)' = Slack(p)
    BY <1>2, <1>4, <2>1 DEF Slack
  <2>2. ASSUME p = term.process
        PROVE  Slack(p)' = Slack(p) + (IF term.core = running_core THEN 0 ELSE 1)
    <3>1. process_status[p] = "Exited" /\ process_status'[p] = "Exited"
      BY <1>1, <1>4, <2>2 DEF SchedInv, Ends
    <3>2. Slack(p) = OtherCoresDone /\ Slack(p)' = OtherCoresDone'
      BY <1>1, <1>2, <2>2, <3>1 DEF Slack
    <3>3. /\ OtherCoresDone = (IF running_core < term.core THEN term.core - 1 ELSE term.core)
          /\ OtherCoresDone' = (IF running_core < term.core + 1 THEN term.core ELSE term.core + 1)
      BY <1>1, <1>2 DEF OtherCoresDone
    <3> QED BY <1>2, <1>3, <3>2, <3>3
  <2> QED BY <2>1, <2>2
<1>6. \A p \in Process : Missing(p) \in 0 .. Slack(p) /\ Slack(p) \in Int
  <2> TAKE p \in Process
  <2>1. Slack(p) \in Int
    BY <1>2, <1>3 DEF Slack, OtherCoresDone
  <2> QED BY <2>1 DEF CountInv, Counted
<1>7. CASE \A p \in Process : Missing(p)' = Missing(p)
  <2> SUFFICES ASSUME NEW p \in Process PROVE Missing(p)' \in 0 .. Slack(p)'
    BY DEF Counted
  <2>1. Slack(p)' \in {Slack(p), Slack(p) + 1}
    BY <1>5, <1>6
  <2> QED BY <1>6, <1>7, <2>1
<1>8. CASE UNCHANGED <<threadVars, thread_count, stop>>
  <2>1. UNCHANGED <<status, thread_count, stop>>
    BY <1>8 DEF threadVars
  <2> QED BY <1>7, <2>1, MissingKept
<1>9. ASSUME NEW t \in Thread, t = current_thread[term.core], ProcessOf[t] = term.process,
             BeginStop(t)
      PROVE  Counted'
  <2>1. status[t] # "None"
    BY <1>2, <1>9, KernelAssumption, KindsAssumption DEF SchedInv, Placed, Object
  <2>2. CASE status[t] # "Dead"
    BY <1>1, <1>7, <1>9, <2>1, <2>2, LiveStopMissing
  <2>3. CASE status[t] = "Dead"
    <3>1. term.core # running_core
      BY <1>1, <1>2, <1>9, <2>3 DEF CountInv, LastAlive
    <3>2. \A p \in Process : Missing(p)' = Missing(p) + (IF p = term.process THEN 1 ELSE 0)
      BY <1>1, <1>9, <2>3, DeadStopMissing
    <3> SUFFICES ASSUME NEW p \in Process PROVE Missing(p)' \in 0 .. Slack(p)'
      BY DEF Counted
    <3>3. CASE p = term.process
      <4>1. Missing(p)' = Missing(p) + 1 /\ Slack(p)' = Slack(p) + 1
        BY <1>5, <3>1, <3>2, <3>3
      <4> QED BY <1>6, <4>1
    <3>4. CASE p # term.process
      <4>1. Missing(p)' = Missing(p) + 0 /\ Slack(p)' = Slack(p)
        BY <1>5, <3>2, <3>4
      <4> QED BY <1>6, <4>1
    <3> QED BY <3>3, <3>4
  <2> QED BY <2>2, <2>3
<1> QED
  <2>1. current_thread[term.core] \in Thread \cup {None}
    BY <1>2 DEF TypeOK
  <2> QED BY <1>8, <1>9, <2>1 DEF TermCurrent

LEMMA TermCount ==
    ASSUME TypeOK, PhaseOK, SchedInv, IsFiniteSet(Thread), CountInv, TermStep
    PROVE  CountInv'
<1>1. stop.pc = "idle" /\ term.pc = "cores" /\ running_core \in Core
  BY DEF TermStep, TermVictim, TermCurrent, TermDone, TermAt, StopAt, CountInv, LastAlive
<1>2. \A c \in Core : current_thread[c] \in Thread => CoreOf[current_thread[c]] = c
  BY KernelAssumption DEF SchedInv, Placed, Object
<1>3. CASE TermVictim
  <2>1. PICK t \in Victims : BeginStop(t)
    BY <1>3 DEF TermVictim
  <2>2. /\ t \in Thread /\ CoreOf[t] = term.core /\ t # current_thread[term.core]
        /\ status[t] \notin {"None", "Dead"}
        /\ UNCHANGED <<term, current_thread, running_core, process_status>>
        /\ status' = [status EXCEPT ![t] = "Dead"]
    BY <1>3, <2>1 DEF TermVictim, Victims, BeginStop
  <2>3. Counted'
    BY <1>1, <2>1, <2>2, LiveStopMissing, SlackKept, CountSame DEF CountInv
  <2>4. ASSUME current_thread[running_core] \in Thread PROVE t # current_thread[running_core]
    BY <1>1, <1>2, <2>2, <2>4
  <2>5. LastAlive'
    BY <1>1, <2>2, <2>4 DEF CountInv, LastAlive, TypeOK
  <2> QED BY <2>3, <2>5 DEF CountInv
<1>4. CASE TermCurrent
  <2>1. /\ term.core < NumCores /\ term' = [term EXCEPT !.core = @ + 1]
        /\ UNCHANGED <<running_core, current_thread>>
    BY <1>4 DEF TermCurrent, BeginStop, coreVars
  <2>2. /\ term.core \in Nat /\ running_core \in Nat /\ NumCores \in Nat
        /\ term.core \in Core /\ term'.core = term.core + 1
    BY <1>1, <2>1, KernelAssumption DEF TypeOK, Core
  <2>3. ASSUME term'.core <= running_core
        PROVE  /\ current_thread[running_core] \in Thread
               /\ status'[current_thread[running_core]] = "Running"
    <3>1. term.core # running_core /\ term.core <= running_core
      BY <2>2, <2>3
    <3>2. /\ current_thread[running_core] \in Thread
          /\ status[current_thread[running_core]] = "Running"
      BY <1>1, <3>1 DEF CountInv, LastAlive
    <3>3. CASE UNCHANGED threadVars
      BY <3>2, <3>3 DEF threadVars
    <3>4. ASSUME current_thread[term.core] # None, BeginStop(current_thread[term.core])
          PROVE  status'[current_thread[running_core]] = "Running"
      <4>1. current_thread[term.core] \in Thread
        BY <2>2, <3>4 DEF TypeOK
      <4>2. current_thread[term.core] # current_thread[running_core]
        BY <1>1, <1>2, <2>2, <3>1, <3>2, <4>1
      <4> QED BY <3>2, <3>4, <4>1, <4>2 DEF BeginStop, TypeOK
    <3> QED BY <1>4, <3>2, <3>3, <3>4 DEF TermCurrent
  <2>4. LastAlive'
    BY <1>1, <2>1, <2>3 DEF LastAlive
  <2> QED BY <1>4, <2>4, TermCurrentCount DEF CountInv
<1>5. CASE TermDone
  <2>1. /\ UNCHANGED <<status, thread_count, stop, process_status>> /\ term' = TermIdle
        /\ term.core = NumCores
    BY <1>5 DEF TermDone, threadVars
  <2>2. \A p \in Process : Slack(p)' = Slack(p)
    <3>1. OtherCoresDone = NumCores - 1
      BY <1>1, <2>1, KernelAssumption DEF OtherCoresDone, Core
    <3> QED BY <2>1, <3>1 DEF Slack, TermIdle
  <2>3. Counted'
    BY <2>1, <2>2, MissingKept, CountSame DEF CountInv
  <2> QED BY <2>1, <2>3 DEF CountInv, LastAlive, TermIdle
<1> QED BY <1>3, <1>4, <1>5 DEF TermStep

\* Between calls, a step that lets everybody live.
LEMMA IdleCount ==
    ASSUME CountInv, UNCHANGED <<thread_count, stop, term, process_status>>, term.pc = "idle",
           \A t \in Thread : status'[t] \in {"None", "Dead"} <=> status[t] \in {"None", "Dead"}
    PROVE  CountInv'
<1>1. Counted'
  BY MissingKept, SlackKept, CountSame DEF CountInv
<1> QED BY <1>1 DEF CountInv, LastAlive

LEMMA ThreadCallCount ==
    ASSUME TypeOK, PhaseOK, SchedInv, IsFiniteSet(Thread), CountInv, NEW c \in Core, ThreadCall(c)
    PROVE  CountInv'
<1>1. CASE \/ WaitReturns(c)
           \/ \E t \in Thread, p \in SetPriorities : SetThreadPriority(c, t, p)
           \/ \E p \in Process, S \in Controllable, stopped \in BOOLEAN :
                ControlProcess(c, p, S, stopped)
           \/ \E m \in Mutex : ReleaseMutex(c, m)
           \/ \E s \in Semaphore, n \in ReleaseCounts : ReleaseSemaphore(c, s, n)
           \/ \E e \in Event : SignalEvent(c, e)
           \/ \E e \in Event : ClearEvent(c, e)
  <2>1. /\ Calls(c, current_thread[c])
        /\ UNCHANGED <<status, thread_count, stop, term, process_status>>
    BY <1>1 DEF WaitReturns, WaitAcquires, SetThreadPriority, ControlProcess, ReleaseMutex,
          ReleaseSemaphore, SignalEvent, Signal, ClearEvent, threadVars, callVars
  <2> QED BY <2>1, CallerRuns, IdleCount
<1>2. CASE \/ WaitBegins(c)
           \/ \E timed \in BOOLEAN : SleepThread(c, timed)
  <2>1. /\ Calls(c, current_thread[c]) /\ UNCHANGED <<thread_count, stop, term, process_status>>
        /\ \E y \in {"WaitSynchAll", "WaitSynchAny", "WaitSleep"} :
             status' = [status EXCEPT ![current_thread[c]] = y]
    <3>1. CASE \E timed \in BOOLEAN : SleepThread(c, timed)
      BY <3>1 DEF SleepThread, callVars
    <3>2. CASE WaitBegins(c)
      BY <3>2 DEF WaitBegins, WaitBlocks
    <3> QED BY <1>2, <3>1, <3>2
  <2>2. current_thread[c] \in Thread /\ status[current_thread[c]] = "Running" /\ term.pc = "idle"
    BY <2>1, CallerRuns
  <2>3. \A t \in Thread : status'[t] \in {"None", "Dead"} <=> status[t] \in {"None", "Dead"}
    BY <2>1, <2>2 DEF TypeOK
  <2> QED BY <2>1, <2>2, <2>3, IdleCount
<1>3. CASE \E t \in Thread : CreateThread(c, t)
  <2>1. PICK t \in Thread : CreateThread(c, t)
    BY <1>3
  <2>2. /\ Calls(c, current_thread[c]) /\ UNCHANGED <<stop, term, process_status>>
        /\ status[t] = "None" /\ status' = [status EXCEPT ![t] = "Ready"]
        /\ thread_count' = [thread_count EXCEPT ![ProcessOf[t]] = @ + 1]
    BY <2>1 DEF CreateThread, NewThread
  <2>3. term.pc = "idle"
    BY <2>2, CallerRuns
  <2>4. Counted'
    BY <2>2, <2>3, BirthMissing, SlackKept, CountSame DEF CountInv
  <2> QED BY <2>2, <2>3, <2>4 DEF CountInv, LastAlive
<1>4. CASE ExitThread(c)
  <2>1. /\ Calls(c, current_thread[c]) /\ BeginStop(current_thread[c])
        /\ UNCHANGED <<term, process_status>>
    BY <1>4 DEF ExitThread, BeginStop
  <2>2. /\ current_thread[c] \in Thread /\ status[current_thread[c]] = "Running"
        /\ stop.pc = "idle" /\ term.pc = "idle"
    BY <2>1, CallerRuns
  <2>3. Counted'
    BY <2>1, <2>2, LiveStopMissing, SlackKept, CountSame DEF CountInv
  <2> QED BY <2>1, <2>2, <2>3 DEF CountInv, LastAlive
<1>5. CASE \E p \in Process : TerminateProcess(c, p)
  <2>1. PICK p \in Process : TerminateProcess(c, p)
    BY <1>5
  <2>2. /\ Calls(c, current_thread[c]) /\ UNCHANGED <<status, thread_count, stop, current_thread>>
        /\ running_core' = c
    BY <2>1 DEF TerminateProcess, threadVars, coreVars
  <2>3. current_thread[c] \in Thread /\ status[current_thread[c]] = "Running" /\ term.pc = "idle"
    BY <2>2, CallerRuns
  <2>4. CASE UNCHANGED <<process_status, term>>
    BY <2>2, <2>3, <2>4, IdleCount
  <2>5. CASE /\ process_status[p] # "Exited"
             /\ process_status' = [process_status EXCEPT ![p] = "Exited"]
             /\ term' = [pc |-> "cores", process |-> p, core |-> 0]
    <3>1. \A q \in Process : Slack(q)' = Slack(q)
      <4> TAKE q \in Process
      <4>1. CASE q = p
        <5>1. Slack(q)' = OtherCoresDone' /\ Slack(q) = 0
          BY <2>5, <4>1 DEF Slack, TypeOK
        <5>2. OtherCoresDone' = 0
          BY <2>2, <2>5, KernelAssumption DEF OtherCoresDone, Core
        <5> QED BY <5>1, <5>2
      <4>2. CASE q # p
        BY <2>3, <2>5, <4>2 DEF Slack, TypeOK
      <4> QED BY <4>1, <4>2
    <3>2. Counted'
      BY <2>2, <3>1, MissingKept, CountSame DEF CountInv
    <3> QED BY <2>2, <2>3, <3>2 DEF CountInv, LastAlive
  <2> QED BY <2>1, <2>4, <2>5 DEF TerminateProcess
<1> QED BY <1>1, <1>2, <1>3, <1>4, <1>5 DEF ThreadCall

LEMMA StepCount ==
    ASSUME TypeOK, PhaseOK, SchedInv, IsFiniteSet(Thread), CountInv, [Next]_vars
    PROVE  CountInv'
<1>1. CASE SyncStep
  BY <1>1, SyncCount
<1>2. CASE StopStep
  BY <1>2, StopCount
<1>3. CASE TermStep
  BY <1>3, TermCount
<1>4. CASE \E c \in Core : ThreadCall(c)
  BY <1>4, ThreadCallCount
<1>5. CASE \E c \in Core : Reschedule(c)
  <2>1. PICK c \in Core : Reschedule(c)
    BY <1>5
  <2>2. UNCHANGED <<thread_count, stop, term, process_status>> /\ term.pc = "idle"
    BY <2>1, Idle DEF Reschedule, RescheduleCore
  <2>3. \A t \in Thread : status'[t] \in {"None", "Dead"} <=> status[t] \in {"None", "Dead"}
    BY <2>1, RescheduleSched DEF Switches
  <2> QED BY <2>2, <2>3, IdleCount
<1>6. CASE \E t \in Thread : TimeoutFires(t)
  <2>1. PICK t \in Thread : TimeoutFires(t)
    BY <1>6
  <2>2. /\ UNCHANGED <<thread_count, stop, term, process_status>> /\ term.pc = "idle"
        /\ t \in wakeups
        /\ UNCHANGED status \/ ResumeFromWait(t)
    BY <2>1, Idle DEF TimeoutFires
  <2>3. status[t] \notin {"None", "Dead"}
    BY <2>2 DEF SchedInv, NoStaleTimeout
  <2>4. \A u \in Thread : status'[u] \in {"None", "Dead"} <=> status[u] \in {"None", "Dead"}
    BY <2>2, <2>3 DEF ResumeFromWait, TypeOK
  <2> QED BY <2>2, <2>4, IdleCount
<1>7. CASE \E t \in Thread, delayed \in BOOLEAN : ProcessRun(t, delayed)
  <2>1. PICK t \in Thread, delayed \in BOOLEAN : ProcessRun(t, delayed)
    BY <1>7
  <2>2. /\ UNCHANGED <<stop, term>> /\ term.pc = "idle"
        /\ process_status[ProcessOf[t]] = "Created"
        /\ process_status' = [process_status EXCEPT ![ProcessOf[t]] = "Running"]
        /\ \E y \in {"Ready", "WaitSleep"} : status' = [status EXCEPT ![t] = y]
        /\ thread_count' = [thread_count EXCEPT ![ProcessOf[t]] = @ + 1]
    BY <2>1, Idle DEF ProcessRun, NewThread
  <2>3. status[t] = "None"
    BY <2>2 DEF SchedInv, Births
  <2>4. \A p \in Process : Slack(p)' = Slack(p)
    BY <2>2 DEF Slack, TypeOK
  <2>5. Counted'
    BY <2>2, <2>3, <2>4, BirthMissing, CountSame DEF CountInv
  <2> QED BY <2>2, <2>5 DEF CountInv, LastAlive
<1>8. CASE \E e \in Event : ServiceSignal(e)
  <2>1. UNCHANGED <<status, thread_count, stop, term, process_status>> /\ term.pc = "idle"
    BY <1>8, Idle DEF ServiceSignal, Signal, threadVars
  <2> QED BY <2>1, IdleCount
<1>9. CASE UNCHANGED vars
  <2>1. UNCHANGED <<status, thread_count, stop, term, current_thread, process_status,
                    running_core>>
    BY <1>9 DEF vars, threadVars, callVars, coreVars
  <2>2. Counted'
    BY <2>1, MissingKept, SlackKept, CountSame DEF CountInv
  <2> QED BY <2>1, <2>2 DEF CountInv, LastAlive
<1> QED BY <1>1, <1>2, <1>3, <1>4, <1>5, <1>6, <1>7, <1>8, <1>9 DEF Next, KernelStep

LEMMA InitCountInv == Init => CountInv
<1> SUFFICES ASSUME Init PROVE CountInv
  OBVIOUS
<1>1. stop.pc = "idle" /\ term.pc = "idle"
  BY DEF Init, StopIdle, TermIdle
<1>2. \A p \in Process : /\ thread_count[p] = 0 /\ LiveThreads(p) = {} /\ ~Stopping(p)
                          /\ process_status[p] = "Created"
  BY <1>1 DEF Init, LiveThreads, Stopping
<1>3. Cardinality({}) = 0
  BY FS_EmptySet
<1>4. \A p \in Process : Missing(p) = 0 + 0 - 0 /\ Slack(p) = 0
  BY <1>2, <1>3 DEF Missing, Slack
<1>5. Counted
  BY <1>4 DEF Counted
<1> QED BY <1>1, <1>5 DEF CountInv, LastAlive

\* Run and CreateThread reserve a thread of the resource limit and Stop releases
\* it: on any number of cores the limit counts exactly the live threads of a
\* process that has not exited, and ending one leaks nothing and releases at most
\* one thread too many for every core but the caller's.
THEOREM ThreadsAreAccounted == IsFiniteSet(Thread) => (Spec => []ThreadAccounting)
<1> SUFFICES ASSUME IsFiniteSet(Thread) PROVE Spec => []ThreadAccounting
  OBVIOUS
<1>1. Init => CountInv
  BY InitCountInv
<1>2. TypeOK /\ PhaseOK /\ SchedInv /\ CountInv /\ [Next]_vars => CountInv'
  BY StepCount
<1>3. TypeOK /\ CountInv => ThreadAccounting
  <2> SUFFICES ASSUME TypeOK, CountInv, KernelIdle, NEW p \in Process
               PROVE  IF process_status[p] = "Exited"
                      THEN thread_count[p] \in Cardinality(LiveThreads(p)) - (NumCores - 1)
                                               .. Cardinality(LiveThreads(p))
                      ELSE thread_count[p] = Cardinality(LiveThreads(p))
    BY DEF ThreadAccounting
  <2>1. Cardinality(LiveThreads(p)) \in Nat /\ thread_count[p] \in Int /\ NumCores \in Nat
    BY LiveSize, KernelAssumption DEF TypeOK
  <2>2. Missing(p) = Cardinality(LiveThreads(p)) + 0 - thread_count[p]
    BY DEF KernelIdle, Stopping, Missing
  <2>3. Missing(p) \in 0 .. (IF process_status[p] = "Exited" THEN NumCores - 1 ELSE 0)
    BY DEF KernelIdle, CountInv, Counted, Slack
  <2> QED BY <2>1, <2>2, <2>3
<1> QED BY <1>1, <1>2, <1>3, Scheduling, PTL DEF Spec

-------------------------------------------------------------------------------
(* Priority inheritance                                                    *)

\* What a guest must keep to for inheritance to work: between calls no thread
\* that waits for a mutex holds one, and none waits for all of a mutex and
\* other objects.  UpdatePriority does not look at the mutex the holder waits
\* for, and Acquire does not look at who waits for the mutex already.
Disciplined ==
    KernelIdle => \A t \in Thread : \A m \in Mutex \cap Elems(wait_objects[t]) :
      held_mutexes[t] = {} /\ (status[t] = "WaitSynchAll" => Len(wait_objects[t]) = 1)

\* The thread that is being put on its lists will break the rule when the call
\* returns.
Straying ==
    /\ sync.pc = "add"
    /\ \E m \in Mutex \cap Elems(wait_objects[sync.thr]) :
         \/ held_mutexes[sync.thr] # {}
         \/ status[sync.thr] = "WaitSynchAll" /\ Len(wait_objects[sync.thr]) # 1

\* The loop acquires for sync.thr or takes it off its lists.
Granting == sync.pc \in {"acquire", "remove"}

\* Who is on the list of a mutex holds none, but for what it is just being given.
Unnested ==
    \A m \in Mutex : \A w \in Elems(waiting_threads[m]) :
      held_mutexes[w] = {} \/ (Granting /\ w = sync.thr)

\* Who waits for a mutex is satisfied by the mutex alone.
Solo ==
    \A t \in Thread : \A m \in Mutex \cap Elems(wait_objects[t]) :
      status[t] = "WaitSynchAll" => Len(wait_objects[t]) = 1

\* A mutex has a priority that is no worse than that of its waiters.  Its
\* UpdatePriority is still to come after a change of a waiter's priority, and
\* when a thread that may have got it is still on its list.
Passed ==
    \A m \in Mutex : \A w \in Elems(waiting_threads[m]) : holding_thread[m] # None =>
      \/ mutex_priority[m] <= current_priority[w]
      \/ sync.pc = "update" /\ m \in sync.muts
      \/ Granting /\ sync.thr \in Elems(waiting_threads[m])

\* A woken thread acquires objects it waits for.
Taking ==
    sync.pc = "acquire" /\ sync.obj # None => Elems(sync.todo) \subseteq Elems(wait_objects[sync.thr])

\* A wait begins outside the other loops.
AddsAlone == sync.pc = "add" => stop.pc = "idle" /\ term.pc = "idle"

InheritInv == Taking /\ AddsAlone /\ (Straying \/ (Unnested /\ Solo /\ Passed))

\* A step that puts nobody on a list, gives nobody a mutex, and changes no priority
\* that a mutex has been told of.
LEMMA InheritKept ==
    ASSUME TypeOK, InheritInv, sync.pc \notin {"add", "update"},
           UNCHANGED <<waiting_threads, mutex_priority>>,
           \A t \in Thread : wait_objects'[t] = wait_objects[t] \/ wait_objects'[t] = <<>>,
           \A t \in Thread : status'[t] = "WaitSynchAll" => status[t] = "WaitSynchAll",
           \A m \in Mutex : holding_thread'[m] # None => holding_thread[m] # None,
           \A t \in Thread : held_mutexes[t] = {} => held_mutexes'[t] = {},
           \A m \in Mutex : \A w \in Elems(waiting_threads[m]) :
             current_priority'[w] = current_priority[w] \/ (sync'.pc = "update" /\ m \in sync'.muts),
           \/ ~Granting
           \/ \A m \in Mutex : sync.thr \notin Elems(waiting_threads[m])
           \/ Granting' /\ sync'.thr = sync.thr,
           Taking', AddsAlone'
    PROVE  InheritInv'
<1>1. Unnested /\ Solo /\ Passed
  BY DEF InheritInv, Straying
<1>2. \A m \in Mutex : Elems(waiting_threads[m]) \subseteq Thread
  BY ListType DEF Object
<1>3. Unnested'
  BY <1>1, <1>2 DEF Unnested
<1>4. Passed'
  BY <1>1, <1>2 DEF Passed
<1>5. Solo'
  <2> SUFFICES ASSUME NEW t \in Thread, NEW m \in Mutex, m \in Elems(wait_objects'[t]),
                      status'[t] = "WaitSynchAll"
               PROVE  Len(wait_objects'[t]) = 1
    BY DEF Solo
  <2>1. wait_objects'[t] # <<>>
    BY EmptyElems
  <2>2. wait_objects'[t] = wait_objects[t] /\ status[t] = "WaitSynchAll"
    BY <2>1
  <2> QED BY <1>1, <2>2 DEF Solo
<1> QED BY <1>3, <1>4, <1>5 DEF InheritInv

\* Mutex::UpdatePriority takes the best of the waiters, and only concerns the
\* thread that holds the mutex.
LEMMA MutexUpdatePasses ==
    ASSUME TypeOK, NEW m \in Mutex, NEW list \in Seq(Thread), MutexUpdatePriority(m, list)
    PROVE  /\ \A w \in Elems(list) : holding_thread[m] # None =>
                mutex_priority'[m] <= current_priority[w]
           /\ \A n \in Mutex : n # m => mutex_priority'[n] = mutex_priority[n]
           /\ \A u \in Thread : u # holding_thread[m] => current_priority'[u] = current_priority[u]
<1> DEFINE S    == {ThreadPrioLowest} \cup {current_priority[w] : w \in Elems(list)}
           mp   == [mutex_priority EXCEPT ![m] = Best(S)]
           h    == holding_thread[m]
<1>1. Elems(list) \subseteq Thread
  BY DEF Elems
<1>2. ThreadPrioLowest \in Priority
  BY KernelAssumption DEF ThreadPrioLowest, Priority
<1>3. S \subseteq Priority /\ S # {}
  BY <1>1, <1>2 DEF TypeOK
<1> HIDE DEF S
<1>4. \A q \in S : Best(S) <= q
  BY <1>3, BestIsLeast
<1>5. \A w \in Elems(list) : Best(S) <= current_priority[w]
  BY <1>4 DEF S
<1>6. CASE h = None \/ Best(S) = mutex_priority[m]
  <2>1. UNCHANGED <<mutex_priority, current_priority>>
    BY <1>6 DEF MutexUpdatePriority, prioVars, S
  <2> QED BY <1>5, <1>6, <2>1
<1>7. CASE ~(h = None \/ Best(S) = mutex_priority[m])
  <2>1. mutex_priority' = mp /\ UpdatePriority(h, held_mutexes[h], mp)
    BY <1>7 DEF MutexUpdatePriority, S
  <2>2. mutex_priority'[m] = Best(S) /\ \A n \in Mutex : n # m => mutex_priority'[n] = mutex_priority[n]
    BY <2>1 DEF TypeOK
  <2>3. \A u \in Thread : u # h => current_priority'[u] = current_priority[u]
    BY <2>1 DEF UpdatePriority, BoostPriority, TypeOK
  <2> QED BY <1>5, <2>2, <2>3
<1> QED BY <1>6, <1>7

\* A thread that holds a mutex is on no list of a mutex, unless it is just being
\* given it.
LEMMA HolderWaitsNot ==
    ASSUME TypeOK, MutexInv, Unnested, NEW m \in Mutex, NEW n \in Mutex,
           holding_thread[m] # None, holding_thread[m] \in Elems(waiting_threads[n])
    PROVE  Granting /\ holding_thread[m] = sync.thr
<1>1. holding_thread[m] \in Thread
  BY DEF TypeOK
<1>2. m \in held_mutexes[holding_thread[m]]
  BY <1>1 DEF MutexInv, Holders
<1> QED BY <1>2 DEF Unnested

\* The steps of the wakeup loop that only look.
LEMMA ScanInherit ==
    ASSUME TypeOK, PhaseOK, ListInv, InheritInv, WakeNext \/ WakeupDone
    PROVE  InheritInv'
<1>1. /\ sync.pc = "scan" /\ sync.obj \in Object
      /\ UNCHANGED <<status, held_mutexes, wait_objects, current_priority, waiting_threads,
                     mutex_priority, holding_thread, stop, term>>
  BY DEF WakeNext, WakeupDone, SyncAt, PhaseOK, threadVars, objectVars, coreVars
<1>2. ~Granting /\ sync.pc \notin {"add", "update"}
  BY <1>1 DEF Granting
<1>3. CASE WakeNext
  <2>1. PICK i \in 1 .. Len(waiting_threads[sync.obj]) :
          LET t == waiting_threads[sync.obj][i]
          IN  sync' = [sync EXCEPT !.pc = "acquire", !.thr = t,
                           !.todo = IF status[t] = "WaitSynchAll" THEN wait_objects[t]
                                    ELSE <<sync.obj>>]
    BY <1>3 DEF WakeNext
  <2> DEFINE t == waiting_threads[sync.obj][i]
  <2>2. t \in Elems(waiting_threads[sync.obj])
    BY DEF Elems
  <2> HIDE DEF t
  <2>3. sync.obj \in Elems(wait_objects[t])
    BY <1>1, <2>2 DEF ListInv, OnlyWaiters
  <2>4. /\ sync'.pc = "acquire" /\ sync'.thr = t
        /\ sync'.todo = IF status[t] = "WaitSynchAll" THEN wait_objects[t] ELSE <<sync.obj>>
    BY <2>1 DEF TypeOK, t
  <2>5. Elems(<<sync.obj>>) = {sync.obj}
    BY DEF Elems
  <2>6. Taking' /\ AddsAlone'
    BY <1>1, <2>3, <2>4, <2>5 DEF Taking, AddsAlone
  <2> QED BY <1>1, <1>2, <2>6, InheritKept
<1>4. CASE WakeupDone
  <2>1. sync' = sync \/ sync' = SyncIdle
    BY <1>4 DEF WakeupDone
  <2>2. Taking' /\ AddsAlone'
    BY <1>1, <2>1 DEF Taking, AddsAlone, SyncIdle
  <2> QED BY <1>1, <1>2, <2>2, InheritKept
<1> QED BY <1>3, <1>4

\* A thread that runs is on no list.
LEMMA RunningUnlisted ==
    ASSUME TypeOK, ListInv, NEW t \in Thread, status[t] = "Running", NEW o \in Object,
           ~(stop.pc = "detach" /\ stop.thr = t), ~(sync.pc = "detach" /\ sync.thr = t)
    PROVE  t \notin Elems(waiting_threads[o])
<1> SUFFICES ASSUME t \in Elems(waiting_threads[o]) PROVE FALSE
  OBVIOUS
<1>1. o \in Elems(wait_objects[t])
  BY DEF ListInv, OnlyWaiters
<1>2. wait_objects[t] # <<>>
  BY <1>1, EmptyElems
<1> QED BY <1>2 DEF ListInv, WaitsOnly, Waiting

\* Nobody is on the list of a free mutex that a system call acquires: its waiter
\* would have been woken.
LEMMA FreeUnlisted ==
    ASSUME TypeOK, PhaseOK, SchedInv, WaitInv, ListInv, Solo,
           sync.pc = "acquire", sync.obj = None, NEW m \in Mutex, lock_count[m] = 0
    PROVE  Elems(waiting_threads[m]) = {}
<1> SUFFICES ASSUME NEW w \in Elems(waiting_threads[m]) PROVE FALSE
  OBVIOUS
<1>1. m \in Object /\ w \in Thread
  BY ListType DEF Object
<1>2. m \in Elems(wait_objects[w]) /\ wait_objects[w] # <<>>
  BY <1>1, EmptyElems DEF ListInv, OnlyWaiters
<1>3. status[w] \in Waiting
  BY <1>1, <1>2 DEF ListInv, WaitsOnly, SchedInv, Loops
<1>4. ~ShouldWait(m, w)
  <2>1. m \notin Semaphore /\ m \notin Event /\ m \notin Thread
    BY KindsAssumption
  <2>2. ~(lock_count[m] > 0)
    OBVIOUS
  <2> QED BY <2>1, <2>2 DEF ShouldWait
<1>5. \A o \in Object : ~Waking(o)
  BY KernelAssumption DEF Waking
<1>6. Elems(wait_objects[w]) \subseteq Object
  <2>1. wait_objects[w] \in Seq(Object)
    BY <1>1 DEF TypeOK
  <2> QED BY <2>1 DEF Elems
<1>7. CASE status[w] = "WaitSynchAny"
  BY <1>1, <1>2, <1>4, <1>5, <1>7 DEF WaitInv, Attended
<1>8. CASE status[w] = "WaitSynchAll"
  <2>1. Len(wait_objects[w]) = 1
    BY <1>1, <1>2, <1>8 DEF Solo
  <2>2. Elems(wait_objects[w]) = {m}
    BY <1>2, <2>1 DEF Elems
  <2>3. \E o \in Elems(wait_objects[w]) : Waking(o)
    BY <1>1, <1>4, <1>8, <2>2 DEF WaitInv, Attended
  <2> QED BY <1>5, <1>6, <2>3
<1> QED BY <1>3, <1>7, <1>8 DEF Waiting

\* A thread that gets a mutex inside a wakeup loop is still on its list, and the
\* mutex learns of the others when the thread leaves it.
LEMMA AcquireNextInherit ==
    ASSUME TypeOK, PhaseOK, SchedInv, WaitInv, MutexInv, ListInv, InheritInv, AcquireNext
    PROVE  InheritInv'
<1> DEFINE o == Head(sync.todo)
           t == sync.thr
<1>1. /\ sync.pc = "acquire" /\ t \in Thread /\ sync.todo \in Seq(Object) /\ sync.todo # <<>>
      /\ UNCHANGED <<status, wait_objects, waiting_threads, stop, term>>
  BY DEF AcquireNext, SyncAt, TypeOK, PhaseOK, keptVars
<1>2. o \in Object /\ Elems(sync.todo) = {o} \cup Elems(Tail(sync.todo))
  BY <1>1, HeadAndTail
<1>3. sync'.pc = "acquire" /\ sync'.thr = t /\ sync'.obj = sync.obj /\ sync'.todo = Tail(sync.todo)
  BY <1>1 DEF AcquireNext, TypeOK
<1>4. \/ UNCHANGED mutexVars
      \/ o \in Mutex /\ AcquireMutex(o, t)
  BY DEF AcquireNext, Acquire, AcquireSemaphore, AcquireEvent
<1>5. Unnested /\ Solo /\ Passed /\ Taking
  BY <1>1 DEF InheritInv, Straying
<1> HIDE DEF o, t
<1>6. Taking' /\ AddsAlone'
  BY <1>1, <1>2, <1>3, <1>5 DEF Taking, AddsAlone, t
<1>7. Granting /\ Granting' /\ sync.pc \notin {"add", "update"} /\ sync'.thr = sync.thr
  BY <1>1, <1>3 DEF Granting, t
<1>8. CASE UNCHANGED <<mutex_priority, held_mutexes, holding_thread, current_priority>>
  BY <1>1, <1>6, <1>7, <1>8, InheritKept
<1>9. CASE o \in Mutex /\ AcquireMutex(o, t) /\ lock_count[o] = 0
  <2>1. /\ mutex_priority' = [mutex_priority EXCEPT ![o] = current_priority[t]]
        /\ held_mutexes' = [held_mutexes EXCEPT ![t] = held_mutexes[t] \cup {o}]
        /\ holding_thread' = [holding_thread EXCEPT ![o] = t]
        /\ \E p : current_priority' = [current_priority EXCEPT ![t] = p]
    BY <1>9 DEF AcquireMutex, UpdatePriority, BoostPriority
  <2>2. /\ \A m \in Mutex : m # o => /\ mutex_priority'[m] = mutex_priority[m]
                                     /\ holding_thread'[m] = holding_thread[m]
        /\ \A u \in Thread : u # t => /\ held_mutexes'[u] = held_mutexes[u]
                                      /\ current_priority'[u] = current_priority[u]
    BY <2>1 DEF TypeOK
  <2>3. \A m \in Mutex : Elems(waiting_threads[m]) \subseteq Thread
    BY ListType DEF Object
  <2>4. Unnested'
    BY <1>1, <1>5, <1>7, <2>2, <2>3 DEF Unnested, t
  <2>5. Solo'
    BY <1>1, <1>5 DEF Solo
  <2>6. t \in Elems(waiting_threads[o]) \/ Elems(waiting_threads[o]) = {}
    <3>1. CASE sync.obj = None
      BY <1>1, <1>5, <1>9, <3>1, FreeUnlisted
    <3>2. CASE sync.obj # None
      <4>1. o \in Elems(wait_objects[t]) /\ status[t] \in Waiting
        BY <1>1, <1>2, <1>5, <3>2 DEF Taking, SchedInv, Loops, t
      <4> QED BY <1>1, <4>1 DEF WaitInv, Listed
    <3> QED BY <3>1, <3>2
  <2>7. Passed'
    <3> SUFFICES ASSUME NEW m \in Mutex, NEW w \in Elems(waiting_threads[m]),
                        holding_thread'[m] # None, t \notin Elems(waiting_threads[m])
                 PROVE  mutex_priority'[m] <= current_priority'[w]
      BY <1>1, <1>7 DEF Passed, t
    <3>1. m # o /\ w # t /\ w \in Thread
      BY <2>3, <2>6
    <3>2. holding_thread[m] # None
      BY <2>2, <3>1
    <3>3. mutex_priority[m] <= current_priority[w]
      BY <1>1, <1>5, <3>2 DEF Passed, t
    <3> QED BY <2>2, <3>1, <3>3
  <2> QED BY <1>6, <2>4, <2>5, <2>7 DEF InheritInv
<1>10. CASE o \in Mutex /\ AcquireMutex(o, t) /\ lock_count[o] # 0
  BY <1>8, <1>10 DEF AcquireMutex, prioVars
<1> QED BY <1>4, <1>8, <1>9, <1>10 DEF mutexVars, prioVars

LEMMA AcquireDoneInherit ==
    ASSUME TypeOK, PhaseOK, SchedInv, ListInv, InheritInv, AcquireDone
    PROVE  InheritInv'
<1>1. /\ sync.pc = "acquire" /\ sync.thr \in Thread
      /\ UNCHANGED <<status, held_mutexes, wait_objects, current_priority, waiting_threads,
                     mutex_priority, holding_thread, stop, term>>
  BY DEF AcquireDone, SyncAt, PhaseOK, keptVars, mutexVars, prioVars
<1>2. Granting /\ sync.pc \notin {"add", "update"}
  BY <1>1 DEF Granting
<1>3. CASE sync.obj = None
  <2>1. sync'.pc = "idle"
    BY <1>3 DEF AcquireDone, SyncIdle
  <2>2. Taking' /\ AddsAlone'
    BY <2>1 DEF Taking, AddsAlone
  <2>3. status[sync.thr] = "Running" /\ stop.pc = "idle"
    BY <1>1, <1>3 DEF SchedInv, Loops
  <2>4. \A m \in Mutex : sync.thr \notin Elems(waiting_threads[m])
    BY <1>1, <2>3, RunningUnlisted DEF Object
  <2> QED BY <1>1, <1>2, <2>2, <2>4, InheritKept
<1>4. CASE sync.obj # None
  <2>1. sync'.pc = "remove" /\ sync'.thr = sync.thr
    BY <1>4 DEF AcquireDone, TypeOK
  <2>2. Taking' /\ AddsAlone' /\ Granting'
    BY <2>1 DEF Taking, AddsAlone, Granting
  <2> QED BY <1>1, <1>2, <2>1, <2>2, InheritKept
<1> QED BY <1>3, <1>4

\* RemoveWaitingThread: the mutex takes the best priority of who is left.
LEMMA RemoveNextInherit ==
    ASSUME TypeOK, PhaseOK, MutexInv, ListInv, InheritInv, RemoveNext
    PROVE  InheritInv'
<1> DEFINE o == Head(sync.todo)
           t == sync.thr
           new == Without(waiting_threads[o], t)
<1>1. sync.todo \in Seq(Object) /\ sync.todo # <<>> /\ sync.pc \in {"remove", "detach"}
      /\ t \in Thread
  BY DEF RemoveNext, SyncAt, TypeOK, PhaseOK
<1>2. o \in Object
  BY <1>1, HeadAndTail
<1>3. /\ waiting_threads' = [waiting_threads EXCEPT ![o] = new]
      /\ IF o \in Mutex THEN MutexUpdatePriority(o, new)
         ELSE UNCHANGED <<mutex_priority, current_priority>>
      /\ UNCHANGED <<status, wait_objects, held_mutexes, holding_thread>>
  BY DEF RemoveNext, SetWaitingThreads, prioVars
<1>4. sync'.pc = sync.pc /\ sync'.thr = t
  BY DEF RemoveNext, TypeOK
<1>5. Unnested /\ Solo /\ Passed
  BY <1>1 DEF InheritInv, Straying
<1> HIDE DEF o, t
<1>6. new \in Seq(Thread) /\ Elems(new) = Elems(waiting_threads[o]) \ {t}
  BY <1>2, ListType, WithoutSeq, WithoutDistinct DEF ListInv, ListedOnce
<1> HIDE DEF new
<1>7. \A x \in Object : waiting_threads'[x] = IF x = o THEN new ELSE waiting_threads[x]
  BY <1>3 DEF TypeOK
<1>8. Mutex \subseteq Object /\ \A m \in Mutex : Elems(waiting_threads[m]) \subseteq Thread
  BY ListType DEF Object
<1>9. \A m \in Mutex : Elems(waiting_threads'[m]) \subseteq Elems(waiting_threads[m])
  BY <1>6, <1>7, <1>8
<1>10. (Granting' <=> Granting) /\ sync'.thr = sync.thr /\ sync.pc # "update"
  BY <1>1, <1>4 DEF Granting, t
<1>11. Taking' /\ AddsAlone'
  BY <1>1, <1>4 DEF Taking, AddsAlone
<1>12. Unnested'
  BY <1>3, <1>5, <1>9, <1>10 DEF Unnested
<1>13. Solo'
  BY <1>3, <1>5 DEF Solo
<1>14. Passed'
  <2> SUFFICES ASSUME NEW m \in Mutex, NEW w \in Elems(waiting_threads'[m]),
                      holding_thread[m] # None,
                      ~(Granting /\ t \in Elems(waiting_threads'[m]))
               PROVE  mutex_priority'[m] <= current_priority'[w]
    BY <1>3, <1>10 DEF Passed, t
  <2>1. w \in Elems(waiting_threads[m]) /\ w \in Thread
    BY <1>8, <1>9
  <2>2. CASE o \in Mutex
    <3>1. /\ \A v \in Elems(new) : holding_thread[o] # None => mutex_priority'[o] <= current_priority[v]
          /\ \A n \in Mutex : n # o => mutex_priority'[n] = mutex_priority[n]
          /\ \A u \in Thread : u # holding_thread[o] => current_priority'[u] = current_priority[u]
      BY <1>3, <1>6, <2>2, MutexUpdatePasses
    <3>2. w # holding_thread[o]
      <4> SUFFICES ASSUME w = holding_thread[o] PROVE FALSE
        OBVIOUS
      <4>1. holding_thread[o] # None
        BY <2>1, KernelAssumption DEF Object
      <4>2. Granting /\ w = t
        BY <1>5, <2>1, <2>2, <4>1, HolderWaitsNot DEF t
      <4> QED BY <4>2
    <3>3. CASE m = o
      BY <1>7, <1>8, <2>1, <3>1, <3>2, <3>3
    <3>4. CASE m # o
      <4>1. waiting_threads'[m] = waiting_threads[m]
        BY <1>7, <1>8, <3>4
      <4>2. mutex_priority[m] <= current_priority[w]
        BY <1>5, <1>10, <2>1, <4>1 DEF Passed, t
      <4> QED BY <2>1, <3>1, <3>2, <3>4, <4>2
    <3> QED BY <3>3, <3>4
  <2>3. CASE o \notin Mutex
    <3>1. waiting_threads'[m] = waiting_threads[m]
      BY <1>7, <1>8, <2>3
    <3>2. mutex_priority[m] <= current_priority[w]
      BY <1>5, <1>10, <2>1, <3>1 DEF Passed, t
    <3> QED BY <1>3, <2>3, <3>2
  <2> QED BY <2>2, <2>3
<1> QED BY <1>11, <1>12, <1>13, <1>14 DEF InheritInv

LEMMA RemoveDoneInherit ==
    ASSUME TypeOK, PhaseOK, SchedInv, ListInv, InheritInv, RemoveDone
    PROVE  InheritInv'
<1> DEFINE t == sync.thr
<1>1. /\ sync.pc \in {"remove", "detach"} /\ sync.todo = <<>> /\ t \in Thread
      /\ wait_objects' = [wait_objects EXCEPT ![t] = <<>>]
      /\ UNCHANGED <<held_mutexes, current_priority, waiting_threads, mutex_priority, holding_thread>>
  BY DEF RemoveDone, SyncAt, PhaseOK, objectVars
<1>2. sync'.pc \in {"idle", "scan"}
  <2>1. sync' = LoopOn
    BY DEF RemoveDone
  <2> QED BY <2>1 DEF LoopOn, SyncIdle
<1>3. Taking' /\ AddsAlone'
  BY <1>2 DEF Taking, AddsAlone
<1>4. \A m \in Mutex : t \notin Elems(waiting_threads[m])
  <2>1. \A m : m \notin Elems(sync.todo)
    BY <1>1, EmptyElems
  <2> QED BY <1>1, <2>1 DEF ListInv, OnlyWaiters, Object
<1>5. \A u \in Thread : wait_objects'[u] = wait_objects[u] \/ wait_objects'[u] = <<>>
  BY <1>1 DEF TypeOK
<1>6. \A u \in Thread : status'[u] = "WaitSynchAll" => status[u] = "WaitSynchAll"
  BY DEF RemoveDone, ResumeFromWait, TypeOK
<1>7. sync.pc \notin {"add", "update"}
  BY <1>1
<1> QED BY <1>1, <1>3, <1>4, <1>5, <1>6, <1>7, InheritKept

\* AddWaitingThread: the mutex inherits from the new waiter, and the waiter, which
\* holds nothing, is not changed by that.
LEMMA AddNextInherit ==
    ASSUME TypeOK, PhaseOK, MutexInv, ListInv, InheritInv, Disciplined', AddNext
    PROVE  InheritInv'
<1> DEFINE o == Head(sync.todo)
           t == sync.thr
           list == waiting_threads[o]
           new == IF t \in Elems(list) THEN list ELSE Append(list, t)
<1>1. sync.todo \in Seq(Object) /\ sync.todo # <<>> /\ sync.pc = "add" /\ t \in Thread
  BY DEF AddNext, SyncAt, TypeOK, PhaseOK
<1>2. o \in Object /\ o \in Elems(sync.todo)
  BY <1>1, HeadAndTail
<1>3. /\ waiting_threads' = [waiting_threads EXCEPT ![o] = new]
      /\ IF o \in Mutex THEN MutexUpdatePriority(o, new)
         ELSE UNCHANGED <<mutex_priority, current_priority>>
      /\ UNCHANGED <<status, wait_objects, held_mutexes, holding_thread, stop, term>>
  BY DEF AddNext, SetWaitingThreads, prioVars, keptVars
<1>4. sync'.pc = "idle" \/ (sync'.pc = "add" /\ sync'.thr = t)
  <2>1. sync' = SyncIdle \/ sync' = [sync EXCEPT !.todo = Tail(@)]
    BY DEF AddNext
  <2>2. CASE sync' = SyncIdle
    BY <2>2 DEF SyncIdle
  <2>3. CASE sync' = [sync EXCEPT !.todo = Tail(@)]
    BY <1>1, <2>3 DEF TypeOK
  <2> QED BY <2>1, <2>2, <2>3
<1>5. stop.pc = "idle" /\ term.pc = "idle"
  BY <1>1 DEF InheritInv, AddsAlone
<1>6. Taking' /\ AddsAlone'
  BY <1>3, <1>4, <1>5 DEF Taking, AddsAlone
<1>7. CASE Straying
  <2>1. CASE sync'.pc = "idle"
    <3>1. KernelIdle'
      BY <1>3, <1>5, <2>1 DEF KernelIdle
    <3>2. \A m \in Mutex \cap Elems(wait_objects[t]) :
            held_mutexes[t] = {} /\ (status[t] = "WaitSynchAll" => Len(wait_objects[t]) = 1)
      BY <1>1, <1>3, <3>1 DEF Disciplined
    <3> QED BY <1>7, <3>2 DEF Straying
  <2>2. CASE sync'.pc = "add" /\ sync'.thr = t
    BY <1>3, <1>6, <1>7, <2>2 DEF InheritInv, Straying
  <2> QED BY <1>4, <2>1, <2>2
<1>8. CASE ~Straying
  <2>1. Unnested /\ Solo /\ Passed
    BY <1>8 DEF InheritInv
  <2>2. o \in Mutex => held_mutexes[t] = {}
    BY <1>1, <1>2, <1>8 DEF Straying, ListInv, Adding
  <2>3. sync.pc # "update" /\ ~Granting /\ ~Granting'
    BY <1>1, <1>4 DEF Granting
  <2> HIDE DEF o, t
  <2>4. list \in Seq(Thread) /\ Elems(list) \subseteq Thread /\ Distinct(list)
    BY <1>2, ListType DEF ListInv, ListedOnce
  <2> HIDE DEF list
  <2>5. new \in Seq(Thread) /\ Elems(new) = Elems(list) \cup {t}
    <3>1. CASE t \in Elems(list)
      BY <2>4, <3>1
    <3>2. CASE t \notin Elems(list)
      BY <1>1, <2>4, <3>2, AppendDistinct, ElemsAppend
    <3> QED BY <3>1, <3>2
  <2> HIDE DEF new
  <2>6. \A x \in Object : waiting_threads'[x] = IF x = o THEN new ELSE waiting_threads[x]
    BY <1>3 DEF TypeOK
  <2>7. Mutex \subseteq Object /\ \A m \in Mutex : Elems(waiting_threads[m]) \subseteq Thread
    BY ListType DEF Object
  <2>8. \A m \in Mutex : \A w \in Elems(waiting_threads'[m]) :
          /\ w \in Elems(waiting_threads[m]) \/ (m = o /\ w = t)
          /\ w \in Thread
    BY <1>1, <2>5, <2>6, <2>7 DEF list
  <2>9. Unnested'
    BY <1>3, <2>1, <2>2, <2>3, <2>8 DEF Unnested
  <2>10. Solo'
    BY <1>3, <2>1 DEF Solo
  <2>11. Passed'
    <3> SUFFICES ASSUME NEW m \in Mutex, NEW w \in Elems(waiting_threads'[m]),
                        holding_thread[m] # None
                 PROVE  mutex_priority'[m] <= current_priority'[w]
      BY <1>3 DEF Passed
    <3>1. CASE o \in Mutex
      <4>1. /\ \A v \in Elems(new) : holding_thread[o] # None => mutex_priority'[o] <= current_priority[v]
            /\ \A n \in Mutex : n # o => mutex_priority'[n] = mutex_priority[n]
            /\ \A u \in Thread : u # holding_thread[o] => current_priority'[u] = current_priority[u]
        BY <1>3, <2>5, <3>1, MutexUpdatePasses
      <4>2. w # holding_thread[o]
        <5> SUFFICES ASSUME w = holding_thread[o] PROVE FALSE
          OBVIOUS
        <5>1. w \in Thread /\ holding_thread[o] # None
          BY <2>8, KernelAssumption DEF Object
        <5>2. o \in held_mutexes[w]
          BY <3>1, <5>1 DEF MutexInv, Holders
        <5> QED BY <2>1, <2>2, <2>3, <2>8, <3>1, <5>2 DEF Unnested
      <4>3. CASE m = o
        BY <2>6, <2>7, <2>8, <4>1, <4>2, <4>3
      <4>4. CASE m # o
        <5>1. w \in Elems(waiting_threads[m]) /\ w \in Thread
          BY <2>8, <4>4
        <5>2. mutex_priority[m] <= current_priority[w]
          BY <2>1, <2>3, <5>1 DEF Passed
        <5> QED BY <4>1, <4>2, <4>4, <5>1, <5>2
      <4> QED BY <4>3, <4>4
    <3>2. CASE o \notin Mutex
      <4>1. w \in Elems(waiting_threads[m])
        BY <2>8, <3>2
      <4>2. mutex_priority[m] <= current_priority[w]
        BY <2>1, <2>3, <4>1 DEF Passed
      <4> QED BY <1>3, <3>2, <4>2
    <3> QED BY <3>1, <3>2
  <2> QED BY <1>6, <2>9, <2>10, <2>11 DEF InheritInv
<1> QED BY <1>7, <1>8

\* SetThreadPriority: the mutexes the thread waits for recompute their priority.
LEMMA UpdateNextInherit ==
    ASSUME TypeOK, PhaseOK, MutexInv, ListInv, InheritInv, UpdateNext
    PROVE  InheritInv'
<1>1. /\ sync.pc = "update"
      /\ UNCHANGED <<status, wait_objects, held_mutexes, holding_thread, waiting_threads, stop, term>>
  BY DEF UpdateNext, SyncAt, keptVars
<1>2. PICK o \in sync.muts :
        /\ MutexUpdatePriority(o, waiting_threads[o])
        /\ sync' = IF sync.muts = {o} THEN SyncIdle ELSE [sync EXCEPT !.muts = @ \ {o}]
  BY DEF UpdateNext
<1>3. o \in Mutex /\ o \in Object
  BY DEF TypeOK, Object
<1>4. \/ sync'.pc = "idle" /\ sync.muts = {o}
      \/ sync'.pc = "update" /\ sync'.muts = sync.muts \ {o}
  <2>1. CASE sync.muts = {o}
    BY <1>2, <2>1 DEF SyncIdle
  <2>2. CASE sync.muts # {o}
    BY <1>1, <1>2, <2>2 DEF TypeOK
  <2> QED BY <2>1, <2>2
<1>5. Unnested /\ Solo /\ Passed
  BY <1>1 DEF InheritInv, Straying
<1>6. Taking' /\ AddsAlone' /\ ~Granting /\ ~Granting'
  BY <1>1, <1>4 DEF Taking, AddsAlone, Granting
<1>7. waiting_threads[o] \in Seq(Thread)
  BY <1>3, ListType
<1>8. /\ \A v \in Elems(waiting_threads[o]) : holding_thread[o] # None =>
           mutex_priority'[o] <= current_priority[v]
      /\ \A n \in Mutex : n # o => mutex_priority'[n] = mutex_priority[n]
      /\ \A u \in Thread : u # holding_thread[o] => current_priority'[u] = current_priority[u]
  BY <1>2, <1>3, <1>7, MutexUpdatePasses
<1>9. Unnested' /\ Solo'
  BY <1>1, <1>5, <1>6 DEF Unnested, Solo
<1>10. Passed'
  <2> SUFFICES ASSUME NEW m \in Mutex, NEW w \in Elems(waiting_threads[m]), holding_thread[m] # None,
                      ~(sync'.pc = "update" /\ m \in sync'.muts)
               PROVE  mutex_priority'[m] <= current_priority'[w]
    BY <1>1 DEF Passed
  <2>1. w \in Thread
    BY ListType DEF Object
  <2>2. w # holding_thread[o]
    <3> SUFFICES ASSUME w = holding_thread[o] PROVE FALSE
      OBVIOUS
    <3>1. holding_thread[o] # None
      BY <2>1, KernelAssumption DEF Object
    <3> QED BY <1>3, <1>5, <1>6, <3>1, HolderWaitsNot
  <2>3. CASE m = o
    BY <1>8, <2>1, <2>2, <2>3
  <2>4. CASE m # o
    <3>1. mutex_priority[m] <= current_priority[w]
      BY <1>4, <1>5, <1>6, <2>4 DEF Passed
    <3> QED BY <1>8, <2>1, <2>2, <2>4, <3>1
  <2> QED BY <2>3, <2>4
<1> QED BY <1>6, <1>9, <1>10 DEF InheritInv

\* The first step of a call that does not put the caller on a list.
LEMMA IdleInherit ==
    ASSUME TypeOK, InheritInv, sync.pc = "idle",
           UNCHANGED <<waiting_threads, mutex_priority, wait_objects>>,
           \A t \in Thread : status'[t] = "WaitSynchAll" => status[t] = "WaitSynchAll",
           \A m \in Mutex : holding_thread'[m] # None => holding_thread[m] # None,
           \A t \in Thread : held_mutexes[t] = {} => held_mutexes'[t] = {},
           \A m \in Mutex : \A w \in Elems(waiting_threads[m]) :
             current_priority'[w] = current_priority[w] \/ (sync'.pc = "update" /\ m \in sync'.muts),
           \/ sync' = sync
           \/ sync'.pc \in {"idle", "scan", "remove", "detach", "update"}
           \/ sync'.pc = "acquire" /\ sync'.obj = None
    PROVE  InheritInv'
<1>1. sync'.pc # "add" /\ (sync'.pc = "acquire" => sync'.obj = None)
  OBVIOUS
<1>2. Taking' /\ AddsAlone'
  BY <1>1 DEF Taking, AddsAlone
<1>3. sync.pc \notin {"add", "update"} /\ ~Granting
  BY DEF Granting
<1> QED BY <1>2, <1>3, InheritKept

LEMMA BeginStopInherit ==
    ASSUME TypeOK, InheritInv, sync.pc = "idle", NEW t \in Thread, BeginStop(t)
    PROVE  InheritInv'
<1>1. /\ UNCHANGED <<waiting_threads, mutex_priority, wait_objects, holding_thread, held_mutexes,
                     current_priority>>
      /\ status' = [status EXCEPT ![t] = "Dead"] /\ sync' = ScanOf(t)
  BY DEF BeginStop, objectVars
<1>2. \A u \in Thread : status'[u] = "WaitSynchAll" => status[u] = "WaitSynchAll"
  BY <1>1 DEF TypeOK
<1>3. sync'.pc = "scan"
  BY <1>1 DEF ScanOf, SyncIdle
<1> QED BY <1>1, <1>2, <1>3, IdleInherit

LEMMA OuterInherit ==
    ASSUME TypeOK, PhaseOK, InheritInv, StopStep \/ TermStep
    PROVE  InheritInv'
<1>1. sync.pc = "idle"
  BY DEF StopStep, StopDetach, StopRelease, StopDone, TermStep, TermVictim, TermCurrent, TermDone,
        TermAt, StopAt
<1>2. CASE StopDetach
  <2>1. UNCHANGED <<waiting_threads, mutex_priority, wait_objects, holding_thread, held_mutexes,
                    current_priority, status>>
    BY <1>2 DEF StopDetach, threadVars, objectVars
  <2>2. sync'.pc \in {"idle", "detach"}
    BY <1>2 DEF StopDetach, SyncIdle
  <2> QED BY <1>1, <2>1, <2>2, IdleInherit
<1>3. CASE StopRelease
  <2>1. PICK m \in stop.muts : /\ holding_thread' = [holding_thread EXCEPT ![m] = None]
                               /\ sync' = ScanOf(m)
    BY <1>3 DEF StopRelease
  <2>2. UNCHANGED <<waiting_threads, mutex_priority, wait_objects, held_mutexes, current_priority,
                    status>>
    BY <1>3 DEF StopRelease, threadVars
  <2>3. sync'.pc = "scan"
    BY <2>1 DEF ScanOf, SyncIdle
  <2>4. \A n \in Mutex : holding_thread'[n] # None => holding_thread[n] # None
    BY <2>1 DEF TypeOK
  <2> QED BY <1>1, <2>2, <2>3, <2>4, IdleInherit
<1>4. CASE StopDone
  <2>1. /\ UNCHANGED <<waiting_threads, mutex_priority, wait_objects, holding_thread,
                       current_priority, status, sync>>
        /\ held_mutexes' = [held_mutexes EXCEPT ![stop.thr] = {}]
    BY <1>4 DEF StopDone, objectVars, coreVars
  <2>2. \A t \in Thread : held_mutexes[t] = {} => held_mutexes'[t] = {}
    BY <2>1 DEF TypeOK
  <2> QED BY <1>1, <2>1, <2>2, IdleInherit
<1>5. CASE \E t \in Thread : BeginStop(t)
  BY <1>1, <1>5, BeginStopInherit
<1>6. CASE UNCHANGED <<threadVars, objectVars, coreVars, sync>>
  <2>1. UNCHANGED <<waiting_threads, mutex_priority, wait_objects, holding_thread, held_mutexes,
                    current_priority, status, sync>>
    BY <1>6 DEF threadVars, objectVars, coreVars
  <2> QED BY <1>1, <2>1, IdleInherit
<1>7. CASE TermCurrent
  <2> DEFINE t == current_thread[term.core]
  <2>1. term.core \in Core
    BY <1>7, KernelAssumption DEF TermCurrent, TypeOK, Core
  <2>2. t \in Thread \cup {None}
    BY <2>1 DEF TypeOK
  <2>3. \/ t # None /\ BeginStop(t)
        \/ UNCHANGED <<threadVars, objectVars, coreVars, sync>>
    BY <1>7 DEF TermCurrent
  <2> HIDE DEF t
  <2> QED BY <1>5, <1>6, <2>2, <2>3
<1> QED BY <1>2, <1>3, <1>4, <1>5, <1>6, <1>7
        DEF StopStep, TermStep, TermVictim, TermDone, Victims

\* A thread begins to wait; it may be about to break the rule.
LEMMA WaitBlocksInherit ==
    ASSUME TypeOK, SchedInv, ListInv, InheritInv, NEW c \in Core, NEW all \in BOOLEAN,
           NEW list, NEW timed, WaitBlocks(c, all, list, timed)
    PROVE  InheritInv'
<1> DEFINE t == current_thread[c]
           y == IF all THEN "WaitSynchAll" ELSE "WaitSynchAny"
<1>1. /\ Calls(c, t)
      /\ UNCHANGED <<waiting_threads, mutex_priority, holding_thread, held_mutexes,
                     current_priority, stop, term>>
      /\ status' = [status EXCEPT ![t] = y]
      /\ wait_objects' = [wait_objects EXCEPT ![t] = list]
  BY DEF WaitBlocks, objectVars
<1>2. t \in Thread /\ status[t] = "Running" /\ sync.pc = "idle" /\ stop.pc = "idle" /\ term.pc = "idle"
  BY <1>1, CallerRuns
<1>3. \/ sync'.pc = "idle" /\ list = <<>>
      \/ sync'.pc = "add" /\ sync'.thr = t
  <2>1. CASE list = <<>>
    BY <2>1 DEF WaitBlocks, SyncIdle
  <2>2. CASE list # <<>>
    <3>1. sync' = [SyncIdle EXCEPT !.pc = "add", !.thr = t, !.todo = list]
      BY <2>2 DEF WaitBlocks
    <3> HIDE DEF t
    <3> QED BY <3>1 DEF SyncIdle
  <2> QED BY <2>1, <2>2
<1> HIDE DEF t, y
<1>4. /\ \A u \in Thread : wait_objects'[u] = IF u = t THEN list ELSE wait_objects[u]
      /\ \A u \in Thread : status'[u] = IF u = t THEN y ELSE status[u]
  BY <1>1 DEF TypeOK
<1>5. Unnested /\ Solo /\ Passed /\ ~Granting /\ sync.pc # "update"
  BY <1>2 DEF InheritInv, Straying, Granting
<1>6. Taking' /\ AddsAlone'
  BY <1>1, <1>2, <1>3 DEF Taking, AddsAlone
<1>7. Unnested'
  BY <1>1, <1>5 DEF Unnested
<1>8. Passed'
  BY <1>1, <1>5 DEF Passed
<1>9. ASSUME ~Straying' PROVE Solo'
  <2> SUFFICES ASSUME NEW u \in Thread, NEW m \in Mutex, m \in Elems(wait_objects'[u]),
                      status'[u] = "WaitSynchAll"
               PROVE  Len(wait_objects'[u]) = 1
    BY DEF Solo
  <2>1. CASE u # t
    BY <1>4, <1>5, <2>1 DEF Solo
  <2>2. CASE u = t
    <3>1. list # <<>>
      BY <1>4, <2>2, EmptyElems
    <3> QED BY <1>3, <1>9, <2>2, <3>1 DEF Straying
  <2> QED BY <2>1, <2>2
<1> QED BY <1>6, <1>7, <1>8, <1>9 DEF InheritInv

LEMMA ThreadCallInherit ==
    ASSUME TypeOK, SchedInv, ListInv, InheritInv, NEW c \in Core, ThreadCall(c)
    PROVE  InheritInv'
<1> DEFINE kept == <<waiting_threads, mutex_priority, wait_objects>>
           more == <<holding_thread, held_mutexes, current_priority>>
<1>0. \A o : ScanOf(o).pc = "scan"
  BY DEF ScanOf, SyncIdle
<1>1. CASE WaitReturns(c)
  <2>1. UNCHANGED <<kept, more, status>> /\ Calls(c, current_thread[c])
    BY <1>1 DEF WaitReturns, WaitAcquires, threadVars, objectVars, coreVars
  <2>2. sync'.pc = "acquire" /\ sync'.obj = None
    <3>1. \E x, todo : sync' = [SyncIdle EXCEPT !.pc = "acquire", !.thr = x, !.todo = todo]
      BY <1>1 DEF WaitReturns, WaitAcquires
    <3> QED BY <3>1 DEF SyncIdle
  <2> QED BY <2>1, <2>2, CallerRuns, IdleInherit
<1>2. CASE WaitBegins(c)
  BY <1>2, WaitBlocksInherit DEF WaitBegins
<1>3. CASE \E timed \in BOOLEAN : SleepThread(c, timed)
  <2>1. /\ UNCHANGED <<kept, more, sync>> /\ Calls(c, current_thread[c])
        /\ status' = [status EXCEPT ![current_thread[c]] = "WaitSleep"]
    BY <1>3 DEF SleepThread, objectVars, callVars
  <2>2. \A u \in Thread : status'[u] = "WaitSynchAll" => status[u] = "WaitSynchAll"
    BY <2>1 DEF TypeOK
  <2> QED BY <2>1, <2>2, CallerRuns, IdleInherit
<1>4. CASE \E t \in Thread : CreateThread(c, t)
  <2>1. PICK t \in Thread : CreateThread(c, t)
    BY <1>4
  <2>2. /\ UNCHANGED <<kept, more, sync>> /\ Calls(c, current_thread[c])
        /\ status' = [status EXCEPT ![t] = "Ready"]
    BY <2>1 DEF CreateThread, NewThread, objectVars
  <2>3. \A u \in Thread : status'[u] = "WaitSynchAll" => status[u] = "WaitSynchAll"
    BY <2>2 DEF TypeOK
  <2> QED BY <2>2, <2>3, CallerRuns, IdleInherit
<1>5. CASE \E t \in Thread, p \in SetPriorities : SetThreadPriority(c, t, p)
  <2>1. PICK t \in Thread, p \in SetPriorities : SetThreadPriority(c, t, p)
    BY <1>5
  <2> DEFINE pending == {m \in Mutex : t \in Elems(waiting_threads[m])}
  <2>2. /\ UNCHANGED <<kept, holding_thread, held_mutexes, status>> /\ Calls(c, current_thread[c])
        /\ \E q : current_priority' = [current_priority EXCEPT ![t] = q]
        /\ sync' = IF pending = {} THEN SyncIdle
                   ELSE [SyncIdle EXCEPT !.pc = "update", !.muts = pending]
    BY <2>1 DEF SetThreadPriority, objectVars
  <2>3. \/ sync'.pc = "idle" /\ pending = {}
        \/ sync'.pc = "update" /\ sync'.muts = pending
    <3> HIDE DEF pending
    <3> QED BY <2>2 DEF SyncIdle
  <2>4. \A u \in Thread : u # t => current_priority'[u] = current_priority[u]
    BY <2>2 DEF TypeOK
  <2>5. \A m \in Mutex : Elems(waiting_threads[m]) \subseteq Thread
    BY ListType DEF Object
  <2>6. \A m \in Mutex : \A w \in Elems(waiting_threads[m]) :
          current_priority'[w] = current_priority[w] \/ (sync'.pc = "update" /\ m \in sync'.muts)
    BY <2>3, <2>4, <2>5
  <2> QED BY <2>2, <2>3, <2>6, CallerRuns, IdleInherit
<1>6. CASE ExitThread(c)
  <2>1. Calls(c, current_thread[c]) /\ BeginStop(current_thread[c])
    BY <1>6 DEF ExitThread
  <2> QED BY <2>1, CallerRuns, BeginStopInherit
<1>7. CASE \/ \E p \in Process : TerminateProcess(c, p)
           \/ \E p \in Process, S \in Controllable, stopped \in BOOLEAN :
                ControlProcess(c, p, S, stopped)
           \/ \E e \in Event : ClearEvent(c, e)
  <2>1. UNCHANGED <<kept, more, status, sync>> /\ Calls(c, current_thread[c])
    BY <1>7 DEF TerminateProcess, ControlProcess, ClearEvent, threadVars, objectVars, coreVars, callVars
  <2> QED BY <2>1, CallerRuns, IdleInherit
<1>8. CASE \E m \in Mutex : ReleaseMutex(c, m)
  <2>1. PICK m \in Mutex : ReleaseMutex(c, m)
    BY <1>8
  <2> DEFINE t == current_thread[c]
  <2>2. UNCHANGED <<kept, status>> /\ Calls(c, t)
    BY <2>1 DEF ReleaseMutex
  <2>3. CASE lock_count[m] # 1
    <3>1. UNCHANGED <<more, sync>>
      BY <2>1, <2>3 DEF ReleaseMutex, prioVars
    <3> QED BY <2>2, <3>1, CallerRuns, IdleInherit
  <2>4. CASE lock_count[m] = 1
    <3>1. /\ held_mutexes' = [held_mutexes EXCEPT ![t] = held_mutexes[t] \ {m}]
          /\ \E q : current_priority' = [current_priority EXCEPT ![t] = q]
          /\ holding_thread' = [holding_thread EXCEPT ![m] = None]
          /\ sync' = ScanOf(m)
      BY <2>1, <2>4 DEF ReleaseMutex, HeldAfterRelease, UpdatePriority, BoostPriority
    <3>2. t \in Thread /\ status[t] = "Running" /\ sync.pc = "idle" /\ stop.pc = "idle"
      BY <2>2, CallerRuns
    <3> HIDE DEF t
    <3>3. \A n \in Mutex : t \notin Elems(waiting_threads[n])
      BY <3>2, RunningUnlisted DEF Object
    <3>4. \A n \in Mutex : Elems(waiting_threads[n]) \subseteq Thread
      BY ListType DEF Object
    <3>5. \A u \in Thread : u # t => current_priority'[u] = current_priority[u]
      BY <3>1 DEF TypeOK
    <3>6. \A n \in Mutex : \A w \in Elems(waiting_threads[n]) : current_priority'[w] = current_priority[w]
      BY <3>3, <3>4, <3>5
    <3>7. \A u \in Thread : held_mutexes[u] = {} => held_mutexes'[u] = {}
      BY <3>1 DEF TypeOK
    <3>8. \A n \in Mutex : holding_thread'[n] # None => holding_thread[n] # None
      BY <3>1 DEF TypeOK
    <3> QED BY <1>0, <2>2, <3>1, <3>2, <3>6, <3>7, <3>8, IdleInherit
  <2> QED BY <2>3, <2>4
<1>9. CASE \/ \E s \in Semaphore, n \in ReleaseCounts : ReleaseSemaphore(c, s, n)
           \/ \E e \in Event : SignalEvent(c, e)
  <2>1. /\ UNCHANGED <<kept, more, status>> /\ Calls(c, current_thread[c])
        /\ \E o : sync' = ScanOf(o)
    BY <1>9 DEF ReleaseSemaphore, SignalEvent, Signal, threadVars, coreVars
  <2> QED BY <1>0, <2>1, CallerRuns, IdleInherit
<1> QED BY <1>1, <1>2, <1>3, <1>4, <1>5, <1>6, <1>7, <1>8, <1>9 DEF ThreadCall

LEMMA StepInherit ==
    ASSUME TypeOK, PhaseOK, SchedInv, WaitInv, MutexInv, ListInv, InheritInv, Disciplined', [Next]_vars
    PROVE  InheritInv'
<1> DEFINE kept == <<waiting_threads, mutex_priority, wait_objects, holding_thread, held_mutexes,
                     current_priority>>
<1>1. CASE SyncStep
  BY <1>1, ScanInherit, AcquireNextInherit, AcquireDoneInherit, RemoveNextInherit,
     RemoveDoneInherit, AddNextInherit, UpdateNextInherit DEF SyncStep
<1>2. CASE StopStep \/ TermStep
  BY <1>2, OuterInherit
<1>3. CASE \E c \in Core : ThreadCall(c)
  BY <1>3, ThreadCallInherit
<1>4. CASE \E c \in Core : Reschedule(c)
  <2>1. PICK c \in Core : Reschedule(c)
    BY <1>4
  <2>2. UNCHANGED <<kept, sync>> /\ sync.pc = "idle"
    BY <2>1, Idle DEF Reschedule, RescheduleCore, objectVars
  <2>3. \A u \in Thread : status'[u] = "WaitSynchAll" => status[u] = "WaitSynchAll"
    BY <2>1, RescheduleSched DEF Switches
  <2> QED BY <2>2, <2>3, IdleInherit
<1>5. CASE \E t \in Thread : TimeoutFires(t)
  <2>1. PICK t \in Thread : TimeoutFires(t)
    BY <1>5
  <2>2. UNCHANGED kept /\ sync.pc = "idle"
    BY <2>1, Idle DEF TimeoutFires, objectVars
  <2>3. \A u \in Thread : status'[u] = "WaitSynchAll" => status[u] = "WaitSynchAll"
    BY <2>1 DEF TimeoutFires, ResumeFromWait, TypeOK
  <2>4. sync' = sync \/ sync'.pc = "remove"
    BY <2>1 DEF TimeoutFires, SyncIdle
  <2> QED BY <2>2, <2>3, <2>4, IdleInherit
<1>6. CASE \E t \in Thread, delayed \in BOOLEAN : ProcessRun(t, delayed)
  <2>1. PICK t \in Thread, delayed \in BOOLEAN : ProcessRun(t, delayed)
    BY <1>6
  <2>2. /\ UNCHANGED <<kept, sync>> /\ sync.pc = "idle"
        /\ \E y \in {"Ready", "WaitSleep"} : status' = [status EXCEPT ![t] = y]
    BY <2>1, Idle DEF ProcessRun, NewThread, objectVars
  <2>3. \A u \in Thread : status'[u] = "WaitSynchAll" => status[u] = "WaitSynchAll"
    BY <2>2 DEF TypeOK
  <2> QED BY <2>2, <2>3, IdleInherit
<1>7. CASE \E e \in Event : ServiceSignal(e)
  <2>1. /\ UNCHANGED <<kept, status>> /\ sync.pc = "idle"
        /\ \E o : sync' = ScanOf(o)
    BY <1>7, Idle DEF ServiceSignal, Signal, threadVars, coreVars
  <2>2. \A o : ScanOf(o).pc = "scan"
    BY DEF ScanOf, SyncIdle
  <2> QED BY <2>1, <2>2, IdleInherit
<1>8. CASE UNCHANGED vars
  <2>1. UNCHANGED <<kept, status, sync, stop, term>>
    BY <1>8 DEF vars, threadVars, objectVars, coreVars, callVars
  <2> QED BY <2>1 DEF InheritInv, Taking, AddsAlone, Straying, Unnested, Solo, Passed, Granting
<1> QED BY <1>1, <1>2, <1>3, <1>4, <1>5, <1>6, <1>7, <1>8 DEF Next, KernelStep

LEMMA InitInherit == Init => InheritInv
<1> SUFFICES ASSUME Init PROVE InheritInv
  OBVIOUS
<1>1. sync.pc = "idle" /\ Mutex \subseteq Object
  BY DEF Init, SyncIdle, Object
<1>2. /\ \A o \in Object : Elems(waiting_threads[o]) = {}
      /\ \A t \in Thread : Elems(wait_objects[t]) = {}
  BY DEF Init, Elems
<1> QED BY <1>1, <1>2 DEF InheritInv, Taking, AddsAlone, Unnested, Solo, Passed

\* The holder of a mutex has at least the priority the mutex inherited.
LEMMA InheritedByHolder ==
    ASSUME TypeOK, MutexInv, InheritInv
    PROVE  NoPriorityInversion
<1> SUFFICES ASSUME KernelIdle, NEW m \in Mutex, NEW w \in Elems(waiting_threads[m]),
                    holding_thread[m] # None
             PROVE  current_priority[holding_thread[m]] <= current_priority[w]
  BY DEF NoPriorityInversion
<1> DEFINE h == holding_thread[m]
           S == {nominal_priority[h]} \cup {mutex_priority[n] : n \in held_mutexes[h]}
<1>1. sync.pc = "idle" /\ stop.pc = "idle"
  BY DEF KernelIdle
<1>2. h \in Thread /\ w \in Thread
  BY ListType DEF TypeOK, Object
<1>3. mutex_priority[m] <= current_priority[w]
  BY <1>1 DEF InheritInv, Straying, Passed, Granting
<1>4. m \in held_mutexes[h] /\ status[h] # "Dead"
  BY <1>1, <1>2 DEF MutexInv, Holders
<1>5. current_priority[h] = Best(S)
  BY <1>2, <1>4 DEF MutexInv, Boosted, Inherited
<1>6. S \subseteq Priority /\ mutex_priority[m] \in S
  <2>1. nominal_priority[h] \in Priority /\ held_mutexes[h] \subseteq Mutex
    BY <1>2 DEF TypeOK
  <2>2. \A n \in Mutex : mutex_priority[n] \in Priority
    BY DEF TypeOK
  <2> HIDE DEF h
  <2> QED BY <1>4, <2>1, <2>2
<1> HIDE DEF S
<1>7. Best(S) <= mutex_priority[m]
  BY <1>6, BestIsLeast
<1>8. current_priority[h] \in Int /\ mutex_priority[m] \in Int /\ current_priority[w] \in Int
  BY <1>2 DEF TypeOK, Priority
<1> HIDE DEF h
<1> QED BY <1>3, <1>5, <1>7, <1>8 DEF h

\* Mutex::UpdatePriority and Thread::UpdatePriority: a guest that takes no second
\* mutex by waiting, and waits for mutexes one at a time, never has a thread wait
\* for a mutex that a thread of worse priority holds, whatever the timeouts,
\* priority changes, exits and terminations.
THEOREM InversionPrevented == Spec /\ []Disciplined => []NoPriorityInversion
<1>1. Init => InheritInv
  BY InitInherit
<1>2. TypeOK /\ PhaseOK /\ SchedInv /\ WaitInv /\ MutexInv /\ ListInv /\ InheritInv
        /\ Disciplined' /\ [Next]_vars => InheritInv'
  BY StepInherit
<1>3. TypeOK /\ MutexInv /\ InheritInv => NoPriorityInversion
  BY InheritedByHolder
<1>4. Spec => []WaitInv
  BY NothingLostInv
<1> QED BY <1>1, <1>2, <1>3, <1>4, MutexesAgree, ListsAgree, PTL DEF Spec

\* A program with one mutex, which its threads wait for by itself.
OneMutexAlone ==
    /\ \A m, n \in Mutex : m = n
    /\ \A t \in Thread : \A list \in WaitLists[t] :
         Elems(list) \cap Mutex # {} => Len(list) = 1

LEMMA StepHanded ==
    ASSUME TypeOK, PhaseOK, Handed, [Next]_vars
    PROVE  Handed'
<1>1. CASE UNCHANGED wait_objects
  BY <1>1 DEF Handed
<1>2. CASE RemoveDone
  <2>1. \A u \in Thread : wait_objects'[u] = wait_objects[u] \/ wait_objects'[u] = <<>>
    BY <1>2 DEF RemoveDone, TypeOK
  <2> QED BY <2>1 DEF Handed
<1>3. CASE \E c \in Core : ThreadCall(c)
  <2>1. PICK c \in Core : ThreadCall(c)
    BY <1>3
  <2>2. CASE WaitBegins(c)
    <3>0. PICK t \in Thread : \E list \in WaitLists[t] : \E all, timed \in BOOLEAN :
            current_thread[c] = t /\ WaitBlocks(c, all, list, timed)
      BY <2>2 DEF WaitBegins
    <3>1. PICK list \in WaitLists[t] : \E all, timed \in BOOLEAN :
            current_thread[c] = t /\ WaitBlocks(c, all, list, timed)
      BY <3>0
    <3>2. wait_objects' = [wait_objects EXCEPT ![t] = list]
      BY <3>1 DEF WaitBlocks
    <3>3. \A u \in Thread : wait_objects'[u] = IF u = t THEN list ELSE wait_objects[u]
      BY <3>2 DEF TypeOK
    <3> QED BY <3>3 DEF Handed
  <2>3. UNCHANGED wait_objects \/ WaitBegins(c)
    BY <2>1 DEF ThreadCall, WaitReturns, WaitAcquires, SleepThread, CreateThread, SetThreadPriority,
                ExitThread, BeginStop, TerminateProcess, ControlProcess, ReleaseMutex, ReleaseSemaphore,
                SignalEvent, Signal, ClearEvent, threadVars
  <2> QED BY <1>1, <2>2, <2>3
<1>4. CASE SyncStep
  BY <1>1, <1>2, <1>4 DEF SyncStep, WakeNext, WakeupDone, AcquireNext, AcquireDone, RemoveNext,
                          AddNext, UpdateNext, threadVars
<1>5. CASE StopStep \/ TermStep
  BY <1>1, <1>5 DEF StopStep, TermStep, StopDetach, StopRelease, StopDone, TermVictim, TermCurrent,
                    TermDone, BeginStop, threadVars
<1>6. CASE \/ \E c \in Core : Reschedule(c)
           \/ \E t \in Thread : TimeoutFires(t)
           \/ \E t \in Thread, delayed \in BOOLEAN : ProcessRun(t, delayed)
           \/ \E e \in Event : ServiceSignal(e)
           \/ UNCHANGED vars
  BY <1>1, <1>6 DEF Reschedule, RescheduleCore, TimeoutFires, ProcessRun, ServiceSignal, Signal,
                    vars, threadVars
<1> QED BY <1>3, <1>4, <1>5, <1>6 DEF Next, KernelStep

\* Who waits for the only mutex does not hold it: it would have been given it.
LEMMA OneMutexDisciplined ==
    ASSUME OneMutexAlone, TypeOK, WaitInv, MutexInv, ListInv, Handed
    PROVE  Disciplined
<1> SUFFICES ASSUME KernelIdle, NEW t \in Thread, NEW m \in Mutex, m \in Elems(wait_objects[t])
             PROVE  held_mutexes[t] = {} /\ Len(wait_objects[t]) = 1
  BY DEF Disciplined
<1>1. sync.pc = "idle" /\ stop.pc = "idle" /\ wait_objects[t] # <<>>
  BY EmptyElems DEF KernelIdle
<1>2. status[t] \in Waiting
  BY <1>1 DEF ListInv, WaitsOnly
<1>3. Len(wait_objects[t]) = 1
  BY <1>1 DEF Handed, OneMutexAlone
<1>4. Elems(wait_objects[t]) = {m}
  BY <1>3 DEF Elems
<1>5. held_mutexes[t] = {}
  <2> SUFFICES ASSUME NEW n \in held_mutexes[t] PROVE FALSE
    OBVIOUS
  <2>1. n \in Mutex
    BY DEF TypeOK
  <2>2. holding_thread[m] = t
    BY <1>1, <2>1 DEF MutexInv, Helds, OneMutexAlone
  <2>3. ~ShouldWait(m, t)
    BY <2>2, KindsAssumption DEF ShouldWait
  <2>4. \A o \in Object : ~Waking(o)
    BY <1>1 DEF Waking
  <2>5. Waking(m)
    BY <1>2, <1>4, <2>3 DEF WaitInv, Attended, Waiting
  <2> QED BY <2>4, <2>5 DEF Object
<1> QED BY <1>3, <1>5

\* With one mutex that is never waited for together with other objects the rule
\* keeps itself, and inheritance works whatever the threads do: the case of the
\* run, for any number of threads, cores, priorities and other objects.
THEOREM OneMutexSuffices == OneMutexAlone => (Spec => []NoPriorityInversion)
<1> SUFFICES ASSUME OneMutexAlone PROVE Spec => []NoPriorityInversion
  OBVIOUS
<1>1. Init => Handed
  BY DEF Init, Handed
<1>2. TypeOK /\ PhaseOK /\ Handed /\ [Next]_vars => Handed'
  BY StepHanded
<1>3. TypeOK /\ WaitInv /\ MutexInv /\ ListInv /\ Handed => Disciplined
  BY OneMutexDisciplined
<1>4. Spec => []WaitInv
  BY NothingLostInv
<1>5. Spec => []Disciplined
  BY <1>1, <1>2, <1>3, <1>4, MutexesAgree, ListsAgree, PTL DEF Spec
<1> QED BY <1>5, InversionPrevented, PTL

-------------------------------------------------------------------------------
(* Progress of a kernel call                                               *)

\* There are finitely many threads and mutexes.
FiniteSystem == IsFiniteSet(Thread) /\ IsFiniteSet(Mutex)

\* The wakeup loop has not chosen a thread while it looks for one.
Looking == sync.pc = "scan" => sync.thr = None

\* The first thing of which less is left decides.
LEMMA WorkFalls ==
    ASSUME \/ CoresLeft' < CoresLeft
           \/ CoresLeft' <= CoresLeft /\ ThreadsLeft' < ThreadsLeft
           \/ CoresLeft' <= CoresLeft /\ ThreadsLeft' <= ThreadsLeft /\ StopLeft' < StopLeft
           \/ /\ CoresLeft' <= CoresLeft /\ ThreadsLeft' <= ThreadsLeft /\ StopLeft' <= StopLeft
              /\ MutexesLeft' < MutexesLeft
           \/ /\ CoresLeft' <= CoresLeft /\ ThreadsLeft' <= ThreadsLeft /\ StopLeft' <= StopLeft
              /\ MutexesLeft' <= MutexesLeft /\ SleepersLeft' < SleepersLeft
           \/ /\ CoresLeft' <= CoresLeft /\ ThreadsLeft' <= ThreadsLeft /\ StopLeft' <= StopLeft
              /\ MutexesLeft' <= MutexesLeft /\ SleepersLeft' <= SleepersLeft
              /\ PhasesLeft' < PhasesLeft
           \/ /\ CoresLeft' <= CoresLeft /\ ThreadsLeft' <= ThreadsLeft /\ StopLeft' <= StopLeft
              /\ MutexesLeft' <= MutexesLeft /\ SleepersLeft' <= SleepersLeft
              /\ PhasesLeft' <= PhasesLeft /\ ObjectsLeft' < ObjectsLeft
    PROVE  Below(Work', Work)
<1> PICK a : a = Work'
  OBVIOUS
<1> PICK b : b = Work
  OBVIOUS
<1>1. /\ Len(a) = 7 /\ a[1] = CoresLeft' /\ a[2] = ThreadsLeft' /\ a[3] = StopLeft'
      /\ a[4] = MutexesLeft' /\ a[5] = SleepersLeft' /\ a[6] = PhasesLeft' /\ a[7] = ObjectsLeft'
  BY DEF Work
<1>2. /\ b[1] = CoresLeft /\ b[2] = ThreadsLeft /\ b[3] = StopLeft
      /\ b[4] = MutexesLeft /\ b[5] = SleepersLeft /\ b[6] = PhasesLeft /\ b[7] = ObjectsLeft
  BY DEF Work
<1>3. \/ a[1] < b[1]
      \/ a[1] <= b[1] /\ a[2] < b[2]
      \/ a[1] <= b[1] /\ a[2] <= b[2] /\ a[3] < b[3]
      \/ a[1] <= b[1] /\ a[2] <= b[2] /\ a[3] <= b[3] /\ a[4] < b[4]
      \/ a[1] <= b[1] /\ a[2] <= b[2] /\ a[3] <= b[3] /\ a[4] <= b[4] /\ a[5] < b[5]
      \/ /\ a[1] <= b[1] /\ a[2] <= b[2] /\ a[3] <= b[3] /\ a[4] <= b[4] /\ a[5] <= b[5]
         /\ a[6] < b[6]
      \/ /\ a[1] <= b[1] /\ a[2] <= b[2] /\ a[3] <= b[3] /\ a[4] <= b[4] /\ a[5] <= b[5]
         /\ a[6] <= b[6] /\ a[7] < b[7]
  BY <1>1, <1>2
<1>4. \E i \in 1 .. 7 : a[i] < b[i] /\ \A j \in 1 .. i - 1 : a[j] <= b[j]
  BY <1>3
<1>5. Below(a, b)
  BY <1>1, <1>4 DEF Below
<1> QED BY <1>5

LEMMA FinitePart ==
    ASSUME NEW T, IsFiniteSet(T), NEW S, S \subseteq T
    PROVE  IsFiniteSet(S) /\ Cardinality(S) \in Nat
BY FS_Subset, FS_CardinalityType

LEMMA WorkTyped ==
    ASSUME FiniteSystem, TypeOK, PhaseOK, SchedInv
    PROVE  /\ CoresLeft \in Nat /\ ThreadsLeft \in Nat /\ StopLeft \in Nat /\ MutexesLeft \in Nat
           /\ SleepersLeft \in Nat /\ PhasesLeft \in Nat /\ ObjectsLeft \in Nat
           /\ Cardinality(Sleepers) \in Nat /\ Cardinality(sync.muts) \in Nat
<1>1. CoresLeft \in Nat
  <2>1. term.core \in Nat /\ NumCores \in Nat /\ (term.pc = "cores" => term.core <= NumCores)
    BY KernelAssumption DEF TypeOK, SchedInv, Ends
  <2> QED BY <2>1 DEF CoresLeft
<1>2. ThreadsLeft \in Nat
  <2> DEFINE S == {t \in Thread : status[t] \notin {"None", "Dead"}}
  <2>1. S \subseteq Thread
    OBVIOUS
  <2> HIDE DEF S
  <2>2. Cardinality(S) \in Nat
    BY <2>1, FinitePart DEF FiniteSystem
  <2> QED BY <2>2 DEF ThreadsLeft, S
<1>3. StopLeft \in Nat /\ PhasesLeft \in Nat
  BY DEF StopLeft, PhasesLeft
<1>4. Cardinality(stop.muts) \in Nat /\ Cardinality(sync.muts) \in Nat
  <2>1. stop.muts \subseteq Mutex /\ sync.muts \subseteq Mutex
    BY DEF TypeOK
  <2> QED BY <2>1, FinitePart DEF FiniteSystem
<1>5. Cardinality(Sleepers) \in Nat
  <2>1. sync.obj \in Object \cup {None}
    BY DEF TypeOK
  <2>2. Sleepers \subseteq Thread
    BY <2>1, ListType DEF Sleepers
  <2> QED BY <2>2, FinitePart DEF FiniteSystem
<1>6. Len(sync.todo) \in Nat
  <2>1. sync.todo \in Seq(Object)
    BY DEF TypeOK
  <2> QED BY <2>1
<1> QED BY <1>1, <1>2, <1>3, <1>4, <1>5, <1>6 DEF MutexesLeft, SleepersLeft, ObjectsLeft

LEMMA ThreadsLeftSame ==
    ASSUME \A t \in Thread : status'[t] \in {"None", "Dead"} <=> status[t] \in {"None", "Dead"}
    PROVE  ThreadsLeft' = ThreadsLeft
<1>1. {t \in Thread : status'[t] \notin {"None", "Dead"}} = {t \in Thread : status[t] \notin {"None", "Dead"}}
  OBVIOUS
<1> QED BY <1>1 DEF ThreadsLeft

\* An iteration of the inner loops.
LEMMA SyncFalls ==
    ASSUME FiniteSystem, TypeOK, PhaseOK, SchedInv, UNCHANGED <<stop, term>>,
           \A t \in Thread : status'[t] \in {"None", "Dead"} <=> status[t] \in {"None", "Dead"},
           \/ SleepersLeft' < SleepersLeft
           \/ SleepersLeft' <= SleepersLeft /\ PhasesLeft' < PhasesLeft
           \/ SleepersLeft' <= SleepersLeft /\ PhasesLeft' <= PhasesLeft /\ ObjectsLeft' < ObjectsLeft
    PROVE  Below(Work', Work)
<1>1. CoresLeft' = CoresLeft /\ StopLeft' = StopLeft /\ MutexesLeft' = MutexesLeft
  BY DEF CoresLeft, StopLeft, MutexesLeft
<1>2. ThreadsLeft' = ThreadsLeft
  BY ThreadsLeftSame
<1>3. CoresLeft \in Nat /\ StopLeft \in Nat /\ MutexesLeft \in Nat /\ ThreadsLeft \in Nat
  BY WorkTyped
<1>4. CoresLeft' <= CoresLeft /\ ThreadsLeft' <= ThreadsLeft /\ StopLeft' <= StopLeft
      /\ MutexesLeft' <= MutexesLeft
  BY <1>1, <1>2, <1>3
<1> QED BY <1>4, WorkFalls

\* A finite set is smaller by one without a member.
LEMMA OneLess ==
    ASSUME NEW S, IsFiniteSet(S), NEW x \in S
    PROVE  Cardinality(S \ {x}) = Cardinality(S) - 1 /\ Cardinality(S) \in Nat
BY FS_RemoveElement, FS_CardinalityType

LEMMA WakeNextFalls ==
    ASSUME FiniteSystem, TypeOK, PhaseOK, SchedInv, Looking, WakeNext
    PROVE  Below(Work', Work)
<1>1. /\ sync.pc = "scan" /\ sync.obj \in Object /\ sync.thr = None
      /\ UNCHANGED <<stop, term, status, waiting_threads>>
  BY DEF WakeNext, SyncAt, PhaseOK, Looking, threadVars, objectVars
<1>2. PICK i \in 1 .. Len(waiting_threads[sync.obj]) :
        \E todo : sync' = [sync EXCEPT !.pc = "acquire", !.thr = waiting_threads[sync.obj][i],
                                       !.todo = todo]
  BY DEF WakeNext
<1> DEFINE list == waiting_threads[sync.obj]
           t == list[i]
<1>3. list \in Seq(Thread) /\ t \in Elems(list) /\ Elems(list) \subseteq Thread
  BY <1>1, ListType DEF Elems
<1>4. sync'.pc = "acquire" /\ sync'.obj = sync.obj /\ sync'.thr = t
  <2> HIDE DEF list
  <2> QED BY <1>2 DEF TypeOK, list
<1>5. None \notin Thread /\ None \notin Object
  BY KernelAssumption DEF Object
<1>6. Sleepers = Elems(list) /\ Sleepers' = Elems(list) \ {t}
  <2> HIDE DEF t
  <2> QED BY <1>1, <1>3, <1>4, <1>5 DEF Sleepers
<1> HIDE DEF t, list
<1>7. IsFiniteSet(Elems(list))
  BY <1>3, FinitePart DEF FiniteSystem
<1>8. Cardinality(Elems(list) \ {t}) = Cardinality(Elems(list)) - 1 /\ Cardinality(Elems(list)) \in Nat
  BY <1>3, <1>7, OneLess
<1>9. SleepersLeft = Cardinality(Elems(list))
  BY <1>1, <1>6, <1>8 DEF SleepersLeft
<1>10. SleepersLeft' = Cardinality(Elems(list) \ {t}) + 1
  BY <1>3, <1>4, <1>5, <1>6 DEF SleepersLeft
<1>11. SleepersLeft' <= SleepersLeft
  BY <1>8, <1>9, <1>10
<1>12. PhasesLeft' < PhasesLeft
  BY <1>1, <1>4 DEF PhasesLeft
<1> QED BY <1>1, <1>11, <1>12, SyncFalls

LEMMA WakeupDoneFalls ==
    ASSUME FiniteSystem, TypeOK, PhaseOK, SchedInv, WakeupDone
    PROVE  panic' # {} \/ Below(Work', Work)
<1>1. sync.pc = "scan" /\ UNCHANGED <<stop, term, status>>
  BY DEF WakeupDone, SyncAt, threadVars
<1>2. CASE Inconsistent(sync.obj)
  BY <1>2 DEF WakeupDone
<1>3. CASE ~Inconsistent(sync.obj)
  <2>1. sync' = SyncIdle
    BY <1>3 DEF WakeupDone
  <2>2. sync'.pc = "idle" /\ sync'.obj = None /\ sync'.thr = None
    BY <2>1 DEF SyncIdle
  <2>3. Sleepers' = {} /\ Cardinality({}) = 0
    BY <2>2, FS_EmptySet DEF Sleepers
  <2>4. SleepersLeft' = 0 /\ PhasesLeft' = 0 /\ PhasesLeft = 3
    BY <1>1, <2>2, <2>3 DEF SleepersLeft, PhasesLeft
  <2>5. SleepersLeft \in Nat
    BY WorkTyped
  <2> QED BY <1>1, <2>4, <2>5, SyncFalls
<1> QED BY <1>2, <1>3

\* The sleepers of a step that leaves the thread of the loop alone.
LEMMA SleepersSame ==
    ASSUME FiniteSystem, TypeOK, PhaseOK, SchedInv, sync'.obj = sync.obj, sync'.thr = sync.thr,
           \A o \in Object : Elems(waiting_threads'[o]) \ {sync.thr} = Elems(waiting_threads[o]) \ {sync.thr}
    PROVE  SleepersLeft' = SleepersLeft /\ SleepersLeft' <= SleepersLeft
<1>1. sync.obj \in Object \cup {None}
  BY DEF TypeOK
<1>2. Sleepers' = Sleepers
  BY <1>1 DEF Sleepers
<1>3. SleepersLeft' = SleepersLeft
  BY <1>2 DEF SleepersLeft
<1>4. SleepersLeft \in Nat
  BY WorkTyped
<1> QED BY <1>3, <1>4

\* The innermost loop is left: nobody is being woken any more.
LEMMA SleepersGone ==
    ASSUME FiniteSystem, TypeOK, PhaseOK, SchedInv, sync' = SyncIdle
    PROVE  /\ SleepersLeft' = 0 /\ SleepersLeft' <= SleepersLeft /\ PhasesLeft' = 0
           /\ sync.thr # None => SleepersLeft' < SleepersLeft
<1>1. sync'.pc = "idle" /\ sync'.obj = None /\ sync'.thr = None
  BY DEF SyncIdle
<1>2. Sleepers' = {} /\ Cardinality({}) = 0
  BY <1>1, FS_EmptySet DEF Sleepers
<1>3. SleepersLeft' = 0 /\ PhasesLeft' = 0
  BY <1>1, <1>2 DEF SleepersLeft, PhasesLeft
<1>4. SleepersLeft \in Nat /\ Cardinality(Sleepers) \in Nat
  BY WorkTyped
<1>5. sync.thr # None => SleepersLeft > 0
  BY <1>4 DEF SleepersLeft
<1> QED BY <1>3, <1>4, <1>5

\* One object of a phase is dealt with.
LEMMA NextObjectFalls ==
    ASSUME FiniteSystem, TypeOK, PhaseOK, SchedInv, sync.todo # <<>>,
           sync' = [sync EXCEPT !.todo = Tail(@)]
    PROVE  /\ sync'.pc = sync.pc /\ sync'.obj = sync.obj /\ sync'.thr = sync.thr
           /\ PhasesLeft' <= PhasesLeft /\ ObjectsLeft' < ObjectsLeft
<1>1. /\ sync'.pc = sync.pc /\ sync'.obj = sync.obj /\ sync'.thr = sync.thr
      /\ sync'.muts = sync.muts /\ sync'.todo = Tail(sync.todo)
  BY DEF TypeOK
<1>2. sync.todo \in Seq(Object)
  BY DEF TypeOK
<1>3. Len(Tail(sync.todo)) = Len(sync.todo) - 1 /\ Len(sync.todo) \in Nat
  BY <1>2, HeadTailProperties, LenProperties
<1>4. Cardinality(sync.muts) \in Nat /\ PhasesLeft \in Nat
  BY WorkTyped
<1>5. PhasesLeft' = PhasesLeft
  BY <1>1 DEF PhasesLeft
<1>6. ObjectsLeft' = ObjectsLeft - 1 /\ ObjectsLeft \in Nat
  BY <1>1, <1>3, <1>4 DEF ObjectsLeft
<1> QED BY <1>1, <1>4, <1>5, <1>6

LEMMA AcquireFalls ==
    ASSUME FiniteSystem, TypeOK, PhaseOK, SchedInv, AcquireNext \/ AcquireDone
    PROVE  Below(Work', Work)
<1>1. sync.pc = "acquire" /\ sync.thr \in Thread /\ UNCHANGED <<stop, term, status, waiting_threads>>
  BY DEF AcquireNext, AcquireDone, SyncAt, PhaseOK, keptVars
<1>2. CASE AcquireNext
  <2>1. sync.todo # <<>> /\ sync' = [sync EXCEPT !.todo = Tail(@)]
    BY <1>2 DEF AcquireNext
  <2>2. /\ sync'.obj = sync.obj /\ sync'.thr = sync.thr
        /\ PhasesLeft' <= PhasesLeft /\ ObjectsLeft' < ObjectsLeft
    BY <2>1, NextObjectFalls
  <2>3. SleepersLeft' <= SleepersLeft
    BY <1>1, <2>2, SleepersSame
  <2> QED BY <1>1, <2>2, <2>3, SyncFalls
<1>3. CASE AcquireDone /\ sync.obj = None
  <2>1. sync' = SyncIdle /\ sync.thr # None
    BY <1>1, <1>3, KernelAssumption DEF AcquireDone, Object
  <2>2. SleepersLeft' < SleepersLeft
    BY <2>1, SleepersGone
  <2> QED BY <1>1, <2>2, SyncFalls
<1>4. CASE AcquireDone /\ sync.obj # None
  <2>1. sync' = [sync EXCEPT !.pc = "remove", !.todo = Leaves(sync.thr)]
    BY <1>4 DEF AcquireDone
  <2>2. sync'.pc = "remove" /\ sync'.obj = sync.obj /\ sync'.thr = sync.thr
    BY <2>1 DEF TypeOK
  <2>3. SleepersLeft' <= SleepersLeft
    BY <1>1, <2>2, SleepersSame
  <2>4. PhasesLeft' < PhasesLeft
    BY <1>1, <2>2 DEF PhasesLeft
  <2> QED BY <1>1, <2>3, <2>4, SyncFalls
<1> QED BY <1>2, <1>3, <1>4

LEMMA RemoveNextFalls ==
    ASSUME FiniteSystem, TypeOK, PhaseOK, SchedInv, ListInv, RemoveNext
    PROVE  Below(Work', Work)
<1> DEFINE o == Head(sync.todo)
<1>1. sync.todo # <<>> /\ sync.todo \in Seq(Object) /\ sync' = [sync EXCEPT !.todo = Tail(@)]
      /\ UNCHANGED <<stop, term, status>>
  BY DEF RemoveNext, TypeOK, keptVars
<1>2. o \in Object
  BY <1>1, HeadAndTail
<1>3. waiting_threads' = [waiting_threads EXCEPT ![o] = Without(waiting_threads[o], sync.thr)]
  BY DEF RemoveNext, SetWaitingThreads
<1> HIDE DEF o
<1>4. Elems(Without(waiting_threads[o], sync.thr)) = Elems(waiting_threads[o]) \ {sync.thr}
  BY <1>2, ListType, WithoutDistinct DEF ListInv, ListedOnce
<1>5. \A x \in Object : Elems(waiting_threads'[x]) \ {sync.thr} = Elems(waiting_threads[x]) \ {sync.thr}
  <2>1. \A x \in Object : waiting_threads'[x] = IF x = o THEN Without(waiting_threads[o], sync.thr)
                                                 ELSE waiting_threads[x]
    BY <1>3 DEF TypeOK
  <2> QED BY <1>4, <2>1
<1>6. /\ sync'.obj = sync.obj /\ sync'.thr = sync.thr
      /\ PhasesLeft' <= PhasesLeft /\ ObjectsLeft' < ObjectsLeft
  BY <1>1, NextObjectFalls
<1>7. SleepersLeft' <= SleepersLeft
  BY <1>5, <1>6, SleepersSame
<1> QED BY <1>1, <1>6, <1>7, SyncFalls

\* The thread is on no list any more: the loop has one sleeper less.
LEMMA RemoveDoneFalls ==
    ASSUME FiniteSystem, TypeOK, PhaseOK, SchedInv, ListInv, RemoveDone
    PROVE  Below(Work', Work)
<1> DEFINE t == sync.thr
<1>1. /\ sync.pc \in {"remove", "detach"} /\ sync.todo = <<>> /\ t \in Thread /\ sync' = LoopOn
      /\ UNCHANGED <<waiting_threads, stop, term>>
  BY DEF RemoveDone, SyncAt, PhaseOK, keptVars, objectVars
<1>2. \A u \in Thread : status'[u] \in {"None", "Dead"} <=> status[u] \in {"None", "Dead"}
  <2>1. CASE UNCHANGED status
    BY <2>1
  <2>2. CASE status' # status
    <3>1. status[t] \in Resumable /\ status' = [status EXCEPT ![t] = "Ready"]
      BY <2>2 DEF RemoveDone, ResumeFromWait
    <3>2. status[t] \notin {"None", "Dead"}
      BY <3>1 DEF Resumable, Waiting
    <3>3. \A u \in Thread : status'[u] = IF u = t THEN "Ready" ELSE status[u]
      BY <3>1 DEF TypeOK
    <3> QED BY <3>2, <3>3
  <2> QED BY <2>1, <2>2
<1>3. t # None
  BY <1>1, KernelAssumption DEF Object
<1>4. SleepersLeft' < SleepersLeft
  <2>1. CASE sync.obj = None
    BY <1>1, <1>3, <2>1, SleepersGone DEF LoopOn
  <2>2. CASE sync.obj # None
    <3>1. sync'.obj = sync.obj /\ sync'.thr = None
      BY <1>1, <2>2 DEF LoopOn, SyncIdle
    <3>2. sync.obj \in Object
      BY <2>2 DEF TypeOK
    <3>3. t \notin Elems(waiting_threads[sync.obj])
      <4>1. \A x : x \notin Elems(sync.todo)
        BY <1>1, EmptyElems
      <4> QED BY <1>1, <3>2, <4>1 DEF ListInv, OnlyWaiters
    <3>4. None \notin Elems(waiting_threads[sync.obj])
      BY <3>2, ListType, KernelAssumption DEF Object
    <3>5. Sleepers' = Sleepers
      BY <1>1, <2>2, <3>1, <3>3, <3>4 DEF Sleepers
    <3>6. SleepersLeft' = Cardinality(Sleepers) + 0 /\ SleepersLeft = Cardinality(Sleepers) + 1
      BY <1>3, <3>1, <3>5 DEF SleepersLeft
    <3>7. Cardinality(Sleepers) \in Nat
      BY WorkTyped
    <3> QED BY <3>6, <3>7
  <2> QED BY <2>1, <2>2
<1> QED BY <1>1, <1>2, <1>4, SyncFalls

LEMMA AddNextFalls ==
    ASSUME FiniteSystem, TypeOK, PhaseOK, SchedInv, ListInv, AddNext
    PROVE  Below(Work', Work)
<1> DEFINE o == Head(sync.todo)
           t == sync.thr
           list == waiting_threads[o]
           new == IF t \in Elems(list) THEN list ELSE Append(list, t)
<1>1. /\ sync.todo # <<>> /\ sync.todo \in Seq(Object) /\ t \in Thread
      /\ UNCHANGED <<stop, term, status>>
  BY DEF AddNext, SyncAt, PhaseOK, TypeOK, keptVars
<1>2. o \in Object
  BY <1>1, HeadAndTail
<1>3. waiting_threads' = [waiting_threads EXCEPT ![o] = new]
  BY DEF AddNext, SetWaitingThreads
<1>4. CASE sync' = SyncIdle
  <2>1. t # None
    BY <1>1, KernelAssumption DEF Object
  <2>2. SleepersLeft' < SleepersLeft
    BY <1>4, <2>1, SleepersGone
  <2> QED BY <1>1, <2>2, SyncFalls
<1>5. CASE sync' = [sync EXCEPT !.todo = Tail(@)]
  <2> HIDE DEF o
  <2>1. list \in Seq(Thread) /\ Distinct(list)
    BY <1>2, ListType DEF ListInv, ListedOnce
  <2> HIDE DEF list
  <2>2. Elems(new) \ {t} = Elems(list) \ {t}
    <3>1. ASSUME t \notin Elems(list) PROVE Elems(Append(list, t)) \ {t} = Elems(list) \ {t}
      <4>1. Elems(Append(list, t)) = Elems(list) \cup {t}
        BY <1>1, <2>1, <3>1, AppendDistinct
      <4> QED BY <4>1
    <3> QED BY <3>1
  <2> HIDE DEF new, t
  <2>3. \A x \in Object : waiting_threads'[x] = IF x = o THEN new ELSE waiting_threads[x]
    BY <1>3 DEF TypeOK
  <2>4. \A x \in Object : Elems(waiting_threads'[x]) \ {t} = Elems(waiting_threads[x]) \ {t}
    BY <2>2, <2>3 DEF list
  <2>5. /\ sync'.obj = sync.obj /\ sync'.thr = sync.thr
        /\ PhasesLeft' <= PhasesLeft /\ ObjectsLeft' < ObjectsLeft
    BY <1>1, <1>5, NextObjectFalls
  <2>6. SleepersLeft' <= SleepersLeft
    BY <2>4, <2>5, SleepersSame DEF t
  <2> QED BY <1>1, <2>5, <2>6, SyncFalls
<1> QED BY <1>4, <1>5 DEF AddNext

LEMMA UpdateNextFalls ==
    ASSUME FiniteSystem, TypeOK, PhaseOK, SchedInv, UpdateNext
    PROVE  Below(Work', Work)
<1>1. sync.pc = "update" /\ UNCHANGED <<stop, term, status, waiting_threads>>
  BY DEF UpdateNext, SyncAt, keptVars
<1>2. PICK m \in sync.muts :
        sync' = IF sync.muts = {m} THEN SyncIdle ELSE [sync EXCEPT !.muts = @ \ {m}]
  BY DEF UpdateNext
<1>3. CASE sync.muts = {m}
  <2>1. sync' = SyncIdle
    BY <1>2, <1>3
  <2>2. SleepersLeft' <= SleepersLeft /\ PhasesLeft' = 0
    BY <2>1, SleepersGone
  <2>3. PhasesLeft = 1
    BY <1>1 DEF PhasesLeft
  <2> QED BY <1>1, <2>2, <2>3, SyncFalls
<1>4. CASE sync.muts # {m}
  <2>1. /\ sync'.pc = sync.pc /\ sync'.obj = sync.obj /\ sync'.thr = sync.thr
        /\ sync'.todo = sync.todo /\ sync'.muts = sync.muts \ {m}
    BY <1>2, <1>4 DEF TypeOK
  <2>2. SleepersLeft' <= SleepersLeft
    BY <1>1, <2>1, SleepersSame
  <2>3. PhasesLeft' = 1 /\ PhasesLeft = 1
    BY <1>1, <2>1 DEF PhasesLeft
  <2>4. sync.muts \subseteq Mutex /\ sync.todo \in Seq(Object)
    BY DEF TypeOK
  <2>5. IsFiniteSet(sync.muts)
    BY <2>4, FinitePart DEF FiniteSystem
  <2>6. Cardinality(sync.muts \ {m}) = Cardinality(sync.muts) - 1 /\ Cardinality(sync.muts) \in Nat
    BY <2>5, OneLess
  <2>7. Len(sync.todo) \in Nat
    BY <2>4
  <2>8. ObjectsLeft' < ObjectsLeft
    BY <2>1, <2>6, <2>7 DEF ObjectsLeft
  <2> QED BY <1>1, <2>2, <2>3, <2>8, SyncFalls
<1> QED BY <1>3, <1>4

LEMMA StopFalls ==
    ASSUME FiniteSystem, TypeOK, PhaseOK, SchedInv, StopStep
    PROVE  Below(Work', Work)
<1>1. UNCHANGED <<status, term>>
  BY DEF StopStep, StopDetach, StopRelease, StopDone, threadVars
<1>2. CoresLeft' = CoresLeft /\ ThreadsLeft' = ThreadsLeft
  BY <1>1, ThreadsLeftSame DEF CoresLeft
<1>3. CoresLeft \in Nat /\ ThreadsLeft \in Nat
  BY WorkTyped
<1>4. CoresLeft' <= CoresLeft /\ ThreadsLeft' <= ThreadsLeft
  BY <1>2, <1>3
<1>5. CASE StopDetach
  <2>1. stop.pc = "detach" /\ stop' = [stop EXCEPT !.pc = "mutexes", !.muts = held_mutexes[stop.thr]]
    BY <1>5 DEF StopDetach, StopAt
  <2>2. stop'.pc = "mutexes"
    BY <2>1 DEF TypeOK
  <2>3. StopLeft' < StopLeft
    BY <2>1, <2>2 DEF StopLeft
  <2> QED BY <1>4, <2>3, WorkFalls
<1>6. CASE StopRelease
  <2>1. PICK m \in stop.muts : stop' = [stop EXCEPT !.muts = stop.muts \ {m}]
    BY <1>6 DEF StopRelease, StillToRelease
  <2>2. stop'.pc = stop.pc /\ stop'.muts = stop.muts \ {m} /\ stop.muts \subseteq Mutex
    BY <2>1 DEF TypeOK
  <2>3. StopLeft' = StopLeft /\ StopLeft \in Nat
    BY <2>2, WorkTyped DEF StopLeft
  <2>4. IsFiniteSet(stop.muts)
    BY <2>2, FinitePart DEF FiniteSystem
  <2>5. Cardinality(stop.muts \ {m}) = Cardinality(stop.muts) - 1 /\ Cardinality(stop.muts) \in Nat
    BY <2>4, OneLess
  <2>6. MutexesLeft' < MutexesLeft
    BY <2>2, <2>5 DEF MutexesLeft
  <2>7. StopLeft' <= StopLeft
    BY <2>3
  <2> QED BY <1>4, <2>6, <2>7, WorkFalls
<1>7. CASE StopDone
  <2>1. stop.pc = "mutexes" /\ stop'.pc = "idle"
    BY <1>7 DEF StopDone, StopAt, StopIdle
  <2>2. StopLeft' < StopLeft
    BY <2>1 DEF StopLeft
  <2> QED BY <1>4, <2>2, WorkFalls
<1> QED BY <1>5, <1>6, <1>7 DEF StopStep

LEMMA TermFalls ==
    ASSUME FiniteSystem, TypeOK, PhaseOK, SchedInv, TermStep
    PROVE  Below(Work', Work)
<1>1. term.pc = "cores" /\ term.core \in Nat /\ NumCores \in Nat
  BY KernelAssumption DEF TermStep, TermVictim, TermCurrent, TermDone, TermAt, TypeOK
<1>2. CASE TermVictim
  <2>1. PICK t \in Victims : BeginStop(t)
    BY <1>2 DEF TermVictim
  <2>2. t \in Thread /\ status[t] \notin {"None", "Dead"} /\ status' = [status EXCEPT ![t] = "Dead"]
    BY <2>1 DEF BeginStop, Victims
  <2>3. CoresLeft' = CoresLeft /\ CoresLeft \in Nat
    BY <1>2, WorkTyped DEF TermVictim, CoresLeft
  <2> DEFINE S == {u \in Thread : status[u] \notin {"None", "Dead"}}
             R == {u \in Thread : status'[u] \notin {"None", "Dead"}}
  <2>4. R = S \ {t} /\ t \in S /\ S \subseteq Thread
    <3>1. \A u \in Thread : status'[u] = IF u = t THEN "Dead" ELSE status[u]
      BY <2>2 DEF TypeOK
    <3> QED BY <2>2, <3>1
  <2> HIDE DEF S, R
  <2>5. IsFiniteSet(S)
    BY <2>4, FinitePart DEF FiniteSystem
  <2>6. Cardinality(R) = Cardinality(S) - 1 /\ Cardinality(S) \in Nat
    BY <2>4, <2>5, OneLess
  <2>7. ThreadsLeft' = Cardinality(R) /\ ThreadsLeft = Cardinality(S)
    BY DEF ThreadsLeft, S, R
  <2>8. ThreadsLeft' < ThreadsLeft /\ CoresLeft' <= CoresLeft
    BY <2>3, <2>6, <2>7
  <2> QED BY <2>8, WorkFalls
<1>3. CASE TermCurrent
  <2>1. term' = [term EXCEPT !.core = @ + 1]
    BY <1>3 DEF TermCurrent
  <2>2. term'.pc = term.pc /\ term'.core = term.core + 1
    BY <2>1 DEF TypeOK
  <2>3. CoresLeft' < CoresLeft
    BY <1>1, <2>2 DEF CoresLeft
  <2> QED BY <2>3, WorkFalls
<1>4. CASE TermDone
  <2>1. term.core = NumCores /\ term'.pc = "idle"
    BY <1>4 DEF TermDone, TermIdle
  <2>2. CoresLeft' < CoresLeft
    BY <1>1, <2>1 DEF CoresLeft
  <2> QED BY <2>2, WorkFalls
<1> QED BY <1>2, <1>3, <1>4 DEF TermStep

\* The registers are set afresh, or keep their phase, or a thread was chosen.
LEMMA StepLooking ==
    ASSUME TypeOK, Looking, [Next]_vars
    PROVE  Looking'
<1>1. \A o : ScanOf(o).thr = None
  BY DEF ScanOf, SyncIdle
<1>2. SyncIdle.pc = "idle"
  BY DEF SyncIdle
<1>3. CASE UNCHANGED sync \/ sync' = SyncIdle \/ (\E o : sync' = ScanOf(o)) \/ sync'.pc # "scan"
  BY <1>1, <1>2, <1>3 DEF Looking
<1>4. CASE SyncStep
  <2>1. CASE WakeNext
    <3>1. \E x, todo : sync' = [sync EXCEPT !.pc = "acquire", !.thr = x, !.todo = todo]
      BY <2>1 DEF WakeNext
    <3>2. sync'.pc = "acquire"
      BY <3>1 DEF TypeOK
    <3> QED BY <1>3, <3>2
  <2>2. CASE WakeupDone
    BY <1>3, <2>2 DEF WakeupDone
  <2>3. CASE AcquireNext \/ RemoveNext
    <3>1. sync' = [sync EXCEPT !.todo = Tail(@)]
      BY <2>3 DEF AcquireNext, RemoveNext
    <3>2. sync'.pc = sync.pc /\ sync'.thr = sync.thr
      BY <3>1 DEF TypeOK
    <3> QED BY <3>2 DEF Looking
  <2>4. CASE AcquireDone
    <3>1. sync' = SyncIdle \/ sync' = [sync EXCEPT !.pc = "remove", !.todo = Leaves(sync.thr)]
      BY <2>4 DEF AcquireDone
    <3>2. sync' = SyncIdle \/ sync'.pc = "remove"
      BY <3>1 DEF TypeOK
    <3> QED BY <1>3, <3>2
  <2>5. CASE RemoveDone
    <3>1. sync' = SyncIdle \/ sync' = ScanOf(sync.obj)
      BY <2>5 DEF RemoveDone, LoopOn, ScanOf
    <3> QED BY <1>3, <3>1
  <2>6. CASE AddNext
    <3>1. sync' = SyncIdle \/ sync' = [sync EXCEPT !.todo = Tail(@)]
      BY <2>6 DEF AddNext
    <3>2. sync.pc = "add"
      BY <2>6 DEF AddNext, SyncAt
    <3>3. sync' = SyncIdle \/ sync'.pc = "add"
      BY <3>1, <3>2 DEF TypeOK
    <3> QED BY <1>3, <3>3
  <2>7. CASE UpdateNext
    <3>1. sync' = SyncIdle \/ \E m : sync' = [sync EXCEPT !.muts = @ \ {m}]
      BY <2>7 DEF UpdateNext
    <3>2. sync.pc = "update"
      BY <2>7 DEF UpdateNext, SyncAt
    <3>3. sync' = SyncIdle \/ sync'.pc = "update"
      BY <3>1, <3>2 DEF TypeOK
    <3> QED BY <1>3, <3>3
  <2> QED BY <1>4, <2>1, <2>2, <2>3, <2>4, <2>5, <2>6, <2>7 DEF SyncStep
<1>5. CASE StopStep \/ TermStep
  <2>1. CASE StopDetach
    <3>1. sync'.pc \in {"idle", "detach"}
      BY <2>1 DEF StopDetach, SyncIdle
    <3> QED BY <1>3, <3>1
  <2>2. CASE ~StopDetach
    BY <1>3, <1>5, <2>2 DEF StopStep, TermStep, StopRelease, StopDone, TermVictim, TermCurrent,
                            TermDone, BeginStop
  <2> QED BY <2>1, <2>2
<1>6. CASE \E c \in Core : ThreadCall(c)
  <2>1. PICK c \in Core : ThreadCall(c)
    BY <1>6
  <2>2. CASE WaitReturns(c)
    <3>1. \E x, todo : sync' = [SyncIdle EXCEPT !.pc = "acquire", !.thr = x, !.todo = todo]
      BY <2>2 DEF WaitReturns, WaitAcquires
    <3>2. sync'.pc = "acquire"
      BY <3>1 DEF SyncIdle
    <3> QED BY <1>3, <3>2
  <2>3. CASE WaitBegins(c)
    <3>1. sync' = SyncIdle \/ \E x, todo : sync' = [SyncIdle EXCEPT !.pc = "add", !.thr = x, !.todo = todo]
      BY <2>3 DEF WaitBegins, WaitBlocks
    <3>2. sync' = SyncIdle \/ sync'.pc = "add"
      BY <3>1 DEF SyncIdle
    <3> QED BY <1>3, <3>2
  <2>4. CASE \E t \in Thread, p \in SetPriorities : SetThreadPriority(c, t, p)
    <3>1. sync'.pc \in {"idle", "update"}
      BY <2>4 DEF SetThreadPriority, SyncIdle
    <3> QED BY <1>3, <3>1
  <2>5. CASE \/ \E timed \in BOOLEAN : SleepThread(c, timed)
             \/ \E t \in Thread : CreateThread(c, t)
             \/ ExitThread(c)
             \/ \E p \in Process : TerminateProcess(c, p)
             \/ \E p \in Process, S \in Controllable, stopped \in BOOLEAN :
                  ControlProcess(c, p, S, stopped)
             \/ \E m \in Mutex : ReleaseMutex(c, m)
             \/ \E s \in Semaphore, n \in ReleaseCounts : ReleaseSemaphore(c, s, n)
             \/ \E e \in Event : SignalEvent(c, e)
             \/ \E e \in Event : ClearEvent(c, e)
    BY <1>3, <2>5 DEF SleepThread, CreateThread, ExitThread, BeginStop, TerminateProcess,
                      ControlProcess, ReleaseMutex, ReleaseSemaphore, SignalEvent, Signal,
                      ClearEvent, callVars
  <2> QED BY <2>1, <2>2, <2>3, <2>4, <2>5 DEF ThreadCall
<1>7. CASE \/ \E c \in Core : Reschedule(c)
           \/ \E t \in Thread, delayed \in BOOLEAN : ProcessRun(t, delayed)
           \/ \E e \in Event : ServiceSignal(e)
           \/ UNCHANGED vars
  BY <1>3, <1>7 DEF Reschedule, RescheduleCore, ProcessRun, ServiceSignal, Signal, vars, callVars
<1>8. CASE \E t \in Thread : TimeoutFires(t)
  <2>1. sync' = sync \/ sync'.pc = "remove"
    BY <1>8 DEF TimeoutFires, SyncIdle
  <2> QED BY <1>3, <2>1
<1> QED BY <1>4, <1>5, <1>6, <1>7, <1>8 DEF Next, KernelStep

\* The nested loops of WakeupAllWaitingThreads, Stop, ReleaseThreadMutexes and
\* TerminateProcess end, for finitely many threads and mutexes: each of their
\* iterations makes a measure smaller that is a list of natural numbers in
\* lexicographic order.
THEOREM LoopsEnd == FiniteSystem => (Spec => CallsMakeProgress)
<1> SUFFICES ASSUME FiniteSystem PROVE Spec => CallsMakeProgress
  OBVIOUS
<1>1. Init => Looking
  BY DEF Init, Looking, SyncIdle
<1>2. TypeOK /\ Looking /\ [Next]_vars => Looking'
  BY StepLooking
<1>3. TypeOK /\ PhaseOK /\ SchedInv /\ ListInv /\ Looking /\ KernelStep
        => panic' # {} \/ Below(Work', Work)
  BY WakeNextFalls, WakeupDoneFalls, AcquireFalls, RemoveNextFalls, RemoveDoneFalls, AddNextFalls,
     UpdateNextFalls, StopFalls, TermFalls DEF KernelStep, SyncStep
<1>4. TypeOK /\ PhaseOK /\ SchedInv => Work \in Seq(Nat)
  BY WorkTyped DEF Work
<1>5. TypeOK /\ PhaseOK /\ SchedInv /\ ListInv /\ Looking
        => [KernelStep => Work \in Seq(Nat) /\ (panic' # {} \/ Below(Work', Work))]_vars
  BY <1>3, <1>4
<1> QED BY <1>1, <1>2, <1>5, ListsAgree, PTL DEF Spec, CallsMakeProgress
===============================================================================
