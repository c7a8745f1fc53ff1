------------------------------ MODULE ReadyQueue ------------------------------
(***************************************************************************)
(* Common::ThreadQueueList (common/thread_queue_list.h), the ready queue   *)
(* of every core: an array of deques, one per priority, whose levels ever  *)
(* used are chained by next_nonempty pointers from first.                  *)
(*                                                                         *)
(* A pointer to queues[i] is the index i.  As in ToIndex, the null pointer *)
(* is -2 and UnlinkedTag() is -1: the order of these integers is that of   *)
(* the addresses the code compares (nullptr and the tag 1 lie below the    *)
(* array).  The loops of link and of the two pops take one step per        *)
(* iteration; the class is used by one thread, so while a loop runs        *)
(* nothing else happens.                                                   *)
(***************************************************************************)
EXTENDS Integers, Sequences

CONSTANTS Thread, NumQueues, None

ASSUME ReadyQueueAssumption == NumQueues \in Nat \ {0} /\ None \notin Thread

Priority == 0 .. NumQueues - 1
Nullptr  == -2
Unlinked == -1
Pointer  == Priority \cup {Nullptr, Unlinked}

VARIABLES first,         \* head of the chain of levels ever used
          next_nonempty, \* per level: the next level ever used
          data,          \* per level: its deque
          op,            \* the loop in progress
          popped         \* the last pop: the level it stopped short of, what it returned

vars == <<first, next_nonempty, data, op, popped>>

Idle == [pc |-> "idle", cur |-> Nullptr, arg |-> Nullptr, thread |-> None]

TypeOK ==
    /\ first \in Pointer
    /\ next_nonempty \in [Priority -> Pointer]
    /\ data \in [Priority -> Seq(Thread)]
    /\ op \in [pc : {"idle", "link", "pop_first", "pop_first_better", "segv"},
               cur : Pointer, arg : Pointer, thread : Thread \cup {None}]
    /\ popped \in [limit : 0 .. NumQueues, thread : Thread \cup {None}]

Init ==
    /\ first = Nullptr
    /\ next_nonempty = [p \in Priority |-> Unlinked]
    /\ data = [p \in Priority |-> <<>>]
    /\ op = Idle
    /\ popped = [limit |-> 0, thread |-> None]

-------------------------------------------------------------------------------
IsLinked(p) == next_nonempty[p] # Unlinked

Queued(q, t) == \E p \in Priority : \E i \in 1 .. Len(q[p]) : q[p][i] = t

\* std::remove and erase of a value queued at most once.
Without(s, t) ==
    IF \E i \in 1 .. Len(s) : s[i] = t
    THEN LET k == CHOOSE i \in 1 .. Len(s) : s[i] = t
         IN  [j \in 1 .. Len(s) - 1 |-> IF j < k THEN s[j] ELSE s[j + 1]]
    ELSE s

\* Mutated MayPush: a push at a priority that was never prepared.
MayPushUnprepared(p, t) == op = Idle /\ ~Queued(data, t)

\* The caller's side of the contract, kept by ThreadManager: a thread is
\* pushed when it is in no level, at a priority prepare() was called for.
MayPush(p, t) == op = Idle /\ IsLinked(p) /\ ~Queued(data, t)

push_front(p, t) ==
    /\ MayPush(p, t)
    /\ data' = [data EXCEPT ![p] = <<t>> \o @]
    /\ UNCHANGED <<first, next_nonempty, op, popped>>

push_back(p, t) ==
    /\ MayPush(p, t)
    /\ data' = [data EXCEPT ![p] = Append(@, t)]
    /\ UNCHANGED <<first, next_nonempty, op, popped>>

remove(p, t) ==
    /\ op = Idle
    /\ data' = [data EXCEPT ![p] = Without(@, t)]
    /\ UNCHANGED <<first, next_nonempty, op, popped>>

\* prepare(p): link a level that was never used; i starts at priority - 1,
\* which is the null-like -1 for level 0.
prepare(p) ==
    /\ op = Idle
    /\ ~IsLinked(p)
    /\ op' = [pc |-> "link", cur |-> p - 1, arg |-> p, thread |-> None]
    /\ UNCHANGED <<first, next_nonempty, data, popped>>

\* move(t, old, new): remove, prepare, push_back.
move(t, old, new) ==
    LET left == [data EXCEPT ![old] = Without(@, t)]
    IN  /\ op = Idle
        /\ ~Queued(left, t)
        /\ IF IsLinked(new)
           THEN data' = [left EXCEPT ![new] = Append(@, t)] /\ UNCHANGED op
           ELSE /\ data' = left
                /\ op' = [pc |-> "link", cur |-> new - 1, arg |-> new, thread |-> t]
        /\ UNCHANGED <<first, next_nonempty, popped>>

\* The end of link, and of the move it may be part of.
FinishLink ==
    /\ data' = IF op.thread = None THEN data
               ELSE [data EXCEPT ![op.arg] = Append(@, op.thread)]
    /\ op' = Idle
    /\ UNCHANGED popped

\* Mutated link: the level found is not made to point to the new level.
linkLosesLevel ==
    /\ op.pc = "link"
    /\ IF op.cur >= 0 /\ ~IsLinked(op.cur)
       THEN op' = [op EXCEPT !.cur = @ - 1] /\ UNCHANGED <<first, next_nonempty, data, popped>>
       ELSE /\ next_nonempty' = [next_nonempty EXCEPT ![op.arg] =
                                    IF op.cur >= 0 THEN next_nonempty[op.cur] ELSE first]
            /\ first' = IF op.cur >= 0 THEN first ELSE op.arg
            /\ FinishLink

\* Mutated link: the two assignments that insert the level, swapped.
linkSwapped ==
    /\ op.pc = "link"
    /\ IF op.cur >= 0 /\ ~IsLinked(op.cur)
       THEN op' = [op EXCEPT !.cur = @ - 1] /\ UNCHANGED <<first, next_nonempty, data, popped>>
       ELSE /\ next_nonempty' = IF op.cur >= 0
                                THEN [next_nonempty EXCEPT ![op.cur] = op.arg, ![op.arg] = op.arg]
                                ELSE [next_nonempty EXCEPT ![op.arg] = first]
            /\ first' = IF op.cur >= 0 THEN first ELSE op.arg
            /\ FinishLink

\* Mutated link: the new level is linked to the level found, not to its successor.
linkPointsBack ==
    /\ op.pc = "link"
    /\ IF op.cur >= 0 /\ ~IsLinked(op.cur)
       THEN op' = [op EXCEPT !.cur = @ - 1] /\ UNCHANGED <<first, next_nonempty, data, popped>>
       ELSE /\ next_nonempty' = IF op.cur >= 0
                                THEN [next_nonempty EXCEPT ![op.arg] = op.cur, ![op.cur] = op.arg]
                                ELSE [next_nonempty EXCEPT ![op.arg] = first]
            /\ first' = IF op.cur >= 0 THEN first ELSE op.arg
            /\ FinishLink

\* One iteration of link's search for a used level below op.arg.
link ==
    /\ op.pc = "link"
    /\ \/ /\ op.cur >= 0
          /\ IsLinked(op.cur)
          /\ next_nonempty' = [next_nonempty EXCEPT ![op.arg] = next_nonempty[op.cur],
                                                    ![op.cur] = op.arg]
          /\ FinishLink
          /\ UNCHANGED first
       \/ /\ op.cur >= 0
          /\ ~IsLinked(op.cur)
          /\ op' = [op EXCEPT !.cur = @ - 1]
          /\ UNCHANGED <<first, next_nonempty, data, popped>>
       \/ /\ op.cur < 0
          /\ next_nonempty' = [next_nonempty EXCEPT ![op.arg] = first]
          /\ first' = op.arg
          /\ FinishLink

\* Mutated CallPop: asks about a priority that was never prepared.
CallPopUnprepared ==
    /\ op = Idle
    /\ \E p \in Priority :
         op' = [pc |-> "pop_first_better", cur |-> first, arg |-> p, thread |-> None]
    /\ UNCHANGED <<first, next_nonempty, data, popped>>

\* The calls of the two pops.  pop_first_better is only asked about the
\* priority of a thread of this queue's core, which prepare() was called for.
CallPop ==
    /\ op = Idle
    /\ \/ op' = [pc |-> "pop_first", cur |-> first, arg |-> Nullptr, thread |-> None]
       \/ \E p \in Priority :
            /\ IsLinked(p)
            /\ op' = [pc |-> "pop_first_better", cur |-> first, arg |-> p, thread |-> None]
    /\ UNCHANGED <<first, next_nonempty, data, popped>>

\* Mutated PopContinues: a level as good as the caller's is searched too.
PopContinuesInclusive ==
    IF op.pc = "pop_first" THEN op.cur # Nullptr ELSE op.cur <= op.arg

\* The loop condition: cur != nullptr, or the pointer comparison cur < stop.
PopContinues == IF op.pc = "pop_first" THEN op.cur # Nullptr ELSE op.cur < op.arg

\* What a pop returns, with the limit it was given (none for pop_first).
Popped(t) == [limit |-> IF op.pc = "pop_first" THEN NumQueues ELSE op.arg, thread |-> t]

\* One iteration of either pop.  Following a pointer that is not into the
\* array (null, in pop_first_better) is undefined: the program stops.
pop ==
    /\ op.pc \in {"pop_first", "pop_first_better"}
    /\ UNCHANGED <<first, next_nonempty>>
    /\ \/ /\ ~PopContinues
          /\ popped' = Popped(None)
          /\ op' = Idle
          /\ UNCHANGED data
       \/ /\ PopContinues /\ op.cur \in Priority
          /\ data[op.cur] # <<>>
          /\ popped' = Popped(Head(data[op.cur]))
          /\ data' = [data EXCEPT ![op.cur] = Tail(@)]
          /\ op' = Idle
       \/ /\ PopContinues /\ (op.cur \in Priority => data[op.cur] = <<>>)
          /\ op' = IF op.cur \in Priority
                   THEN [op EXCEPT !.cur = next_nonempty[op.cur]]
                   ELSE [op EXCEPT !.pc = "segv"]
          /\ UNCHANGED <<data, popped>>

Next ==
    \/ \E p \in Priority, t \in Thread : push_front(p, t) \/ push_back(p, t) \/ remove(p, t)
    \/ \E p \in Priority : prepare(p)
    \/ \E t \in Thread, old, new \in Priority : move(t, old, new)
    \/ link
    \/ CallPop
    \/ pop

\* A loop that was entered keeps running: the queue's code has no other waits.
Spec == Init /\ [][Next]_vars /\ WF_vars(link \/ pop)

-------------------------------------------------------------------------------
\* The chain from first visits exactly the levels prepare() was called for, in
\* increasing order: first is the least of them, next_nonempty skips none.
\* While link runs, no level between its cursor and its argument is linked.
ChainOK ==
    /\ first = Nullptr => \A p \in Priority : ~IsLinked(p)
    /\ first # Nullptr => /\ first \in Priority /\ IsLinked(first)
                         /\ \A p \in Priority : IsLinked(p) => first <= p
    /\ \A p \in Priority :
         /\ next_nonempty[p] \in Priority =>
              /\ p < next_nonempty[p] /\ IsLinked(next_nonempty[p])
              /\ \A q \in Priority : p < q /\ q < next_nonempty[p] => ~IsLinked(q)
         /\ next_nonempty[p] = Nullptr => \A q \in Priority : p < q => ~IsLinked(q)
    /\ op.pc = "link" => /\ op.arg \in Priority /\ ~IsLinked(op.arg)
                         /\ op.cur \in -1 .. op.arg - 1
                         /\ \A q \in Priority : op.cur < q /\ q < op.arg => ~IsLinked(q)

\* No entry is stranded: a level that holds threads is on the chain, so the
\* walks of pop_first and pop_first_better can reach it.
NothingStranded == \A p \in Priority : data[p] # <<>> => IsLinked(p)

\* pop_first_better never follows the null pointer.  Its loop condition
\* cur < stop holds of nullptr, so this rests on stop being a linked level.
NoNullDereference == op.pc # "segv"

\* Every walk ends: neither link nor a pop runs around a cycle of pointers.
LoopsTerminate == op.pc # "idle" ~> op.pc = "idle"

\* How many iterations the loop in progress can still take: link goes down to the
\* start of the array, a pop goes up to its end or to the null pointer.
WalkLeft == CASE op.pc = "link" -> op.cur + 2
              [] op.pc \in {"pop_first", "pop_first_better"} ->
                   IF op.cur = Nullptr THEN 1 ELSE NumQueues - op.cur + 1
              [] OTHER -> 0

\* Each iteration of link and of a pop comes closer to the end of its walk, so
\* none takes more than NumQueues + 1: no pointer leads back.  (A level that
\* pointed to itself, where a walk would stand still, is excluded by ChainOK.)
WalksMakeProgress == [][link \/ pop => WalkLeft \in Nat /\ WalkLeft' < WalkLeft]_vars

\* The queue as its callers see it: a thread in the middle of a move already
\* counts as pushed.
ReadyView == IF op.pc = "link" /\ op.thread # None
             THEN [data EXCEPT ![op.arg] = Append(@, op.thread)]
             ELSE data

Abstract == INSTANCE ReadyQueueSpec WITH ready <- ReadyView

\* The list implements the priority queue: every pop returns the oldest thread
\* of the best level in range, whatever was linked before and in which order.
ImplementsPriorityQueue == Abstract!Spec
===============================================================================
