---------------------------- MODULE ReadyQueueSpec ----------------------------
(***************************************************************************)
(* What the ready queue of a core promises the scheduler: per priority     *)
(* level a first-in first-out queue, and pops that take the oldest entry   *)
(* of the best (numerically lowest) level.  Nothing is said about how the  *)
(* levels in use are found; ReadyQueue does that with a linked list.       *)
(***************************************************************************)
EXTENDS Integers, Sequences

CONSTANTS Thread,    \* the entries, Thread* in the source
          NumQueues, \* NUM_QUEUES, the number of priority levels
          None       \* the default-constructed T() a pop of nothing returns

Priority == 0 .. NumQueues - 1

VARIABLES ready,  \* ready[p]: the entries of level p, oldest first
          popped  \* the last pop: its limit and what it returned

vars == <<ready, popped>>

Init == ready = [p \in Priority |-> <<>>] /\ popped = [limit |-> 0, thread |-> None]

\* Entry t is in none of the levels.
Absent(q, t) == \A p \in Priority : \A i \in 1 .. Len(q[p]) : q[p][i] # t

\* s without the entries equal to t; as an entry is queued at most once this
\* is a removal at one position.
Without(s, t) ==
    IF \E i \in 1 .. Len(s) : s[i] = t
    THEN LET k == CHOOSE i \in 1 .. Len(s) : s[i] = t
         IN  [j \in 1 .. Len(s) - 1 |-> IF j < k THEN s[j] ELSE s[j + 1]]
    ELSE s

PushFront(p, t) == /\ Absent(ready, t)
                   /\ ready' = [ready EXCEPT ![p] = <<t>> \o @]
                   /\ UNCHANGED popped

PushBack(p, t)  == /\ Absent(ready, t)
                   /\ ready' = [ready EXCEPT ![p] = Append(@, t)]
                   /\ UNCHANGED popped

Remove(p, t)    == /\ ready' = [ready EXCEPT ![p] = Without(@, t)]
                   /\ UNCHANGED popped

Move(t, old, new) ==
    LET left == [ready EXCEPT ![old] = Without(@, t)]
    IN  /\ Absent(left, t)
        /\ ready' = [left EXCEPT ![new] = Append(@, t)]
        /\ UNCHANGED popped

\* Pop the head of the best level among those better than stop.
Pop(stop) ==
    \/ /\ \A p \in Priority : p < stop => ready[p] = <<>>
       /\ popped' = [limit |-> stop, thread |-> None]
       /\ UNCHANGED ready
    \/ \E p \in Priority :
         /\ p < stop
         /\ ready[p] # <<>>
         /\ \A q \in Priority : q < p => ready[q] = <<>>
         /\ popped' = [limit |-> stop, thread |-> Head(ready[p])]
         /\ ready' = [ready EXCEPT ![p] = Tail(@)]

Next == \/ \E p \in Priority, t \in Thread :
              PushFront(p, t) \/ PushBack(p, t) \/ Remove(p, t)
        \/ \E t \in Thread, old, new \in Priority : Move(t, old, new)
        \/ \E stop \in 0 .. NumQueues : Pop(stop)

Spec == Init /\ [][Next]_vars
===============================================================================
