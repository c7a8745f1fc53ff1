------------------------------- MODULE MCKernel -------------------------------
(* Small instances of Kernel. *)
EXTENDS Kernel

CONSTANTS t1, t2, t3, m1, s1, e1, p1, p2

\* Everything on core 0, or t2 on core 1.
OneCore  == [t \in Thread |-> 0]
TwoCores == [t \in Thread |-> IF t = t2 THEN 1 ELSE 0]

\* One process, or t3 in a process of its own.
OneProcess   == [t \in Thread |-> p1]
TwoProcesses == [t \in Thread |-> IF t = t3 THEN p2 ELSE p1]

\* t1 best, t3 worst; or t1 best and the others alike.
Ascending == [t \in Thread |-> CASE t = t1 -> 0 [] t = t2 -> 1 [] OTHER -> 2]
LowLow    == [t \in Thread |-> IF t = t1 THEN 0 ELSE 1]

OneShot == [e \in Event |-> "OneShot"]
Pulse   == [e \in Event |-> "Pulse"]

MaxOne  == [s \in Semaphore |-> 1]
Zero    == [s \in Semaphore |-> 0]

\* Wait lists.
MutexOnly    == [t \in Thread |-> {<<m1>>}]
EventJoins   == [t \in Thread |-> {<<u>> : u \in Thread \ {t}} \cup {<<m1>>, <<e1, m1>>}]
Mixed        == [t \in Thread |-> CASE t = t1 -> {<<e1, s1>>, <<t2>>} [] t = t2 -> {<<e1, m1>>}
                                     [] OTHER -> {<<s1, m1>>}]
JoinsOnly    == [t \in Thread |-> {<<u>> : u \in Thread \ {t}}]
===============================================================================
