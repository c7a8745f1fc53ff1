--------------------------------- MODULE Lists --------------------------------
(***************************************************************************)
(* Lists from which elements are taken, as std::remove_if, std::partition  *)
(* and the erase of a vector do.                                           *)
(***************************************************************************)
EXTENDS Naturals, FiniteSets, SequencesExt

\* The elements of s that are in S, in their order.  The k-th of them is at the
\* position with k such positions up to it.
Keep(s, S) ==
    LET kept == {i \in DOMAIN s : s[i] \in S}
        Upto(i) == {j \in kept : j <= i}
        Place(k) == CHOOSE i \in kept : Cardinality(Upto(i)) = k
    IN  [k \in 1 .. Cardinality(kept) |-> s[Place(k)]]
===============================================================================
