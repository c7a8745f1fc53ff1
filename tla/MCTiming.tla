------------------------------- MODULE MCTiming -------------------------------
(***************************************************************************)
(* The instance of Timing that TLC checks.                                 *)
(***************************************************************************)
EXTENDS Timing

\* A read that races with Advance sees the ticks as they are, or a slice behind.
\* Seeing them ahead only puts the event off.
MCTears == {-MAX_SLICE_LENGTH, 0}
===============================================================================
