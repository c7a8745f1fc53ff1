------------------------------- MODULE MCArbiter ------------------------------
(***************************************************************************)
(* The instance of Arbiter that TLC checks.                                *)
(***************************************************************************)
EXTENDS Arbiter

\* Wake all, none, the best one, the best two.
SignalCounts == -1 .. 2
===============================================================================
