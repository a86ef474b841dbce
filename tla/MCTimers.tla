------------------------------- MODULE MCTimers ------------------------------
(* Instance of Timers for TLC.                                              *)
EXTENDS Timers, TLC

Symmetry == Permutations(Timer)
=============================================================================
