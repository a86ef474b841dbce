------------------------------- MODULE MCQueue -------------------------------
(* Instances of Queue for TLC. *)
EXTENDS Queue, TLC

\* Neither tasks nor items are told apart.
Symmetry == Permutations(Task) \cup Permutations(Item)
=============================================================================
