----------------------------- MODULE MCLpspiSync -----------------------------
(* Instance of LpspiSync for TLC: two tasks, transfers that fit the FIFO, that *)
(* fill it once and that fill it again, the timeout of one turn of the loop    *)
(* and one that leaves room.                                                   *)
EXTENDS LpspiSync, TLC

CONSTANTS t1, t2

MCCaller == {t1, t2}

Symmetric == Permutations(MCCaller)
=============================================================================
