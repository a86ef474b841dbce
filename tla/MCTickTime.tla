------------------------------ MODULE MCTickTime -----------------------------
(* Instance of TickTime for TLC. *)
EXTENDS TickTime, TLC

\* Tasks are not told apart.
Symmetry == Permutations(Task)

\* Item values and due times of tasks in no list are never read.
View ==
    <<clock, calls, period, suspension, waitsForEvent, xPendingReadyList, interrupts,
      pxDelayedTaskList, pxOverflowDelayedTaskList, xSuspendedTaskList,
      xNextTaskUnblockTime,
      [t \in Delayed |-> <<xItemValue[t], due[t]>>]>>
=============================================================================
