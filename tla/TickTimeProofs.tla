-------------------------- MODULE TickTimeProofs --------------------------
(***************************************************************************)
(* Proofs about TickTime for every set of tasks, every width of the tick   *)
(* count and any number of ticks: the inductive invariant, what the        *)
(* delayed lists do at a tick and when a task is added or removed, that    *)
(* every action preserves the invariant, and the theorems.                 *)
(***************************************************************************)
EXTENDS TickTime, TLAPS

\* Where the wake times of the two lists lie in absolute time.
ListInv ==
    /\ \A t \in pxDelayedTaskList :
          /\ due[t] = era + xItemValue[t]
          /\ xTickCount < xItemValue[t]
          /\ xNextTaskUnblockTime <= xItemValue[t]
    /\ \A t \in pxOverflowDelayedTaskList :
          /\ due[t] = era + Wrap + xItemValue[t]
          /\ xItemValue[t] < xTickCount
    /\ pxDelayedTaskList \cap pxOverflowDelayedTaskList = {}
    /\ Delayed \cap xSuspendedTaskList = {}

\* Who may be where while the scheduler is suspended.
SuspensionInv ==
    /\ owner = NoTask <=> step = "none"
    /\ step \in {"delay", "check", "place"} => owner \notin Blocked
    /\ step = "delay" => owner \notin inCall
    /\ step \in {"check", "place"} => owner \in inCall
    /\ step \in {"none", "resuming"} => xPendingReadyList = {}
    /\ step = "none" => xPendedTicks = 0
    /\ NoTickLost

\* A release is the previous wake time, up to a number of wraps; it lies in
\* the future only for a task delayed until it.
PeriodInv ==
    \A t \in Task :
        /\ \/ release[t] = era + Wrap + xPreviousWakeTime[t]
           \/ release[t] = era + xPreviousWakeTime[t]
           \/ release[t] = era - Wrap + xPreviousWakeTime[t]
           \/ release[t] <= era - 2 * Wrap + xPreviousWakeTime[t]
        /\ release[t] > Now => /\ t \in Delayed
                               /\ due[t] = release[t]
                               /\ t \notin inCall
        /\ t \in (waitsForEvent \cup xPendingReadyList) => t \in inCall

\* The time a call was entered or last checked, up to a number of wraps, and
\* what remains of its timeout.
CallInv ==
    /\ \A t \in inCall :
          LET o == xTimeOut[t]
          IN  /\ o.xOverflowCount <= xNumOfOverflows
              /\ o.xOverflowCount = xNumOfOverflows
                     => entered[t] = era + o.xTimeOnEntering
              /\ o.xOverflowCount # xNumOfOverflows
                     => \/ entered[t] = era - Wrap + o.xTimeOnEntering
                        \/ entered[t] <= era - 2 * Wrap + o.xTimeOnEntering
              /\ entered[t] <= Now
              /\ deadline[t] = entered[t] + xTicksToWait[t]
              /\ xTicksToWait[t] > 0
    /\ step = "place" /\ xTicksToWait[owner] # portMAX_DELAY
           => entered[owner] = Now
    /\ \A t \in inCall \cap Delayed : due[t] = deadline[t]

Inv == TickTimeTypeOK /\ ListInv /\ SuspensionInv /\ PeriodInv /\ CallInv
-----------------------------------------------------------------------------
(* Facts about a tick.                                                     *)

\* What the rest of the proof needs of xTaskIncrementTick.
TickEffect ==
    /\ Now' = Now + 1
    /\ \/ era' = era /\ xNumOfOverflows' = xNumOfOverflows
       \/ era' = era + Wrap /\ xNumOfOverflows' = xNumOfOverflows + 1
    /\ Delayed' \subseteq Delayed
    /\ \A t \in Delayed \ Delayed' : due[t] = Now'
    /\ waitsForEvent' \subseteq waitsForEvent
    /\ \A t \in waitsForEvent' : t \in Delayed => t \in Delayed'
    /\ xTickCount' \in TickType_t /\ xNextTaskUnblockTime' \in TickType_t

\* A tick count or a time is not after itself.
LEMMA NotAfter == \A k \in Nat : k <= k
OBVIOUS

\* What is left of a wait of w ticks that started at s, when e of them have
\* elapsed at time n.
LEMMA Spans ==
    ASSUME NEW w \in TickType_t, NEW e \in Nat, NEW n \in Nat, NEW s \in Nat,
           e = n - s, e < w
    PROVE  w - e > 0 /\ w - e \in TickType_t /\ s + w = n + (w - e)
BY TickTimeAssumption DEF TickType_t, portMAX_DELAY

\* A tick advances time by one, wakes exactly the tasks due at it and keeps
\* the two lists in place (xTaskIncrementTick).
LEMMA TickLemma ==
    ASSUME TickTimeTypeOK, ListInv, IncrementTick,
           UNCHANGED <<xItemValue, due, xSuspendedTaskList>>
    PROVE  TickEffect /\ ListInv'
<1> DEFINE tick == Plus(xTickCount, 1)
           list == ListAt(tick)
           woken == {t \in list : xItemValue[t] <= tick}
<1> USE TickTimeAssumption DEF TickType_t, portMAX_DELAY
<1>1. PICK n \in TickType_t, next \in TickType_t :
        /\ xTickCount' = tick
        /\ IF tick = 0
           THEN /\ pxOverflowDelayedTaskList' = pxDelayedTaskList
                /\ xNumOfOverflows' = xNumOfOverflows + 1
                /\ era' = era + Wrap
                /\ IsUnblockTime(n, list)
           ELSE /\ UNCHANGED <<pxOverflowDelayedTaskList, xNumOfOverflows, era>>
                /\ n = xNextTaskUnblockTime
        /\ IF Due(tick, n)
           THEN /\ IsUnblockTime(next, list \ woken)
                /\ pxDelayedTaskList' = list \ woken
                /\ waitsForEvent' = waitsForEvent \ woken
           ELSE /\ next = n
                /\ pxDelayedTaskList' = list
                /\ UNCHANGED waitsForEvent
        /\ xNextTaskUnblockTime' = next
  BY Zenon DEF IncrementTick
<1>2. /\ xTickCount \in 0 .. Wrap - 1 /\ Wrap \in Nat /\ Wrap >= 2
      /\ era \in Nat
      /\ xItemValue \in [Task -> 0 .. Wrap - 1]
      /\ pxDelayedTaskList \subseteq Task /\ pxOverflowDelayedTaskList \subseteq Task
  BY Zenon DEF TickTimeTypeOK
<1>3. /\ tick \in 0 .. Wrap - 1
      /\ tick = 0 => xTickCount = Wrap - 1
      /\ tick # 0 => tick = xTickCount + 1
  BY <1>2 DEF Plus
<1>4. tick = 0 => pxDelayedTaskList = {}
  BY <1>2, <1>3 DEF ListInv
<1>5. era' + tick = era + xTickCount + 1
  BY <1>1, <1>2, <1>3
<1>6. \A t \in list : n <= xItemValue[t]
  <2>1. CASE tick = 0
    BY <2>1, <1>1, <1>2, Zenon DEF IsUnblockTime
  <2>2. CASE tick # 0
    BY <2>2, <1>1, <1>2, Zenon DEF ListInv, ListAt
  <2> QED BY <2>1, <2>2
<1>7. \A t \in list : due[t] = era' + xItemValue[t] /\ t \in Task /\ xItemValue[t] >= tick
  <2>1. CASE tick = 0
    BY <2>1, <1>1, <1>2 DEF ListInv, ListAt
  <2>2. CASE tick # 0
    BY <2>2, <1>1, <1>2, <1>3 DEF ListInv, ListAt
  <2> QED BY <2>1, <2>2, Zenon
<1>8. /\ pxDelayedTaskList' = list \ woken
      /\ waitsForEvent' = waitsForEvent \ woken
      /\ \A t \in pxDelayedTaskList' : next <= xItemValue[t]
  <2>1. CASE Due(tick, n)
    BY <2>1, <1>1, Zenon DEF IsUnblockTime
  <2>2. CASE ~Due(tick, n)
    <3>1. woken = {}
      BY <2>2, <1>2, <1>3, <1>6, <1>7 DEF Due
    <3> QED BY <2>2, <3>1, <1>1, <1>6, Zenon
  <2> QED BY <2>1, <2>2, Zenon
<1> HIDE DEF tick, list, woken
<1>9. \A t \in woken : due[t] = era' + tick
  BY <1>2, <1>3, <1>7 DEF woken
<1>10. Delayed = list \cup pxOverflowDelayedTaskList'
  BY <1>1, <1>4, Zenon DEF Delayed, list, ListAt
<1>11. TickEffect
  <2>1. Now' = Now + 1
    BY <1>1, <1>2, <1>5, Zenon DEF Now
  <2>2. Delayed' \subseteq Delayed /\ Delayed \ Delayed' \subseteq woken
    BY <1>8, <1>10 DEF Delayed
  <2>3. \A t \in Delayed \ Delayed' : due[t] = Now'
    BY <2>2, <1>9, <1>1, Zenon DEF Now
  <2>4. \A t \in waitsForEvent' : t \in Delayed => t \in Delayed'
    BY <1>8, <1>10 DEF Delayed
  <2> QED BY <2>1, <2>2, <2>3, <2>4, <1>1, <1>3, <1>8, Zenon DEF TickEffect
<1>12. ListInv'
  <2>1. \A t \in pxDelayedTaskList' :
           /\ due'[t] = era' + xItemValue'[t]
           /\ xTickCount' < xItemValue'[t]
           /\ xNextTaskUnblockTime' <= xItemValue'[t]
    BY <1>1, <1>2, <1>3, <1>7, <1>8 DEF woken
  <2>2. \A t \in pxOverflowDelayedTaskList' :
           /\ due'[t] = era' + Wrap + xItemValue'[t]
           /\ xItemValue'[t] < xTickCount'
    <3>1. CASE tick = 0
      BY <3>1, <1>1, <1>4, Zenon
    <3>2. CASE tick # 0
      BY <3>2, <1>1, <1>2, <1>3 DEF ListInv
    <3> QED BY <3>1, <3>2, Zenon
  <2>3. pxDelayedTaskList' \cap pxOverflowDelayedTaskList' = {}
    BY <1>1, <1>4, <1>8, Zenon DEF ListInv, list, ListAt
  <2>4. Delayed' \cap xSuspendedTaskList' = {}
    BY <1>11, Zenon DEF TickEffect, ListInv
  <2> QED BY <2>1, <2>2, <2>3, <2>4, Zenon DEF ListInv
<1> QED BY <1>11, <1>12
-----------------------------------------------------------------------------
(* Facts about blocking.                                                   *)

\* A task put on a delayed list wakes the given number of ticks from now,
\* whichever list it is put on (prvAddCurrentTaskToDelayedList).
LEMMA AddLemma ==
    ASSUME TickTimeTypeOK, ListInv,
           NEW t \in Task, t \notin Blocked,
           NEW ticks \in 1 .. portMAX_DELAY,
           AddToDelayedList(t, ticks),
           UNCHANGED <<xTickCount, era, xSuspendedTaskList>>
    PROVE  /\ ListInv'
           /\ Delayed' = Delayed \cup {t}
           /\ due' = [due EXCEPT ![t] = Now + ticks]
           /\ due' \in [Task -> Nat]
           /\ xItemValue' \in [Task -> TickType_t]
           /\ xNextTaskUnblockTime' \in TickType_t
           /\ pxDelayedTaskList' \subseteq Task
           /\ pxOverflowDelayedTaskList' \subseteq Task
<1> DEFINE wake == Plus(xTickCount, ticks)
<1> USE TickTimeAssumption DEF TickType_t, portMAX_DELAY
<1>1. /\ xTickCount \in 0 .. Wrap - 1 /\ Wrap \in Nat /\ Wrap >= 2
      /\ era \in Nat
      /\ xItemValue \in [Task -> 0 .. Wrap - 1]
      /\ due \in [Task -> Nat]
      /\ xNextTaskUnblockTime \in 0 .. Wrap - 1
      /\ pxDelayedTaskList \subseteq Task /\ pxOverflowDelayedTaskList \subseteq Task
  BY Zenon DEF TickTimeTypeOK
<1>2. /\ wake \in 0 .. Wrap - 1
      /\ wake < xTickCount => Now + ticks = era + Wrap + wake
      /\ ~(wake < xTickCount) => Now + ticks = era + wake /\ wake > xTickCount
  BY <1>1 DEF Plus, Now
<1>3. /\ xItemValue' = [xItemValue EXCEPT ![t] = wake]
      /\ due' = [due EXCEPT ![t] = Now + ticks]
  BY Zenon DEF AddToDelayedList
<1>4. /\ t \notin pxDelayedTaskList /\ t \notin pxOverflowDelayedTaskList
      /\ t \notin xSuspendedTaskList
  BY DEF Blocked, Delayed
<1> HIDE DEF wake
<1>5. due' \in [Task -> Nat] /\ xItemValue' \in [Task -> 0 .. Wrap - 1]
  BY <1>1, <1>2, <1>3 DEF Now
<1>6. CASE wake < xTickCount
  <2>1. /\ pxOverflowDelayedTaskList' = pxOverflowDelayedTaskList \cup {t}
        /\ pxDelayedTaskList' = pxDelayedTaskList
        /\ xNextTaskUnblockTime' = xNextTaskUnblockTime
    BY <1>6, Zenon DEF AddToDelayedList, Overflows, wake
  <2>2. ListInv'
    BY <2>1, <1>1, <1>2, <1>3, <1>4, <1>6 DEF ListInv, Delayed
  <2>3. Delayed' = Delayed \cup {t}
    BY <2>1 DEF Delayed
  <2> QED BY <2>1, <2>2, <2>3, <1>1, <1>3, <1>5, Zenon
<1>7. CASE ~(wake < xTickCount)
  <2>1. /\ pxOverflowDelayedTaskList' = pxOverflowDelayedTaskList
        /\ pxDelayedTaskList' = pxDelayedTaskList \cup {t}
        /\ xNextTaskUnblockTime' = UnblockTime(wake)
    BY <1>7, Zenon DEF AddToDelayedList, Overflows, wake
  <2>2. /\ xNextTaskUnblockTime' \in 0 .. Wrap - 1
        /\ xNextTaskUnblockTime' <= wake
        /\ xNextTaskUnblockTime' <= xNextTaskUnblockTime
    BY <2>1, <1>1, <1>2 DEF UnblockTime
  <2>3. ListInv'
    <3>1. \A r \in pxDelayedTaskList' :
             /\ due'[r] = era' + xItemValue'[r]
             /\ xTickCount' < xItemValue'[r]
             /\ xNextTaskUnblockTime' <= xItemValue'[r]
      BY <2>1, <2>2, <1>1, <1>2, <1>3, <1>4, <1>7 DEF ListInv
    <3>2. \A r \in pxOverflowDelayedTaskList' :
             /\ due'[r] = era' + Wrap + xItemValue'[r]
             /\ xItemValue'[r] < xTickCount'
      BY <2>1, <1>1, <1>3, <1>4, Zenon DEF ListInv
    <3> QED BY <3>1, <3>2, <2>1, <1>4, Zenon DEF ListInv, Delayed
  <2>4. Delayed' = Delayed \cup {t}
    BY <2>1 DEF Delayed
  <2> QED BY <2>1, <2>2, <2>3, <2>4, <1>1, <1>3, <1>5, Zenon
<1> QED BY <1>6, <1>7, Zenon

\* Tasks taken off the lists leave the others where they are
\* (xTaskRemoveFromEventList, xTaskResumeAll).
LEMMA RemoveLemma ==
    ASSUME TickTimeTypeOK, ListInv, NEW ready,
           pxDelayedTaskList' = pxDelayedTaskList \ ready,
           pxOverflowDelayedTaskList' = pxOverflowDelayedTaskList \ ready,
           xSuspendedTaskList' = xSuspendedTaskList \ ready,
           \/ xNextTaskUnblockTime' = xNextTaskUnblockTime
           \/ IsUnblockTime(xNextTaskUnblockTime', pxDelayedTaskList'),
           UNCHANGED <<xTickCount, era, xItemValue, due>>
    PROVE  /\ ListInv'
           /\ Delayed' = Delayed \ ready
           /\ Blocked' = Blocked \ ready
<1>1. \A t \in pxDelayedTaskList' : xNextTaskUnblockTime' <= xItemValue[t]
  BY DEF ListInv, IsUnblockTime
<1>2. Delayed' = Delayed \ ready /\ Blocked' = Blocked \ ready
  BY DEF Delayed, Blocked
<1> QED BY <1>1, <1>2, Zenon DEF ListInv, Delayed
-----------------------------------------------------------------------------
(* The invariant is inductive.                                             *)

\* A tick, pended or not, keeps the two invariants about time
\* (xTaskIncrementTick): a wrap moves era and the overflow count together.
LEMMA TickTimes ==
    ASSUME Inv, TickEffect, ListInv', xPendingReadyList = {},
           UNCHANGED <<xItemValue, due, xSuspendedTaskList, xPendingReadyList,
                       calls, period, owner, step>>,
           step \in {"none", "resuming"}
    PROVE  PeriodInv' /\ CallInv'
<1> USE TickTimeAssumption DEF TickType_t, portMAX_DELAY
<1>1. /\ Wrap \in Nat /\ era \in Nat /\ Now \in Nat /\ xNumOfOverflows \in Nat
      /\ release \in [Task -> Nat] /\ entered \in [Task -> Nat]
      /\ due \in [Task -> Nat]
      /\ xPreviousWakeTime \in [Task -> 0 .. Wrap - 1]
      /\ inCall \subseteq Task
      /\ xTimeOut \in [Task -> [xOverflowCount : Nat, xTimeOnEntering : 0 .. Wrap - 1]]
  BY DEF Inv, TickTimeTypeOK, Now
<1>2. /\ Now' = Now + 1
      /\ \/ era' = era /\ xNumOfOverflows' = xNumOfOverflows
         \/ era' = era + Wrap /\ xNumOfOverflows' = xNumOfOverflows + 1
      /\ Delayed' \subseteq Delayed
      /\ \A t \in Delayed \ Delayed' : due[t] = Now'
      /\ waitsForEvent' \subseteq waitsForEvent
  BY Zenon DEF TickEffect
<1>3. ASSUME NEW t \in Task
      PROVE  \/ release[t] = era' + Wrap + xPreviousWakeTime[t]
             \/ release[t] = era' + xPreviousWakeTime[t]
             \/ release[t] = era' - Wrap + xPreviousWakeTime[t]
             \/ release[t] <= era' - 2 * Wrap + xPreviousWakeTime[t]
  BY <1>1, <1>2 DEF Inv, PeriodInv
<1>4. ASSUME NEW t \in Task, release[t] > Now'
      PROVE  t \in Delayed' /\ due[t] = release[t] /\ t \notin inCall
  BY <1>1, <1>2, <1>4 DEF Inv, PeriodInv
<1>5. PeriodInv'
  <2>1. \A t \in Task : t \in waitsForEvent' \cup xPendingReadyList' => t \in inCall
    BY <1>2, Zenon DEF Inv, PeriodInv
  <2> QED BY <1>3, <1>4, <2>1, Zenon DEF PeriodInv, calls, period
<1>6. ASSUME NEW t \in inCall
      PROVE  LET o == xTimeOut[t]
             IN  /\ o.xOverflowCount <= xNumOfOverflows'
                 /\ o.xOverflowCount = xNumOfOverflows'
                        => entered[t] = era' + o.xTimeOnEntering
                 /\ o.xOverflowCount # xNumOfOverflows'
                        => \/ entered[t] = era' - Wrap + o.xTimeOnEntering
                           \/ entered[t] <= era' - 2 * Wrap + o.xTimeOnEntering
                 /\ entered[t] <= Now'
                 /\ deadline[t] = entered[t] + xTicksToWait[t]
                 /\ xTicksToWait[t] > 0
  <2>1. /\ t \in Task
        /\ xTimeOut[t].xOverflowCount \in Nat
        /\ xTimeOut[t].xTimeOnEntering \in 0 .. Wrap - 1
        /\ entered[t] \in Nat
    BY <1>1, Zenon
  <2> QED BY <2>1, <1>1, <1>2 DEF Inv, CallInv
<1>7. CallInv'
  <2>1. \A t \in inCall \cap Delayed' : due[t] = deadline[t]
    BY <1>2, Zenon DEF Inv, CallInv
  <2>2. step # "place"
    OBVIOUS
  <2> QED BY <1>6, <2>1, <2>2, Zenon DEF CallInv, calls
<1> QED BY <1>5, <1>7

\* Tick keeps the invariant.
LEMMA TickInv == Inv /\ Tick => Inv'
<1> SUFFICES ASSUME Inv, Tick PROVE Inv'
  OBVIOUS
<1> USE TickTimeAssumption
<1>0. /\ step # "resuming" /\ interrupts' = interrupts + 1
      /\ UNCHANGED <<xSuspendedTaskList, xItemValue, calls, period, owner, step,
                     xPendedCounts, xPendingReadyList, due>>
  BY DEF Tick
<1>1. CASE owner = NoTask
  <2>1. IncrementTick /\ xPendedTicks' = xPendedTicks
    BY <1>1 DEF Tick
  <2>2. step = "none" /\ xPendingReadyList = {}
    BY <1>1 DEF Inv, SuspensionInv
  <2>3. TickEffect /\ ListInv'
    BY <2>1, <1>0, TickLemma DEF Inv
  <2>4. PeriodInv' /\ CallInv'
    BY <2>2, <2>3, <1>0, TickTimes
  <2>5. TickTimeTypeOK'
    <3>1. /\ xNumOfOverflows' \in Nat /\ era' \in Nat /\ interrupts' \in Nat
      BY <1>0, <2>3 DEF Inv, TickTimeTypeOK, TickEffect
    <3>2. pxDelayedTaskList' \subseteq Task /\ pxOverflowDelayedTaskList' \subseteq Task
      BY <2>3, Zenon DEF Inv, TickTimeTypeOK, TickEffect, Delayed
    <3>3. waitsForEvent' \subseteq Blocked'
      BY <2>3, <1>0, Zenon DEF Inv, TickTimeTypeOK, TickEffect, Blocked
    <3>4. xPendingReadyList' \subseteq Blocked' \ waitsForEvent'
      BY <2>2, <1>0
    <3> QED BY <3>1, <3>2, <3>3, <3>4, <2>1, <2>3, <1>0, Zenon
            DEF Inv, TickTimeTypeOK, TickEffect, calls, period
  <2>6. SuspensionInv'
    <3>1. NoTickLost'
      BY <2>1, <2>2, <2>3, <1>0
         DEF Inv, TickTimeTypeOK, SuspensionInv, NoTickLost, TickEffect, Now, TickType_t, portMAX_DELAY
    <3> QED BY <3>1, <2>1, <2>2, <1>0, Zenon DEF Inv, SuspensionInv
  <2> QED BY <2>3, <2>4, <2>5, <2>6 DEF Inv
<1>2. CASE owner # NoTask
  <2>1. /\ xPendedTicks' = xPendedTicks + 1
        /\ UNCHANGED <<pxDelayedTaskList, pxOverflowDelayedTaskList,
                       xNextTaskUnblockTime, waitsForEvent, clock>>
    BY <1>2 DEF Tick
  <2>2. TickTimeTypeOK'
    BY <1>0, <2>1 DEF Inv, TickTimeTypeOK, Blocked, Delayed, clock, calls, period
  <2>3. ListInv'
    BY <1>0, <2>1, Zenon DEF Inv, ListInv, Delayed, clock
  <2>4. SuspensionInv'
    <3>1. NoTickLost'
      BY <2>1, <1>0
         DEF Inv, TickTimeTypeOK, SuspensionInv, NoTickLost, Now, clock, TickType_t, portMAX_DELAY
    <3> QED BY <3>1, <1>2, <2>1, <1>0, Zenon DEF Inv, SuspensionInv, Blocked, Delayed, calls
  <2>5. PeriodInv'
    BY <1>0, <2>1, Zenon DEF Inv, PeriodInv, Now, Delayed, clock, calls, period
  <2>6. CallInv'
    BY <1>0, <2>1, Zenon DEF Inv, CallInv, Now, Delayed, clock, calls
  <2> QED BY <2>2, <2>3, <2>4, <2>5, <2>6 DEF Inv
<1> QED BY <1>1, <1>2
\* The three parts of xTaskResumeAll keep the invariant: the pending list, ...
LEMMA ResumePendingInv == Inv /\ ResumePending => Inv'
<1> SUFFICES ASSUME Inv, ResumePending PROVE Inv'
  OBVIOUS
<1>1. /\ step = "resume" /\ step' = "resuming"
      /\ pxDelayedTaskList' = pxDelayedTaskList \ xPendingReadyList
      /\ pxOverflowDelayedTaskList' = pxOverflowDelayedTaskList \ xPendingReadyList
      /\ xSuspendedTaskList' = xSuspendedTaskList \ xPendingReadyList
      /\ xPendingReadyList' = {}
      /\ xPendedCounts' = xPendedTicks
      /\ UNCHANGED <<xItemValue, clock, calls, period, owner, xPendedTicks,
                     waitsForEvent, interrupts, due>>
  BY DEF ResumePending, PendedCount
<1>2. /\ xNextTaskUnblockTime' \in TickType_t
      /\ \/ xNextTaskUnblockTime' = xNextTaskUnblockTime
         \/ IsUnblockTime(xNextTaskUnblockTime', pxDelayedTaskList')
  BY DEF ResumePending
<1>3. /\ ListInv'
      /\ Delayed' = Delayed \ xPendingReadyList
      /\ Blocked' = Blocked \ xPendingReadyList
  BY <1>1, <1>2, RemoveLemma, Zenon DEF Inv, clock
<1>4. TickTimeTypeOK'
  <2>1. waitsForEvent' \subseteq Blocked' /\ xPendingReadyList' \subseteq Blocked' \ waitsForEvent'
    BY <1>1, <1>3, Zenon DEF Inv, TickTimeTypeOK
  <2>2. xPendedCounts' \in Nat /\ step' \in {"none", "delay", "check", "place", "resume", "resuming"}
    BY <1>1, Zenon DEF Inv, TickTimeTypeOK
  <2> QED BY <2>1, <2>2, <1>1, <1>2, Zenon DEF Inv, TickTimeTypeOK, clock, calls, period
<1>5. SuspensionInv'
  <2>1. NoTickLost'
    BY <1>1, Zenon DEF Inv, SuspensionInv, NoTickLost, Now, clock
  <2> QED BY <2>1, <1>1, Zenon DEF Inv, SuspensionInv
<1>6. PeriodInv'
  BY <1>1, <1>3, Zenon DEF Inv, PeriodInv, Now, clock, calls, period
<1>7. CallInv'
  BY <1>1, <1>3, Zenon DEF Inv, CallInv, Now, clock, calls
<1> QED BY <1>3, <1>4, <1>5, <1>6, <1>7 DEF Inv

\* ... each pended tick, ...
LEMMA ResumeTickInv == Inv /\ ResumeTick => Inv'
<1> SUFFICES ASSUME Inv, ResumeTick PROVE Inv'
  OBVIOUS
<1> USE TickTimeAssumption
<1>1. /\ step = "resuming" /\ xPendedCounts > 0 /\ IncrementTick
      /\ xPendedCounts' = xPendedCounts - 1
      /\ UNCHANGED <<xSuspendedTaskList, xItemValue, calls, period, owner, step,
                     xPendedTicks, xPendingReadyList, interrupts, due>>
  BY DEF ResumeTick
<1>2. xPendingReadyList = {}
  BY <1>1 DEF Inv, SuspensionInv
<1>3. TickEffect /\ ListInv'
  BY <1>1, TickLemma DEF Inv
<1>4. PeriodInv' /\ CallInv'
  BY <1>1, <1>2, <1>3, TickTimes
<1>5. TickTimeTypeOK'
  <2>1. xNumOfOverflows' \in Nat /\ era' \in Nat /\ xPendedCounts' \in Nat
    BY <1>1, <1>3 DEF Inv, TickTimeTypeOK, TickEffect
  <2>2. pxDelayedTaskList' \subseteq Task /\ pxOverflowDelayedTaskList' \subseteq Task
    BY <1>3, Zenon DEF Inv, TickTimeTypeOK, TickEffect, Delayed
  <2>3. waitsForEvent' \subseteq Blocked'
    BY <1>1, <1>3, Zenon DEF Inv, TickTimeTypeOK, TickEffect, Blocked
  <2>4. xPendingReadyList' \subseteq Blocked' \ waitsForEvent'
    BY <1>1, <1>2
  <2> QED BY <2>1, <2>2, <2>3, <2>4, <1>1, <1>3, Zenon
          DEF Inv, TickTimeTypeOK, TickEffect, calls, period
<1>6. SuspensionInv'
  <2>1. NoTickLost'
    BY <1>1, <1>3 DEF Inv, TickTimeTypeOK, SuspensionInv, NoTickLost, TickEffect,
                      Now, TickType_t, portMAX_DELAY
  <2> QED BY <2>1, <1>1, <1>2, Zenon DEF Inv, SuspensionInv
<1> QED BY <1>3, <1>4, <1>5, <1>6 DEF Inv

\* ... and the end.
LEMMA ResumeEndInv == Inv /\ ResumeEnd => Inv'
<1> SUFFICES ASSUME Inv, ResumeEnd PROVE Inv'
  OBVIOUS
<1> USE TickTimeAssumption
<1>1. /\ step = "resuming" /\ xPendedCounts = 0 /\ xPendedTicks' = 0
      /\ owner' = NoTask /\ step' = "none"
      /\ UNCHANGED <<lists, clock, calls, period, xPendedCounts, waitsForEvent,
                     xPendingReadyList, interrupts, due>>
  BY DEF ResumeEnd
<1>2. TickTimeTypeOK'
  BY <1>1, Zenon DEF Inv, TickTimeTypeOK, Blocked, Delayed, lists, clock, calls, period
<1>3. ListInv'
  BY <1>1, Zenon DEF Inv, ListInv, Delayed, lists, clock
<1>4. SuspensionInv'
  BY <1>1, Zenon DEF Inv, SuspensionInv, NoTickLost, Now, clock
<1>5. PeriodInv'
  BY <1>1, Zenon DEF Inv, PeriodInv, Now, Delayed, lists, clock, calls, period
<1>6. CallInv'
  BY <1>1, Zenon DEF Inv, CallInv, Now, Delayed, lists, clock, calls
<1> QED BY <1>2, <1>3, <1>4, <1>5, <1>6 DEF Inv

\* vTaskSuspendAll keeps the invariant.
LEMMA SuspendAllInv == \A t \in Task : Inv /\ vTaskSuspendAll(t) => Inv'
<1> SUFFICES ASSUME NEW t \in Task, Inv, vTaskSuspendAll(t) PROVE Inv'
  OBVIOUS
<1> USE TickTimeAssumption
<1>1. /\ owner = NoTask /\ t \notin Blocked /\ owner' = t
      /\ step' = IF t \in inCall THEN "check" ELSE "delay"
      /\ UNCHANGED <<lists, clock, calls, period, xPendedTicks, xPendedCounts,
                     waitsForEvent, xPendingReadyList, interrupts, due>>
  BY DEF vTaskSuspendAll
<1>2. TickTimeTypeOK'
  BY <1>1, Zenon DEF Inv, TickTimeTypeOK, Blocked, Delayed, lists, clock, calls, period
<1>3. ListInv'
  BY <1>1, Zenon DEF Inv, ListInv, Delayed, lists, clock
<1>4. SuspensionInv'
  BY <1>1, Zenon DEF Inv, SuspensionInv, NoTickLost, Now, Blocked, Delayed, lists, clock, calls
<1>5. PeriodInv'
  BY <1>1, Zenon DEF Inv, PeriodInv, Now, Delayed, lists, clock, calls, period
<1>6. CallInv'
  BY <1>1, Zenon DEF Inv, CallInv, Now, Delayed, lists, clock, calls
<1> QED BY <1>2, <1>3, <1>4, <1>5, <1>6 DEF Inv
\* vTaskDelay keeps the invariant.
LEMMA DelayInv ==
    \A t \in Task, n \in TickType_t \ {0} : Inv /\ vTaskDelay(t, n) => Inv'
<1> SUFFICES ASSUME NEW t \in Task, NEW n \in TickType_t \ {0}, Inv, vTaskDelay(t, n)
             PROVE Inv'
  OBVIOUS
<1> USE TickTimeAssumption
<1>1. /\ owner = t /\ step = "delay" /\ step' = "resume"
      /\ AddToDelayedList(t, n)
      /\ UNCHANGED <<xSuspendedTaskList, clock, calls, period, owner, xPendedTicks,
                     xPendedCounts, waitsForEvent, xPendingReadyList, interrupts>>
  BY DEF vTaskDelay
<1>2. t \notin Blocked /\ t \notin inCall /\ n \in 1 .. portMAX_DELAY
  BY <1>1 DEF Inv, SuspensionInv, TickType_t, portMAX_DELAY
<1>3. /\ ListInv'
      /\ Delayed' = Delayed \cup {t}
      /\ due' = [due EXCEPT ![t] = Now + n]
      /\ due' \in [Task -> Nat]
      /\ xItemValue' \in [Task -> TickType_t]
      /\ xNextTaskUnblockTime' \in TickType_t
      /\ pxDelayedTaskList' \subseteq Task
      /\ pxOverflowDelayedTaskList' \subseteq Task
  BY <1>1, <1>2, AddLemma, Zenon DEF Inv, clock
<1>4. TickTimeTypeOK'
  <2>1. waitsForEvent' \subseteq Blocked' /\ xPendingReadyList' \subseteq Blocked' \ waitsForEvent'
    BY <1>1, <1>3, Zenon DEF Inv, TickTimeTypeOK, Blocked
  <2> QED BY <2>1, <1>1, <1>3, Zenon DEF Inv, TickTimeTypeOK, clock, calls, period
<1>5. SuspensionInv'
  BY <1>1, Zenon DEF Inv, SuspensionInv, NoTickLost, Now, clock
<1>6. PeriodInv'
  <2>1. release[t] <= Now
    BY <1>2 DEF Inv, PeriodInv, TickTimeTypeOK, Now, TickType_t, portMAX_DELAY, Blocked
  <2>2. \A r \in Task \ {t} : due'[r] = due[r] /\ (r \in Delayed' <=> r \in Delayed)
    BY <1>3, Zenon DEF Inv, TickTimeTypeOK
  <2>3. \A r \in Task : release[r] > Now => /\ r \in Delayed' /\ due'[r] = release[r]
                                            /\ r \notin inCall
    BY <2>1, <2>2 DEF Inv, PeriodInv, TickTimeTypeOK, Now, TickType_t, portMAX_DELAY
  <2>4. /\ Now' = Now /\ era' = era
        /\ UNCHANGED <<release, xPreviousWakeTime, inCall, waitsForEvent, xPendingReadyList>>
    BY <1>1, Zenon DEF Now, clock, calls, period
  <2> QED BY <2>3, <2>4, Zenon DEF Inv, PeriodInv
<1>7. CallInv'
  <2>1. \A r \in inCall \cap Delayed' : due'[r] = deadline[r]
    BY <1>2, <1>3, Zenon DEF Inv, CallInv, TickTimeTypeOK
  <2> QED BY <2>1, <1>1, Zenon DEF Inv, CallInv, Now, clock, calls
<1> QED BY <1>3, <1>4, <1>5, <1>6, <1>7, Zenon DEF Inv

\* The comparison of xTaskDelayUntil is that of absolute time, for a task
\* whose last release is not in the future and less than a wrap ago.
LEMMA DelayUntilLemma ==
    ASSUME Inv, NEW t \in Task, t \notin Blocked, Punctual(t),
           NEW n \in TickType_t \ {0},
           NEW wake, wake = Plus(xPreviousWakeTime[t], n)
    PROVE  /\ ShouldDelay(xTickCount, xPreviousWakeTime[t], wake) <=> Now < release[t] + n
           /\ Now < release[t] + n
                 => /\ Minus(wake, xTickCount) \in 1 .. portMAX_DELAY
                    /\ Now + Minus(wake, xTickCount) = release[t] + n
           /\ wake \in TickType_t
           /\ \/ release[t] + n = era + Wrap + wake
              \/ release[t] + n = era + wake
              \/ release[t] + n = era - Wrap + wake
<1> USE TickTimeAssumption DEF TickType_t, portMAX_DELAY
<1> DEFINE p == xPreviousWakeTime[t]
<1>1. /\ xTickCount \in 0 .. Wrap - 1 /\ Wrap \in Nat /\ Wrap >= 2 /\ era \in Nat
      /\ p \in 0 .. Wrap - 1 /\ release[t] \in Nat
      /\ n \in 1 .. Wrap - 1
  BY DEF Inv, TickTimeTypeOK
<1>2. release[t] <= Now
  BY <1>1 DEF Inv, PeriodInv, Now, Blocked
<1>3. \/ release[t] = era + p /\ p <= xTickCount
      \/ release[t] = era - Wrap + p /\ p > xTickCount
  BY <1>1, <1>2 DEF Inv, PeriodInv, Now, Punctual
<1> HIDE DEF p
<1>4. wake = Plus(p, n)
  BY DEF p
<1>5. CASE p <= xTickCount
  <2>1. release[t] = era + p
    BY <1>1, <1>3, <1>5
  <2> QED BY <2>1, <1>1, <1>4, <1>5 DEF ShouldDelay, Plus, Minus, Now, p
<1>6. CASE ~(p <= xTickCount)
  <2>1. release[t] = era - Wrap + p
    BY <1>1, <1>3, <1>6
  <2> QED BY <2>1, <1>1, <1>4, <1>6 DEF ShouldDelay, Plus, Minus, Now, p
<1> QED BY <1>5, <1>6, Zenon

\* What a call of xTaskDelayUntil does, in absolute time.
DelayUntilEffect(t, n) ==
    /\ owner = t /\ step = "delay" /\ step' = "resume"
    /\ t \notin Blocked /\ t \notin inCall
    /\ release' = [release EXCEPT ![t] = @ + n]
    /\ IF Now < release[t] + n
       THEN /\ ListInv'
            /\ Delayed' = Delayed \cup {t}
            /\ due' = [due EXCEPT ![t] = release[t] + n]
       ELSE UNCHANGED <<pxDelayedTaskList, pxOverflowDelayedTaskList,
                        xItemValue, xNextTaskUnblockTime, due>>
    /\ due' \in [Task -> Nat]
    /\ xItemValue' \in [Task -> TickType_t]
    /\ xNextTaskUnblockTime' \in TickType_t
    /\ pxDelayedTaskList' \subseteq Task
    /\ pxOverflowDelayedTaskList' \subseteq Task
    /\ UNCHANGED <<xSuspendedTaskList, clock, calls, owner, xPendedTicks,
                   xPendedCounts, waitsForEvent, xPendingReadyList, interrupts>>

\* A call of xTaskDelayUntil blocks the task exactly if its release is still
\* to come, and until then.
LEMMA DelayUntilStep ==
    ASSUME Inv, NEW t \in Task, NEW n \in TickType_t \ {0}, xTaskDelayUntil(t, n)
    PROVE  /\ DelayUntilEffect(t, n)
           /\ xPreviousWakeTime' = [xPreviousWakeTime EXCEPT
                                       ![t] = Plus(xPreviousWakeTime[t], n)]
<1> DEFINE wake == Plus(xPreviousWakeTime[t], n)
<1>1. /\ owner = t /\ step = "delay" /\ step' = "resume" /\ Punctual(t)
      /\ xPreviousWakeTime' = [xPreviousWakeTime EXCEPT ![t] = wake]
      /\ release' = [release EXCEPT ![t] = @ + n]
      /\ IF ShouldDelay(xTickCount, xPreviousWakeTime[t], wake)
         THEN AddToDelayedList(t, Minus(wake, xTickCount))
         ELSE UNCHANGED <<pxDelayedTaskList, pxOverflowDelayedTaskList,
                          xItemValue, xNextTaskUnblockTime, due>>
      /\ UNCHANGED <<xSuspendedTaskList, clock, calls, owner, xPendedTicks,
                     xPendedCounts, waitsForEvent, xPendingReadyList, interrupts>>
  BY Zenon DEF xTaskDelayUntil
<1>2. t \notin Blocked /\ t \notin inCall
  BY <1>1, Zenon DEF Inv, SuspensionInv
<1> HIDE DEF wake
<1>3. /\ ShouldDelay(xTickCount, xPreviousWakeTime[t], wake) <=> Now < release[t] + n
      /\ Now < release[t] + n
            => /\ Minus(wake, xTickCount) \in 1 .. portMAX_DELAY
               /\ Now + Minus(wake, xTickCount) = release[t] + n
  BY <1>1, <1>2, DelayUntilLemma, Zenon DEF wake
<1>4. CASE Now < release[t] + n
  <2>1. AddToDelayedList(t, Minus(wake, xTickCount))
    BY <1>1, <1>3, <1>4, Zenon
  <2>2. /\ ListInv'
        /\ Delayed' = Delayed \cup {t}
        /\ due' = [due EXCEPT ![t] = Now + Minus(wake, xTickCount)]
        /\ due' \in [Task -> Nat]
        /\ xItemValue' \in [Task -> TickType_t]
        /\ xNextTaskUnblockTime' \in TickType_t
        /\ pxDelayedTaskList' \subseteq Task
        /\ pxOverflowDelayedTaskList' \subseteq Task
    BY <2>1, <1>1, <1>2, <1>3, <1>4, AddLemma, Zenon DEF Inv, clock
  <2> QED BY <2>2, <1>1, <1>2, <1>3, <1>4, Zenon DEF DelayUntilEffect, wake
<1>5. CASE ~(Now < release[t] + n)
  BY <1>1, <1>2, <1>3, <1>5, Zenon DEF DelayUntilEffect, wake, Inv, TickTimeTypeOK
<1> QED BY <1>4, <1>5
\* xTaskDelayUntil keeps the invariant.
LEMMA DelayUntilInv ==
    \A t \in Task, n \in TickType_t \ {0} : Inv /\ xTaskDelayUntil(t, n) => Inv'
<1> SUFFICES ASSUME NEW t \in Task, NEW n \in TickType_t \ {0}, Inv, xTaskDelayUntil(t, n)
             PROVE Inv'
  OBVIOUS
<1> USE TickTimeAssumption
<1> DEFINE wake == Plus(xPreviousWakeTime[t], n)
<1>1. /\ DelayUntilEffect(t, n)
      /\ xPreviousWakeTime' = [xPreviousWakeTime EXCEPT ![t] = wake]
  BY DelayUntilStep
<1>2. /\ wake \in TickType_t
      /\ \/ release[t] + n = era + Wrap + wake
         \/ release[t] + n = era + wake
         \/ release[t] + n = era - Wrap + wake
  <2>1. Punctual(t)
    BY Zenon DEF xTaskDelayUntil
  <2> QED BY <1>1, <2>1, DelayUntilLemma, Zenon DEF DelayUntilEffect
<1> HIDE DEF wake
<1>3. Now' = Now /\ era' = era /\ inCall' = inCall
  BY <1>1, Zenon DEF DelayUntilEffect, Now, clock, calls
<1>4. /\ Delayed \subseteq Delayed'
      /\ \A r \in Task \ {t} : due'[r] = due[r] /\ (r \in Delayed' <=> r \in Delayed)
  BY <1>1, Zenon DEF Inv, TickTimeTypeOK, DelayUntilEffect, Delayed
<1>5. ListInv'
  BY <1>1, Zenon DEF Inv, ListInv, DelayUntilEffect, Delayed, clock
<1>6. TickTimeTypeOK'
  <2>1. waitsForEvent' \subseteq Blocked' /\ xPendingReadyList' \subseteq Blocked' \ waitsForEvent'
    BY <1>1, <1>4, Zenon DEF Inv, TickTimeTypeOK, Blocked, DelayUntilEffect
  <2>2. /\ release' \in [Task -> Nat]
        /\ xPreviousWakeTime' \in [Task -> TickType_t]
    BY <1>1, <1>2 DEF Inv, TickTimeTypeOK, DelayUntilEffect, TickType_t, portMAX_DELAY
  <2> QED BY <2>1, <2>2, <1>1, Zenon DEF Inv, TickTimeTypeOK, DelayUntilEffect, clock, calls
<1>7. SuspensionInv'
  BY <1>1, <1>3, Zenon DEF Inv, SuspensionInv, NoTickLost, DelayUntilEffect
<1>8. PeriodInv'
  <2>1. /\ release'[t] = release[t] + n
        /\ xPreviousWakeTime'[t] = wake
        /\ t \notin inCall
        /\ release'[t] > Now => t \in Delayed' /\ due'[t] = release'[t]
    BY <1>1, <1>3, Zenon DEF Inv, TickTimeTypeOK, DelayUntilEffect, Now, TickType_t, portMAX_DELAY
  <2>2. \A r \in Task \ {t} : /\ release'[r] = release[r]
                              /\ xPreviousWakeTime'[r] = xPreviousWakeTime[r]
    BY <1>1, Zenon DEF Inv, TickTimeTypeOK, DelayUntilEffect
  <2>3. UNCHANGED <<waitsForEvent, xPendingReadyList>>
    BY <1>1, Zenon DEF DelayUntilEffect
  <2>4. ASSUME NEW r \in Task
        PROVE  /\ \/ release'[r] = era + Wrap + xPreviousWakeTime'[r]
                  \/ release'[r] = era + xPreviousWakeTime'[r]
                  \/ release'[r] = era - Wrap + xPreviousWakeTime'[r]
                  \/ release'[r] <= era - 2 * Wrap + xPreviousWakeTime'[r]
               /\ release'[r] > Now => /\ r \in Delayed' /\ due'[r] = release'[r]
                                       /\ r \notin inCall
               /\ r \in (waitsForEvent \cup xPendingReadyList) => r \in inCall
    <3>1. CASE r = t
      BY <3>1, <2>1, <1>2, Zenon DEF Inv, PeriodInv
    <3>2. CASE r # t
      BY <3>2, <2>2, <1>4, Zenon DEF Inv, PeriodInv
    <3> QED BY <3>1, <3>2, Zenon
  <2> QED BY <2>3, <2>4, <1>3, Zenon DEF PeriodInv
<1>9. CallInv'
  <2>1. \A r \in inCall \cap Delayed' : due'[r] = deadline[r]
    BY <1>1, <1>4, Zenon DEF Inv, CallInv, TickTimeTypeOK, DelayUntilEffect
  <2> QED BY <2>1, <1>1, <1>3, Zenon DEF Inv, CallInv, clock, calls, DelayUntilEffect
<1> QED BY <1>5, <1>6, <1>7, <1>8, <1>9 DEF Inv
-----------------------------------------------------------------------------
(* Blocking calls.                                                         *)

-----------------------------------------------------------------------------
(* Waits with a time-out.                                                  *)

\* The first pass of a blocking call keeps the invariant.
LEMMA EnterCallInv ==
    \A t \in Task, n \in TickType_t \ {0} : Inv /\ EnterCall(t, n) => Inv'
<1> SUFFICES ASSUME NEW t \in Task, NEW n \in TickType_t \ {0}, Inv, EnterCall(t, n)
             PROVE Inv'
  OBVIOUS
<1> USE TickTimeAssumption
<1>1. /\ owner = NoTask /\ t \notin Blocked /\ t \notin inCall
      /\ inCall' = inCall \cup {t}
      /\ xTimeOut' = [xTimeOut EXCEPT ![t] = [xOverflowCount |-> xNumOfOverflows,
                                              xTimeOnEntering |-> xTickCount]]
      /\ xTicksToWait' = [xTicksToWait EXCEPT ![t] = n]
      /\ entered' = [entered EXCEPT ![t] = Now]
      /\ deadline' = [deadline EXCEPT ![t] = Now + n]
      /\ UNCHANGED <<lists, clock, period, suspension, waitsForEvent,
                     xPendingReadyList, interrupts, due>>
  BY Zenon DEF EnterCall, TimeOutState
<1>2. Now' = Now /\ Delayed' = Delayed /\ Blocked' = Blocked /\ Now \in Nat
  BY <1>1 DEF Inv, TickTimeTypeOK, Now, Delayed, Blocked, lists, clock, TickType_t, portMAX_DELAY
<1>3. TickTimeTypeOK'
  <2>1. xTimeOut' \in [Task -> [xOverflowCount : Nat, xTimeOnEntering : TickType_t]]
    BY <1>1, Zenon DEF Inv, TickTimeTypeOK
  <2>2. /\ entered' \in [Task -> Nat] /\ deadline' \in [Task -> Nat]
        /\ xTicksToWait' \in [Task -> TickType_t] /\ inCall' \subseteq Task
    BY <1>1, <1>2 DEF Inv, TickTimeTypeOK, TickType_t, portMAX_DELAY
  <2> QED BY <2>1, <2>2, <1>1, <1>2, Zenon DEF Inv, TickTimeTypeOK, lists, clock, period, suspension
<1>4. ListInv'
  BY <1>1, <1>2, Zenon DEF Inv, ListInv, lists, clock
<1>5. SuspensionInv'
  BY <1>1, <1>2, Zenon DEF Inv, SuspensionInv, NoTickLost, suspension
<1>6. PeriodInv'
  BY <1>1, <1>2, Zenon DEF Inv, PeriodInv, Blocked, clock, period
<1>7. CallInv'
  <2>1. \A r \in Task \ {t} : /\ xTimeOut'[r] = xTimeOut[r] /\ entered'[r] = entered[r]
                              /\ deadline'[r] = deadline[r]
                              /\ xTicksToWait'[r] = xTicksToWait[r]
    BY <1>1, Zenon DEF Inv, TickTimeTypeOK
  <2>2. /\ xTimeOut'[t].xOverflowCount = xNumOfOverflows
        /\ xTimeOut'[t].xTimeOnEntering = xTickCount
        /\ entered'[t] = Now /\ deadline'[t] = Now + n /\ xTicksToWait'[t] = n /\ n > 0
    BY <1>1 DEF Inv, TickTimeTypeOK, TickType_t, portMAX_DELAY
  <2>3. UNCHANGED <<xNumOfOverflows, era, step, owner, due>> /\ step # "place"
    BY <1>1, Zenon DEF Inv, SuspensionInv, clock, suspension
  <2>4. inCall \subseteq Task /\ t \notin Delayed
    BY <1>1, Zenon DEF Inv, TickTimeTypeOK, Blocked
  <2>5. ASSUME NEW r \in inCall'
        PROVE  /\ xTimeOut'[r].xOverflowCount <= xNumOfOverflows
               /\ xTimeOut'[r].xOverflowCount = xNumOfOverflows
                      => entered'[r] = era + xTimeOut'[r].xTimeOnEntering
               /\ xTimeOut'[r].xOverflowCount # xNumOfOverflows
                      => \/ entered'[r] = era - Wrap + xTimeOut'[r].xTimeOnEntering
                         \/ entered'[r] <= era - 2 * Wrap + xTimeOut'[r].xTimeOnEntering
               /\ entered'[r] <= Now
               /\ deadline'[r] = entered'[r] + xTicksToWait'[r]
               /\ xTicksToWait'[r] > 0
               /\ r \in Delayed => due[r] = deadline'[r]
    <3>1. CASE r = t
      <4>1. xNumOfOverflows <= xNumOfOverflows /\ Now <= Now
        BY <1>2, NotAfter, Zenon DEF Inv, TickTimeTypeOK
      <4> QED BY <3>1, <2>2, <2>4, <4>1, Zenon DEF Now
    <3>2. CASE r # t
      BY <3>2, <2>1, <2>4, <1>1 DEF Inv, CallInv
    <3> QED BY <3>1, <3>2, Zenon
  <2> QED BY <2>3, <2>5, <1>2, Zenon DEF CallInv
<1> QED BY <1>3, <1>4, <1>5, <1>6, <1>7 DEF Inv

\* The end of a call forgets its local variables, and the rest of what is
\* known of calls stays.
LEMMA LeaveCallLemma ==
    ASSUME Inv, NEW t \in Task, LeaveCall(t), step' # "place",
           UNCHANGED <<lists, clock, period, waitsForEvent, xPendingReadyList, due>>,
           t \notin Blocked
    PROVE  /\ CallInv' /\ PeriodInv' /\ ListInv'
           /\ xTimeOut' \in [Task -> [xOverflowCount : Nat, xTimeOnEntering : TickType_t]]
           /\ entered' \in [Task -> Nat] /\ deadline' \in [Task -> Nat]
           /\ xTicksToWait' \in [Task -> TickType_t] /\ inCall' \subseteq Task
<1> USE TickTimeAssumption
<1>1. Now' = Now /\ Delayed' = Delayed /\ Blocked' = Blocked
  BY DEF Now, Delayed, Blocked, lists, clock
<1>2. \A r \in Task \ {t} : /\ xTimeOut'[r] = xTimeOut[r] /\ entered'[r] = entered[r]
                            /\ deadline'[r] = deadline[r]
                            /\ xTicksToWait'[r] = xTicksToWait[r]
  BY Zenon DEF Inv, TickTimeTypeOK, LeaveCall
<1>3. CallInv'
  <2>1. \A r \in inCall' : r \in inCall /\ r \in Task \ {t}
    BY Zenon DEF Inv, TickTimeTypeOK, LeaveCall
  <2> QED BY <2>1, <1>1, <1>2 DEF Inv, CallInv, clock
<1>4. PeriodInv'
  <2>1. t \notin waitsForEvent \cup xPendingReadyList
    BY Zenon DEF Inv, TickTimeTypeOK
  <2> QED BY <2>1, <1>1, Zenon DEF Inv, PeriodInv, LeaveCall, clock, period
<1>5. ListInv'
  BY <1>1, Zenon DEF Inv, ListInv, lists, clock
<1>6. /\ xTimeOut' \in [Task -> [xOverflowCount : Nat, xTimeOnEntering : TickType_t]]
      /\ entered' \in [Task -> Nat] /\ deadline' \in [Task -> Nat]
      /\ xTicksToWait' \in [Task -> TickType_t] /\ inCall' \subseteq Task
  BY DEF Inv, TickTimeTypeOK, LeaveCall, TickType_t, portMAX_DELAY
<1> QED BY <1>3, <1>4, <1>5, <1>6, Zenon

\* A call that succeeds keeps the invariant.
LEMMA SucceedInv ==
    \A t \in Task : Inv /\ Succeed(t) => Inv'
<1> SUFFICES ASSUME NEW t \in Task, Inv, Succeed(t) PROVE Inv'
  OBVIOUS
<1>1. /\ owner = NoTask /\ t \notin Blocked /\ LeaveCall(t)
      /\ UNCHANGED <<lists, clock, period, suspension, waitsForEvent,
                     xPendingReadyList, interrupts, due>>
  BY DEF Succeed
<1>2. step' # "place"
  BY <1>1 DEF Inv, SuspensionInv, suspension
<1>3. /\ CallInv' /\ PeriodInv' /\ ListInv'
      /\ xTimeOut' \in [Task -> [xOverflowCount : Nat, xTimeOnEntering : TickType_t]]
      /\ entered' \in [Task -> Nat] /\ deadline' \in [Task -> Nat]
      /\ xTicksToWait' \in [Task -> TickType_t] /\ inCall' \subseteq Task
  BY <1>1, <1>2, LeaveCallLemma, Zenon
<1>4. Now' = Now /\ Delayed' = Delayed /\ Blocked' = Blocked
  BY <1>1 DEF Now, Delayed, Blocked, lists, clock
<1>5. TickTimeTypeOK'
  BY <1>1, <1>3, <1>4, Zenon DEF Inv, TickTimeTypeOK, lists, clock, period, suspension
<1>6. SuspensionInv'
  BY <1>1, <1>4, Zenon DEF Inv, SuspensionInv, NoTickLost, suspension
<1> QED BY <1>3, <1>5, <1>6 DEF Inv
\* For a task that comes back within Wrap ticks, the comparisons of
\* xTaskCheckForTimeOut are those of absolute time.
LEMMA TimeOutLemma ==
    ASSUME Inv, NEW t \in inCall, xTicksToWait[t] # portMAX_DELAY, Prompt(t)
    PROVE  /\ TimedOut(t) <=> Now >= deadline[t]
           /\ ~TimedOut(t) => /\ Elapsed(t) = Now - entered[t]
                              /\ Elapsed(t) < xTicksToWait[t]
<1> USE TickTimeAssumption DEF TickType_t, portMAX_DELAY
<1> DEFINE e == xTimeOut[t].xTimeOnEntering
           c == xTimeOut[t].xOverflowCount
           w == xTicksToWait[t]
<1>1. /\ xTickCount \in 0 .. Wrap - 1 /\ Wrap \in Nat /\ Wrap >= 2 /\ era \in Nat
      /\ xNumOfOverflows \in Nat
      /\ e \in 0 .. Wrap - 1 /\ c \in Nat /\ w \in 0 .. Wrap - 1
      /\ entered[t] \in Nat /\ deadline[t] \in Nat /\ w # Wrap - 1
  BY Zenon DEF Inv, TickTimeTypeOK
<1>2. /\ c = xNumOfOverflows => entered[t] = era + e
      /\ c # xNumOfOverflows => \/ entered[t] = era - Wrap + e
                                \/ entered[t] <= era - 2 * Wrap + e
      /\ entered[t] <= era + xTickCount
      /\ deadline[t] = entered[t] + w
      /\ w > 0
      /\ era + xTickCount - entered[t] <= Wrap
  <2>1. CallInv
    BY DEF Inv
  <2>2. era + xTickCount - entered[t] <= Wrap
    BY <1>1 DEF Prompt, Now
  <2> QED BY <2>1, <2>2, Zenon DEF CallInv, Now
<1>3. /\ TimedOut(t) <=> \/ xNumOfOverflows # c /\ xTickCount >= e
                         \/ Elapsed(t) >= w
      /\ Elapsed(t) = IF xTickCount < e THEN xTickCount - e + Wrap ELSE xTickCount - e
      /\ Now = era + xTickCount
  BY Zenon DEF TimedOut, Elapsed, Minus, Now
<1> HIDE DEF e, c, w
<1>4. CASE c = xNumOfOverflows
  BY <1>1, <1>2, <1>3, <1>4 DEF w
<1>5. CASE c # xNumOfOverflows
  BY <1>1, <1>2, <1>3, <1>5 DEF w
<1> QED BY <1>4, <1>5, Zenon

\* xTaskCheckForTimeOut keeps the invariant.
LEMMA CheckInv ==
    \A t \in Task : Inv /\ xTaskCheckForTimeOut(t) => Inv'
<1> SUFFICES ASSUME NEW t \in Task, Inv, xTaskCheckForTimeOut(t) PROVE Inv'
  OBVIOUS
<1> USE TickTimeAssumption
<1>1. /\ owner = t /\ step = "check"
      /\ xTicksToWait[t] # portMAX_DELAY => Prompt(t)
      /\ UNCHANGED <<lists, clock, period, owner, xPendedTicks, xPendedCounts,
                     waitsForEvent, xPendingReadyList, interrupts, due>>
  BY Zenon DEF xTaskCheckForTimeOut
<1>2. t \notin Blocked /\ t \in inCall
  BY <1>1, Zenon DEF Inv, SuspensionInv
<1>3. Now' = Now /\ Delayed' = Delayed /\ Blocked' = Blocked /\ Now \in Nat
  BY <1>1 DEF Inv, TickTimeTypeOK, Now, Delayed, Blocked, lists, clock, TickType_t, portMAX_DELAY
<1>4. step' \in {"resume", "place"}
  BY Zenon DEF xTaskCheckForTimeOut
<1>5. SuspensionInv'
  <2>1. step' = "place" => inCall' = inCall
    BY Zenon DEF xTaskCheckForTimeOut
  <2> QED BY <2>1, <1>1, <1>2, <1>3, <1>4, Zenon DEF Inv, SuspensionInv, NoTickLost
<1>6. CASE TimedOut(t)
  <2>1. LeaveCall(t) /\ step' = "resume"
    BY <1>6, Zenon DEF xTaskCheckForTimeOut
  <2>2. /\ CallInv' /\ PeriodInv' /\ ListInv'
        /\ xTimeOut' \in [Task -> [xOverflowCount : Nat, xTimeOnEntering : TickType_t]]
        /\ entered' \in [Task -> Nat] /\ deadline' \in [Task -> Nat]
        /\ xTicksToWait' \in [Task -> TickType_t] /\ inCall' \subseteq Task
    BY <2>1, <1>1, <1>2, LeaveCallLemma, Zenon
  <2>3. TickTimeTypeOK'
    BY <2>1, <2>2, <1>1, <1>3, Zenon DEF Inv, TickTimeTypeOK, lists, clock, period
  <2> QED BY <2>2, <2>3, <1>5 DEF Inv
<1>7. CASE ~TimedOut(t) /\ xTicksToWait[t] = portMAX_DELAY
  <2>1. step' = "place" /\ UNCHANGED calls
    BY <1>7, Zenon DEF xTaskCheckForTimeOut, calls
  <2>2. TickTimeTypeOK'
    BY <2>1, <1>1, <1>3, Zenon DEF Inv, TickTimeTypeOK, lists, clock, calls, period
  <2>3. ListInv' /\ PeriodInv'
    BY <2>1, <1>1, <1>3, Zenon DEF Inv, ListInv, PeriodInv, lists, clock, calls, period
  <2>4. CallInv'
    BY <2>1, <1>1, <1>3, <1>7, Zenon DEF Inv, CallInv, clock, calls
  <2> QED BY <2>2, <2>3, <2>4, <1>5 DEF Inv
<1>8. CASE ~TimedOut(t) /\ xTicksToWait[t] # portMAX_DELAY
  <2>1. /\ step' = "place" /\ UNCHANGED <<inCall, deadline>>
        /\ xTicksToWait' = [xTicksToWait EXCEPT ![t] = @ - Elapsed(t)]
        /\ xTimeOut' = [xTimeOut EXCEPT ![t] = [xOverflowCount |-> xNumOfOverflows,
                                                xTimeOnEntering |-> xTickCount]]
        /\ entered' = [entered EXCEPT ![t] = Now]
    BY <1>8, Zenon DEF xTaskCheckForTimeOut, TimeOutState
  <2>2. /\ Elapsed(t) = Now - entered[t] /\ Elapsed(t) < xTicksToWait[t]
        /\ entered[t] <= Now /\ deadline[t] = entered[t] + xTicksToWait[t]
    BY <1>1, <1>2, <1>8, TimeOutLemma, Zenon DEF Inv, CallInv
  <2>3. xTicksToWait[t] \in TickType_t /\ entered[t] \in Nat /\ Elapsed(t) \in Nat
    BY <2>2, <1>3 DEF Inv, TickTimeTypeOK
  <2>4. /\ xTimeOut'[t].xOverflowCount = xNumOfOverflows
        /\ xTimeOut'[t].xTimeOnEntering = xTickCount
        /\ entered'[t] = Now /\ xTicksToWait'[t] = xTicksToWait[t] - Elapsed(t)
    BY <2>1, Zenon DEF Inv, TickTimeTypeOK
  <2>5. /\ xTicksToWait'[t] > 0 /\ xTicksToWait'[t] \in TickType_t
        /\ deadline[t] = Now + xTicksToWait'[t]
    <3>1. PICK w \in TickType_t, e \in Nat, n \in Nat, s \in Nat :
              w = xTicksToWait[t] /\ e = Elapsed(t) /\ n = Now /\ s = entered[t]
      BY <2>3, <1>3, Zenon
    <3>2. e = n - s /\ e < w
      BY <2>2, <3>1, Zenon
    <3>3. w - e > 0 /\ w - e \in TickType_t /\ s + w = n + (w - e)
      BY <3>2, Spans
    <3> QED BY <2>2, <2>4, <3>1, <3>3, Zenon
  <2>6. \A r \in Task \ {t} : /\ xTimeOut'[r] = xTimeOut[r] /\ entered'[r] = entered[r]
                              /\ xTicksToWait'[r] = xTicksToWait[r]
    BY <2>1, Zenon DEF Inv, TickTimeTypeOK
  <2>7. /\ xTimeOut' \in [Task -> [xOverflowCount : Nat, xTimeOnEntering : TickType_t]]
        /\ entered' \in [Task -> Nat] /\ xTicksToWait' \in [Task -> TickType_t]
    BY <2>1, <2>4, <2>5, <1>3, Zenon DEF Inv, TickTimeTypeOK
  <2>8. TickTimeTypeOK'
    BY <2>1, <2>7, <1>1, <1>3, Zenon DEF Inv, TickTimeTypeOK, lists, clock, period
  <2>9. ListInv' /\ PeriodInv'
    BY <2>1, <1>1, <1>3, Zenon DEF Inv, ListInv, PeriodInv, lists, clock, period
  <2>10. CallInv'
    <3>1. UNCHANGED <<xNumOfOverflows, era, owner, due>>
      BY <1>1 DEF clock
    <3>2. ASSUME NEW r \in inCall
          PROVE  /\ xTimeOut'[r].xOverflowCount <= xNumOfOverflows
                 /\ xTimeOut'[r].xOverflowCount = xNumOfOverflows
                        => entered'[r] = era + xTimeOut'[r].xTimeOnEntering
                 /\ xTimeOut'[r].xOverflowCount # xNumOfOverflows
                        => \/ entered'[r] = era - Wrap + xTimeOut'[r].xTimeOnEntering
                           \/ entered'[r] <= era - 2 * Wrap + xTimeOut'[r].xTimeOnEntering
                 /\ entered'[r] <= Now
                 /\ deadline[r] = entered'[r] + xTicksToWait'[r]
                 /\ xTicksToWait'[r] > 0
      <4>1. CASE r = t
        BY <4>1, <2>4, <2>5, <1>3 DEF Inv, TickTimeTypeOK, Now
      <4>2. CASE r # t
        BY <4>2, <2>6, Zenon DEF Inv, CallInv, TickTimeTypeOK
      <4> QED BY <4>1, <4>2, Zenon
    <3>3. entered'[owner] = Now
      BY <2>4, <1>1, Zenon
    <3>4. \A r \in inCall \cap Delayed : due[r] = deadline[r]
      BY Zenon DEF Inv, CallInv
    <3> QED BY <3>1, <3>2, <3>3, <3>4, <2>1, <1>3, Zenon DEF CallInv
  <2> QED BY <2>8, <2>9, <2>10, <1>5 DEF Inv
<1> QED BY <1>6, <1>7, <1>8

\* vTaskPlaceOnEventList keeps the invariant.
LEMMA PlaceInv ==
    \A t \in Task : Inv /\ PlaceOnEventList(t) => Inv'
<1> SUFFICES ASSUME NEW t \in Task, Inv, PlaceOnEventList(t) PROVE Inv'
  OBVIOUS
<1> USE TickTimeAssumption
<1>1. /\ owner = t /\ step = "place" /\ step' = "resume"
      /\ waitsForEvent' = waitsForEvent \cup {t}
      /\ UNCHANGED <<clock, calls, period, owner, xPendedTicks, xPendedCounts,
                     xPendingReadyList, interrupts>>
  BY Zenon DEF PlaceOnEventList
<1>2. t \notin Blocked /\ t \in inCall
  BY <1>1, Zenon DEF Inv, SuspensionInv
<1>3. Now' = Now
  BY <1>1 DEF Now, clock
<1>4. SuspensionInv'
  BY <1>1, <1>3, Zenon DEF Inv, SuspensionInv, NoTickLost
<1>5. CASE xTicksToWait[t] = portMAX_DELAY
  <2>1. /\ xSuspendedTaskList' = xSuspendedTaskList \cup {t}
        /\ UNCHANGED <<pxDelayedTaskList, pxOverflowDelayedTaskList,
                       xItemValue, xNextTaskUnblockTime, due>>
    BY <1>5 DEF PlaceOnEventList
  <2>2. Delayed' = Delayed /\ Blocked' = Blocked \cup {t}
    BY <2>1 DEF Delayed, Blocked
  <2>3. t \notin xPendingReadyList
    BY <1>2, Zenon DEF Inv, TickTimeTypeOK
  <2>4. TickTimeTypeOK'
    <3>1. waitsForEvent' \subseteq Blocked' /\ xPendingReadyList' \subseteq Blocked' \ waitsForEvent'
      BY <1>1, <2>2, <2>3, Zenon DEF Inv, TickTimeTypeOK
    <3> QED BY <3>1, <2>1, <1>1, Zenon DEF Inv, TickTimeTypeOK, clock, calls, period
  <2>5. ListInv'
    BY <2>1, <2>2, <1>1, <1>2, Zenon DEF Inv, ListInv, Blocked, clock
  <2>6. PeriodInv'
    BY <2>1, <2>2, <1>1, <1>2, <1>3, Zenon DEF Inv, PeriodInv, clock, calls, period
  <2>7. CallInv'
    BY <2>1, <2>2, <1>1, <1>3, Zenon DEF Inv, CallInv, clock, calls
  <2> QED BY <2>4, <2>5, <2>6, <2>7, <1>4 DEF Inv
<1>6. CASE xTicksToWait[t] # portMAX_DELAY
  <2>1. AddToDelayedList(t, xTicksToWait[t]) /\ UNCHANGED xSuspendedTaskList
    BY <1>6, Zenon DEF PlaceOnEventList
  <2>2. /\ xTicksToWait[t] \in 1 .. portMAX_DELAY
        /\ deadline[t] = Now + xTicksToWait[t]
    BY <1>1, <1>2, <1>6 DEF Inv, TickTimeTypeOK, CallInv, TickType_t, portMAX_DELAY
  <2>3. /\ ListInv'
        /\ Delayed' = Delayed \cup {t}
        /\ due' = [due EXCEPT ![t] = Now + xTicksToWait[t]]
        /\ due' \in [Task -> Nat]
        /\ xItemValue' \in [Task -> TickType_t]
        /\ xNextTaskUnblockTime' \in TickType_t
        /\ pxDelayedTaskList' \subseteq Task
        /\ pxOverflowDelayedTaskList' \subseteq Task
    BY <2>1, <2>2, <1>1, <1>2, AddLemma, Zenon DEF Inv, clock
  <2>4. t \notin xPendingReadyList
    BY <1>2, Zenon DEF Inv, TickTimeTypeOK
  <2>5. TickTimeTypeOK'
    <3>1. waitsForEvent' \subseteq Blocked' /\ xPendingReadyList' \subseteq Blocked' \ waitsForEvent'
      BY <1>1, <2>1, <2>3, <2>4, Zenon DEF Inv, TickTimeTypeOK, Blocked
    <3> QED BY <3>1, <2>1, <2>3, <1>1, Zenon DEF Inv, TickTimeTypeOK, clock, calls, period
  <2>6. \A r \in Task \ {t} : due'[r] = due[r] /\ (r \in Delayed' <=> r \in Delayed)
    BY <2>3, Zenon DEF Inv, TickTimeTypeOK
  <2>7. PeriodInv'
    <3>1. release[t] <= Now
      BY <1>2 DEF Inv, PeriodInv, TickTimeTypeOK, Now, TickType_t, portMAX_DELAY
    <3>2. \A r \in Task : release[r] > Now => /\ r \in Delayed' /\ due'[r] = release[r]
                                              /\ r \notin inCall
      BY <3>1, <2>6 DEF Inv, PeriodInv, TickTimeTypeOK, Now, TickType_t, portMAX_DELAY
    <3>3. era' = era /\ UNCHANGED <<release, xPreviousWakeTime, inCall, xPendingReadyList>>
      BY <1>1 DEF clock, calls, period
    <3> QED BY <3>2, <3>3, <1>1, <1>2, <1>3, Zenon DEF Inv, PeriodInv
  <2>8. CallInv'
    <3>1. \A r \in inCall \cap Delayed' : due'[r] = deadline[r]
      BY <2>2, <2>3, <2>6, Zenon DEF Inv, CallInv, TickTimeTypeOK
    <3> QED BY <3>1, <1>1, <1>3, Zenon DEF Inv, CallInv, clock, calls
  <2> QED BY <2>3, <2>5, <2>7, <2>8, <1>4, Zenon DEF Inv
<1> QED BY <1>5, <1>6

\* A call that goes round its loop again keeps the invariant.
LEMMA DoNotPlaceInv ==
    \A t \in Task : Inv /\ DoNotPlace(t) => Inv'
<1> SUFFICES ASSUME NEW t \in Task, Inv, DoNotPlace(t) PROVE Inv'
  OBVIOUS
<1>1. /\ owner = t /\ step = "place" /\ step' = "resume"
      /\ UNCHANGED <<lists, clock, calls, period, owner, xPendedTicks, xPendedCounts,
                     waitsForEvent, xPendingReadyList, interrupts, due>>
  BY DEF DoNotPlace
<1>2. Now' = Now /\ Delayed' = Delayed /\ Blocked' = Blocked
  BY <1>1 DEF Now, Delayed, Blocked, lists, clock
<1>3. TickTimeTypeOK'
  BY <1>1, <1>2, Zenon DEF Inv, TickTimeTypeOK, lists, clock, calls, period
<1>4. ListInv' /\ PeriodInv' /\ CallInv'
  BY <1>1, <1>2, Zenon DEF Inv, ListInv, PeriodInv, CallInv, lists, clock, calls, period
<1>5. SuspensionInv'
  BY <1>1, <1>2, Zenon DEF Inv, SuspensionInv, NoTickLost
<1> QED BY <1>3, <1>4, <1>5 DEF Inv

\* xTaskRemoveFromEventList keeps the invariant.
LEMMA RemoveInv ==
    \A t \in Task : Inv /\ RemoveFromEventList(t) => Inv'
<1> SUFFICES ASSUME NEW t \in Task, Inv, RemoveFromEventList(t) PROVE Inv'
  OBVIOUS
<1>1. /\ step # "resuming" /\ t \in waitsForEvent
      /\ waitsForEvent' = waitsForEvent \ {t}
      /\ UNCHANGED <<xItemValue, xNextTaskUnblockTime, clock, calls, period,
                     suspension, interrupts, due>>
  BY DEF RemoveFromEventList
<1>2. Now' = Now
  BY <1>1 DEF Now, clock
<1>3. CASE owner = NoTask
  <2>1. /\ pxDelayedTaskList' = pxDelayedTaskList \ {t}
        /\ pxOverflowDelayedTaskList' = pxOverflowDelayedTaskList \ {t}
        /\ xSuspendedTaskList' = xSuspendedTaskList \ {t}
        /\ UNCHANGED xPendingReadyList
    BY <1>3 DEF RemoveFromEventList
  <2>2. step = "none" /\ xPendingReadyList = {}
    BY <1>3 DEF Inv, SuspensionInv
  <2>3. ListInv' /\ Delayed' = Delayed \ {t} /\ Blocked' = Blocked \ {t}
    BY <2>1, <1>1, RemoveLemma, Zenon DEF Inv, clock
  <2>4. TickTimeTypeOK'
    <3>1. waitsForEvent' \subseteq Blocked' /\ xPendingReadyList' \subseteq Blocked' \ waitsForEvent'
      BY <1>1, <2>1, <2>2, <2>3, Zenon DEF Inv, TickTimeTypeOK
    <3> QED BY <3>1, <2>1, <1>1, Zenon DEF Inv, TickTimeTypeOK, clock, calls, period, suspension
  <2>5. SuspensionInv'
    BY <2>1, <2>2, <1>1, <1>2, Zenon DEF Inv, SuspensionInv, NoTickLost, calls, suspension
  <2>6. PeriodInv'
    BY <2>1, <2>2, <2>3, <1>1, <1>2, Zenon DEF Inv, PeriodInv, clock, calls, period
  <2>7. CallInv'
    BY <2>3, <1>1, <1>2, Zenon DEF Inv, CallInv, clock, calls, suspension
  <2> QED BY <2>3, <2>4, <2>5, <2>6, <2>7 DEF Inv
<1>4. CASE owner # NoTask
  <2>1. /\ xPendingReadyList' = xPendingReadyList \cup {t}
        /\ UNCHANGED <<pxDelayedTaskList, pxOverflowDelayedTaskList,
                       xSuspendedTaskList>>
    BY <1>4 DEF RemoveFromEventList
  <2>2. Delayed' = Delayed /\ Blocked' = Blocked
    BY <2>1 DEF Delayed, Blocked
  <2>3. TickTimeTypeOK'
    <3>1. waitsForEvent' \subseteq Blocked' /\ xPendingReadyList' \subseteq Blocked' \ waitsForEvent'
      BY <1>1, <2>1, <2>2, Zenon DEF Inv, TickTimeTypeOK
    <3> QED BY <3>1, <2>1, <1>1, Zenon DEF Inv, TickTimeTypeOK, clock, calls, period, suspension
  <2>4. ListInv'
    BY <2>1, <2>2, <1>1, Zenon DEF Inv, ListInv, clock
  <2>5. SuspensionInv'
    BY <2>1, <2>2, <1>1, <1>2, <1>4, Zenon DEF Inv, SuspensionInv, NoTickLost, calls, suspension
  <2>6. PeriodInv'
    BY <2>1, <2>2, <1>1, <1>2, Zenon DEF Inv, PeriodInv, clock, calls, period
  <2>7. CallInv'
    BY <2>2, <1>1, <1>2, Zenon DEF Inv, CallInv, clock, calls, suspension
  <2> QED BY <2>3, <2>4, <2>5, <2>6, <2>7 DEF Inv
<1> QED BY <1>3, <1>4
-----------------------------------------------------------------------------
(* The theorems.                                                           *)

\* The invariant holds when the scheduler starts.
LEMMA InitInv == Init => Inv
<1> SUFFICES ASSUME Init PROVE Inv
  OBVIOUS
<1> USE TickTimeAssumption
<1>1. TickTimeTypeOK
  BY DEF Init, TickTimeTypeOK, TickType_t, portMAX_DELAY, Blocked, Delayed
<1>2. ListInv /\ SuspensionInv
  BY DEF Init, ListInv, SuspensionInv, NoTickLost, Now, Delayed, Blocked
<1>3. PeriodInv /\ CallInv
  BY DEF Init, PeriodInv, CallInv, Now
<1> QED BY <1>1, <1>2, <1>3 DEF Inv

\* Every step of the kernel keeps the invariant.
LEMMA NextInv == Inv /\ [Next]_vars => Inv'
<1> SUFFICES ASSUME Inv, [Next]_vars PROVE Inv'
  OBVIOUS
<1>1. CASE Scheduler
  BY <1>1, TickInv, ResumePendingInv, ResumeTickInv, ResumeEndInv, SuspendAllInv DEF Scheduler
<1>2. CASE Delays
  BY <1>2, DelayInv, DelayUntilInv DEF Delays
<1>3. CASE Calls
  BY <1>3, EnterCallInv, SucceedInv, CheckInv, PlaceInv, DoNotPlaceInv, RemoveInv DEF Calls
<1>4. CASE UNCHANGED vars
  <2>1. UNCHANGED <<lists, clock, calls, period, suspension, waitsForEvent,
                    xPendingReadyList, interrupts, due>>
    BY <1>4 DEF vars
  <2>2. Now' = Now /\ Delayed' = Delayed /\ Blocked' = Blocked
    BY <2>1 DEF Now, Delayed, Blocked, lists, clock
  <2>3. TickTimeTypeOK'
    BY <2>1, <2>2, Zenon DEF Inv, TickTimeTypeOK, lists, clock, calls, period, suspension
  <2>4. ListInv' /\ PeriodInv' /\ CallInv'
    BY <2>1, <2>2, Zenon DEF Inv, ListInv, PeriodInv, CallInv, lists, clock, calls, period, suspension
  <2>5. SuspensionInv'
    BY <2>1, <2>2, Zenon DEF Inv, SuspensionInv, NoTickLost, calls, suspension
  <2> QED BY <2>3, <2>4, <2>5 DEF Inv
<1> QED BY <1>1, <1>2, <1>3, <1>4 DEF Next

\* The invariant is inductive.
THEOREM Invariant == Spec => []Inv
<1> QED BY InitInv, NextInv, PTL DEF Spec

\* The tick counts keep their width, and waiting tasks are blocked.
THEOREM TypeCorrect == Spec => []TickTimeTypeOK
<1>1. Inv => TickTimeTypeOK
  BY DEF Inv
<1> QED BY <1>1, Invariant, PTL

\* Every tick interrupt is counted once, those pended by a suspended
\* scheduler included.
THEOREM TicksCounted == Spec => []NoTickLost
<1>1. Inv => NoTickLost
  BY DEF Inv, SuspensionInv
<1> QED BY <1>1, Invariant, PTL

\* No delayed task is passed over, whatever the wraps of the tick count.
THEOREM NoOversleep == Spec => []NeverOversleeps
<1>1. Inv => NeverOversleeps
  BY TickTimeAssumption DEF Inv, TickTimeTypeOK, ListInv, NeverOversleeps,
     Delayed, Now, TickType_t, portMAX_DELAY
<1> QED BY <1>1, Invariant, PTL

\* The configASSERT of taskSWITCH_DELAYED_LISTS never fails.
THEOREM SwitchSound == Spec => []EmptyAtSwitch
<1>1. Inv => EmptyAtSwitch
  BY TickTimeAssumption DEF Inv, TickTimeTypeOK, ListInv, EmptyAtSwitch,
     TickType_t, portMAX_DELAY
<1> QED BY <1>1, Invariant, PTL

\* A blocked call sleeps until the end of its own timeout, however often it
\* was woken before.
THEOREM DeadlineKept == Spec => []WaitEndsAtDeadline
<1>1. Inv => WaitEndsAtDeadline
  BY Zenon DEF Inv, CallInv, WaitEndsAtDeadline
<1> QED BY <1>1, Invariant, PTL

\* A step of the kernel wakes a delayed task at its time, or for its event.
LEMMA WakeStep ==
    ASSUME Inv, [Next]_vars, NEW t \in Delayed \ Delayed'
    PROVE  \/ Now' = due[t]
           \/ Now' = Now /\ t \in waitsForEvent \cup xPendingReadyList
<1>1. CASE Tick
  <2>1. owner = NoTask => IncrementTick /\ UNCHANGED <<xSuspendedTaskList, xItemValue, due>>
    BY <1>1 DEF Tick
  <2>2. owner # NoTask => Delayed' = Delayed
    BY <1>1 DEF Tick, Delayed
  <2>3. TickEffect
    BY <2>1, <2>2, TickLemma DEF Inv
  <2> QED BY <2>3 DEF TickEffect
<1>2. CASE ResumeTick
  <2>1. TickEffect
    BY <1>2, TickLemma DEF Inv, ResumeTick
  <2> QED BY <2>1 DEF TickEffect
<1>3. CASE ResumePending
  BY <1>3, Zenon DEF ResumePending, Delayed, Now, clock
<1>4. CASE ResumeEnd \/ \E r \in Task : vTaskSuspendAll(r)
  BY <1>4, Zenon DEF ResumeEnd, vTaskSuspendAll, lists, Delayed
<1>5. CASE Delays
  <2>1. PICK r \in Task, n \in TickType_t \ {0} : vTaskDelay(r, n) \/ xTaskDelayUntil(r, n)
    BY <1>5 DEF Delays
  <2>2. Delayed \subseteq Delayed'
    BY <2>1, Zenon DEF vTaskDelay, xTaskDelayUntil, AddToDelayedList, Delayed
  <2> QED BY <2>2
<1>6. CASE Calls
  <2>1. PICK r \in Task :
          \/ \E n \in TickType_t \ {0} : EnterCall(r, n)
          \/ Succeed(r) \/ xTaskCheckForTimeOut(r)
          \/ PlaceOnEventList(r) \/ DoNotPlace(r) \/ RemoveFromEventList(r)
    BY <1>6 DEF Calls
  <2>2. CASE \/ \E n \in TickType_t \ {0} : EnterCall(r, n)
             \/ Succeed(r) \/ xTaskCheckForTimeOut(r) \/ DoNotPlace(r)
    BY <2>2, Zenon DEF EnterCall, Succeed, xTaskCheckForTimeOut, DoNotPlace, lists, Delayed
  <2>3. CASE PlaceOnEventList(r)
    BY <2>3, Zenon DEF PlaceOnEventList, AddToDelayedList, Delayed
  <2>4. CASE RemoveFromEventList(r)
    BY <2>4, Zenon DEF RemoveFromEventList, Delayed, Now, clock
  <2> QED BY <2>1, <2>2, <2>3, <2>4, Zenon
<1>7. CASE UNCHANGED vars
  BY <1>7 DEF vars, lists, Delayed
<1> QED BY <1>1, <1>2, <1>3, <1>4, <1>5, <1>6, <1>7, Zenon DEF Next, Scheduler

\* xTaskIncrementTick wakes every delayed task at its tick, and none early.
THEOREM WakesAtTheTick == Spec => WakesOnTime
<1>1. Inv /\ [Next]_vars
      => [\A t \in Delayed \ Delayed' :
             \/ Now' = due[t]
             \/ Now' = Now /\ t \in waitsForEvent \cup xPendingReadyList]_vars
  BY WakeStep
<1> QED BY <1>1, Invariant, PTL DEF Spec, WakesOnTime

\* A release changes only by xTaskDelayUntil, which compares as absolute time
\* would.
LEMMA ReleaseStep ==
    ASSUME Inv, [Next]_vars, NEW t \in Task, release'[t] # release[t]
    PROVE  /\ t \in Delayed' <=> Now < release'[t]
           /\ t \in Delayed' => due'[t] = release'[t]
<1>1. ASSUME NEW r \in Task, NEW n \in TickType_t \ {0}, xTaskDelayUntil(r, n)
      PROVE  /\ t \in Delayed' <=> Now < release'[t]
             /\ t \in Delayed' => due'[t] = release'[t]
  <2>1. DelayUntilEffect(r, n)
    BY <1>1, DelayUntilStep
  <2>2. r = t
    BY <2>1, Zenon DEF Inv, TickTimeTypeOK, DelayUntilEffect
  <2>3. release'[t] = release[t] + n /\ t \notin Delayed
    BY <2>1, <2>2, Zenon DEF Inv, TickTimeTypeOK, DelayUntilEffect, Blocked
  <2>4. CASE Now < release[t] + n
    BY <2>1, <2>2, <2>3, <2>4, Zenon DEF Inv, TickTimeTypeOK, DelayUntilEffect
  <2>5. CASE ~(Now < release[t] + n)
    BY <2>1, <2>2, <2>3, <2>5, Zenon DEF DelayUntilEffect, Delayed
  <2> QED BY <2>4, <2>5
<1>2. CASE Scheduler
  BY <1>2, Zenon DEF Scheduler, Tick, ResumePending, ResumeTick, ResumeEnd, vTaskSuspendAll, period
<1>3. CASE Calls
  BY <1>3, Zenon DEF Calls, EnterCall, Succeed, xTaskCheckForTimeOut, PlaceOnEventList,
              DoNotPlace, RemoveFromEventList, period
<1>4. CASE Delays
  BY <1>1, <1>4, Zenon DEF Delays, vTaskDelay, period
<1>5. CASE UNCHANGED vars
  BY <1>5, Zenon DEF vars, period
<1> QED BY <1>2, <1>3, <1>4, <1>5, Zenon DEF Next

\* xTaskDelayUntil delays exactly until the next release, if it is to come.
THEOREM DelayUntilIsExact == Spec => DelayUntilExact
<1>1. Inv /\ [Next]_vars
      => [\A t \in Task : release'[t] # release[t] =>
             /\ t \in Delayed' <=> Now < release'[t]
             /\ t \in Delayed' => due'[t] = release'[t]]_vars
  BY ReleaseStep
<1> QED BY <1>1, Invariant, PTL DEF Spec, DelayUntilExact

\* The step that decides on a timeout is xTaskCheckForTimeOut, which decides
\* as absolute time would.
LEMMA CheckStep ==
    ASSUME Inv, [Next]_vars, NEW t \in inCall,
           owner = t, step = "check", step' # step
    PROVE  t \notin inCall' <=> xTicksToWait[t] # portMAX_DELAY /\ Now >= deadline[t]
<1>1. t \in Task /\ t # NoTask /\ inCall \subseteq Task
  BY TickTimeAssumption DEF Inv, TickTimeTypeOK
<1>2. xTaskCheckForTimeOut(t)
  <2>1. CASE Scheduler
    BY <2>1, <1>1, Zenon DEF Scheduler, Tick, ResumePending, ResumeTick, ResumeEnd, vTaskSuspendAll
  <2>2. CASE Delays
    BY <2>2 DEF Delays, vTaskDelay, xTaskDelayUntil
  <2>3. CASE Calls
    BY <2>3, <1>1, ZenonT(30) DEF Calls, EnterCall, Succeed, xTaskCheckForTimeOut, PlaceOnEventList,
                DoNotPlace, RemoveFromEventList, suspension
  <2>4. CASE UNCHANGED vars
    BY <2>4 DEF vars, suspension
  <2> QED BY <2>1, <2>2, <2>3, <2>4 DEF Next
<1>3. CASE xTicksToWait[t] = portMAX_DELAY
  BY <1>2, <1>3, Zenon DEF xTaskCheckForTimeOut, TimedOut
<1>4. CASE xTicksToWait[t] # portMAX_DELAY
  <2>1. TimedOut(t) <=> Now >= deadline[t]
    BY <1>2, <1>4, TimeOutLemma, Zenon DEF xTaskCheckForTimeOut
  <2>2. t \notin inCall' <=> TimedOut(t)
    BY <1>2, Zenon DEF xTaskCheckForTimeOut, LeaveCall
  <2> QED BY <2>1, <2>2, <1>4, Zenon
<1> QED BY <1>3, <1>4

\* A timeout is reported exactly when its time has come.
THEOREM TimeoutIsExact == Spec => TimeoutExact
<1>1. Inv /\ [Next]_vars
      => [\A t \in inCall : owner = t /\ step = "check" /\ step' # step =>
             (t \notin inCall'
              <=> xTicksToWait[t] # portMAX_DELAY /\ Now >= deadline[t])]_vars
  BY CheckStep, Zenon
<1> QED BY <1>1, Invariant, PTL DEF Spec, TimeoutExact
=============================================================================
