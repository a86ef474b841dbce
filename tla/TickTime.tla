------------------------------- MODULE TickTime ------------------------------
(***************************************************************************)
(* Time in the FreeRTOS kernel (tasks.c): the tick count that wraps, the    *)
(* two lists of delayed tasks that change places when it does, ticks that  *)
(* arrive while the scheduler is suspended, xTaskDelayUntil, and the       *)
(* timeouts of blocking calls.                                             *)
(*                                                                         *)
(* A list is the set of its tasks with their item values, its head being   *)
(* one of least value (vListInsert).  Which ready task runs is left open;  *)
(* while the scheduler is suspended it is the task that suspended it.      *)
(* Absolute time, which the code does not have, is kept in histories: era   *)
(* is the absolute time of tick count 0.                                   *)
(***************************************************************************)
EXTENDS Integers

CONSTANTS Task,
          NoTask,
          Wrap,      \* the tick count is below Wrap, 2^32 in the code
          Horizon    \* tick interrupts considered, a bound

ASSUME TickTimeAssumption ==
    /\ NoTask \notin Task
    /\ Wrap \in Nat /\ Wrap >= 2
    /\ Horizon \in Nat

portMAX_DELAY == Wrap - 1
TickType_t == 0 .. portMAX_DELAY

VARIABLES
    xTickCount, xNumOfOverflows,
    pxDelayedTaskList, pxOverflowDelayedTaskList,
    xSuspendedTaskList,     \* tasks that wait without a limit
    xItemValue,             \* wake times, of the state list items
    xNextTaskUnblockTime,
    waitsForEvent,          \* tasks whose event item is in an event list
    xPendingReadyList,
    owner,                  \* the task that suspended the scheduler
    step,                   \* what the owner does next
    xPendedTicks, xPendedCounts,
    xPreviousWakeTime,      \* of xTaskDelayUntil, one per task
    inCall,                 \* tasks inside a blocking call with a timeout
    xTimeOut, xTicksToWait, \* the local variables of those calls
    era, interrupts,        \* histories: see above, and ticks that occurred
    due,                    \* history: when a delayed task is to wake
    release,                \* history: xPreviousWakeTime
    entered, deadline       \* histories: last vTaskInternalSetTimeOutState, and
                            \* the end of the timeout

lists == <<pxDelayedTaskList, pxOverflowDelayedTaskList, xSuspendedTaskList,
           xItemValue, xNextTaskUnblockTime>>
clock == <<xTickCount, xNumOfOverflows, era>>
calls == <<inCall, xTimeOut, xTicksToWait, entered, deadline>>
period == <<xPreviousWakeTime, release>>
suspension == <<owner, step, xPendedTicks, xPendedCounts>>
vars == <<lists, clock, calls, period, suspension, waitsForEvent,
          xPendingReadyList, interrupts, due>>

Now == era + xTickCount

Delayed == pxDelayedTaskList \cup pxOverflowDelayedTaskList
Blocked == Delayed \cup xSuspendedTaskList

PlusWide(a, b) == a + b

\* Unsigned arithmetic on TickType_t, for operands below Wrap.
Plus(a, b) == IF a + b >= Wrap THEN a + b - Wrap ELSE a + b
Minus(a, b) == IF a < b THEN a - b + Wrap ELSE a - b

\* The value of n that prvResetNextTaskUnblockTime and the loop of
\* xTaskIncrementTick take from a list.
IsUnblockTime(n, list) ==
    IF list = {} THEN n = portMAX_DELAY
    ELSE /\ \E t \in list : n = xItemValue[t]
         /\ \A t \in list : n <= xItemValue[t]

-----------------------------------------------------------------------------
Init ==
    /\ xTickCount = 0 /\ xNumOfOverflows = 0 /\ era = 0 /\ interrupts = 0
    /\ pxDelayedTaskList = {} /\ pxOverflowDelayedTaskList = {}
    /\ xSuspendedTaskList = {} /\ waitsForEvent = {} /\ xPendingReadyList = {}
    /\ xItemValue = [t \in Task |-> 0]
    /\ xNextTaskUnblockTime = portMAX_DELAY
    /\ owner = NoTask /\ step = "none"
    /\ xPendedTicks = 0 /\ xPendedCounts = 0
    /\ xPreviousWakeTime = [t \in Task |-> 0] /\ release = [t \in Task |-> 0]
    /\ inCall = {}
    /\ xTimeOut = [t \in Task |-> [xOverflowCount |-> 0, xTimeOnEntering |-> 0]]
    /\ xTicksToWait = [t \in Task |-> 0]
    /\ due = [t \in Task |-> 0]
    /\ entered = [t \in Task |-> 0] /\ deadline = [t \in Task |-> 0]

-----------------------------------------------------------------------------
(* The tick.                                                               *)

\* taskSWITCH_DELAYED_LISTS: the list of delayed tasks from tick on.
ListAt(tick) == IF tick = 0 THEN pxOverflowDelayedTaskList ELSE pxDelayedTaskList

Late(tick, n) == tick > n

Due(tick, n) == tick >= n

IncrementTick ==
    \E n \in TickType_t, next \in TickType_t :
        LET tick == Plus(xTickCount, 1)
            list == ListAt(tick)
            woken == {t \in list : xItemValue[t] <= tick}
        IN  /\ xTickCount' = tick
            /\ IF tick = 0
               THEN /\ pxOverflowDelayedTaskList' = pxDelayedTaskList
                    /\ xNumOfOverflows' = xNumOfOverflows + 1
                    /\ era' = era + Wrap
                    /\ IsUnblockTime(n, list)
               ELSE /\ UNCHANGED <<pxOverflowDelayedTaskList, xNumOfOverflows, era>>
                    /\ n = xNextTaskUnblockTime
            /\ IF Due(tick, n)
               THEN /\ IsUnblockTime(next, list \ woken)
                    /\ pxDelayedTaskList' = list \ woken
                    /\ waitsForEvent' = waitsForEvent \ woken
               ELSE /\ next = n
                    /\ pxDelayedTaskList' = list
                    /\ UNCHANGED waitsForEvent
            /\ xNextTaskUnblockTime' = next

\* A tick that finds the scheduler suspended is only counted.
Tick ==
    /\ step # "resuming"
    /\ interrupts < Horizon
    /\ interrupts' = interrupts + 1
    /\ IF owner = NoTask
       THEN IncrementTick /\ UNCHANGED xPendedTicks
       ELSE /\ xPendedTicks' = xPendedTicks + 1
            /\ UNCHANGED <<pxDelayedTaskList, pxOverflowDelayedTaskList,
                           xNextTaskUnblockTime, waitsForEvent, clock>>
    /\ UNCHANGED <<xSuspendedTaskList, xItemValue, calls, period, owner, step,
                   xPendedCounts, xPendingReadyList, due>>

-----------------------------------------------------------------------------
(* Suspending and resuming the scheduler.                                  *)

vTaskSuspendAll(t) ==
    /\ owner = NoTask
    /\ t \notin Blocked
    /\ owner' = t
    /\ step' = IF t \in inCall THEN "check" ELSE "delay"
    /\ UNCHANGED <<lists, clock, calls, period, xPendedTicks, xPendedCounts,
                   waitsForEvent, xPendingReadyList, interrupts, due>>

PendedOnce == IF xPendedTicks > 0 THEN 1 ELSE 0

PendedCount == xPendedTicks

\* xTaskResumeAll runs with interrupts disabled, so no other action comes
\* between its three parts: the tasks made ready meanwhile, ...
ResumePending ==
    /\ step = "resume"
    /\ step' = "resuming"
    /\ pxDelayedTaskList' = pxDelayedTaskList \ xPendingReadyList
    /\ pxOverflowDelayedTaskList' = pxOverflowDelayedTaskList \ xPendingReadyList
    /\ xSuspendedTaskList' = xSuspendedTaskList \ xPendingReadyList
    /\ xPendingReadyList' = {}
    /\ \E n \in TickType_t :
           /\ IF xPendingReadyList # {}
              THEN IsUnblockTime(n, pxDelayedTaskList')
              ELSE n = xNextTaskUnblockTime
           /\ xNextTaskUnblockTime' = n
    /\ xPendedCounts' = PendedCount
    /\ UNCHANGED <<xItemValue, clock, calls, period, owner, xPendedTicks,
                   waitsForEvent, interrupts, due>>

\* ... then each pended tick, ...
ResumeTick ==
    /\ step = "resuming"
    /\ xPendedCounts > 0
    /\ IncrementTick
    /\ xPendedCounts' = xPendedCounts - 1
    /\ UNCHANGED <<xSuspendedTaskList, xItemValue, calls, period, owner, step,
                   xPendedTicks, xPendingReadyList, interrupts, due>>

\* ... and the end.
ResumeEnd ==
    /\ step = "resuming"
    /\ xPendedCounts = 0
    /\ xPendedTicks' = 0
    /\ owner' = NoTask
    /\ step' = "none"
    /\ UNCHANGED <<lists, clock, calls, period, xPendedCounts, waitsForEvent,
                   xPendingReadyList, interrupts, due>>

-----------------------------------------------------------------------------
(* Blocking.                                                               *)

NeverOverflows(wake) == FALSE

Overflows(wake) == wake < xTickCount

KeepUnblockTime(wake) == xNextTaskUnblockTime

UnblockTime(wake) ==
    IF wake < xNextTaskUnblockTime THEN wake ELSE xNextTaskUnblockTime

\* prvAddCurrentTaskToDelayedList for a limited wait.
AddToDelayedList(t, ticks) ==
    LET wake == Plus(xTickCount, ticks)
    IN  /\ xItemValue' = [xItemValue EXCEPT ![t] = wake]
        /\ due' = [due EXCEPT ![t] = Now + ticks]
        /\ IF Overflows(wake)
           THEN /\ pxOverflowDelayedTaskList' = pxOverflowDelayedTaskList \cup {t}
                /\ UNCHANGED <<pxDelayedTaskList, xNextTaskUnblockTime>>
           ELSE /\ pxDelayedTaskList' = pxDelayedTaskList \cup {t}
                /\ xNextTaskUnblockTime' = UnblockTime(wake)
                /\ UNCHANGED pxOverflowDelayedTaskList

vTaskDelay(t, ticks) ==
    /\ owner = t /\ step = "delay"
    /\ AddToDelayedList(t, ticks)
    /\ step' = "resume"
    /\ UNCHANGED <<xSuspendedTaskList, clock, calls, period, owner, xPendedTicks,
                   xPendedCounts, waitsForEvent, xPendingReadyList, interrupts>>

\* xShouldDelay of xTaskDelayUntil, for the tick counts now, previous, wake.
ShouldDelayPlain(now, previous, wake) == wake > now

ShouldDelay(now, previous, wake) ==
    IF now < previous
    THEN wake < previous /\ wake > now
    ELSE wake < previous \/ wake > now

\* The task comes back within Wrap ticks of its last release.
Punctual(t) == Now - release[t] < Wrap

xTaskDelayUntil(t, increment) ==
    LET wake == Plus(xPreviousWakeTime[t], increment)
    IN  /\ owner = t /\ step = "delay"
        /\ Punctual(t)
        /\ xPreviousWakeTime' = [xPreviousWakeTime EXCEPT ![t] = wake]
        /\ release' = [release EXCEPT ![t] = @ + increment]
        /\ IF ShouldDelay(xTickCount, xPreviousWakeTime[t], wake)
           THEN AddToDelayedList(t, Minus(wake, xTickCount))
           ELSE UNCHANGED <<pxDelayedTaskList, pxOverflowDelayedTaskList,
                            xItemValue, xNextTaskUnblockTime, due>>
        /\ step' = "resume"
        /\ UNCHANGED <<xSuspendedTaskList, clock, calls, owner, xPendedTicks,
                       xPendedCounts, waitsForEvent, xPendingReadyList, interrupts>>

-----------------------------------------------------------------------------
(* The loop of a blocking call (xQueueReceive and its like).               *)

EntryKept(t) == xTimeOut[t]

\* What vTaskInternalSetTimeOutState stores.
TimeOutState(t) ==
    [xOverflowCount |-> xNumOfOverflows, xTimeOnEntering |-> xTickCount]

\* The first pass of the loop.
EnterCall(t, ticks) ==
    /\ owner = NoTask
    /\ t \notin Blocked /\ t \notin inCall
    /\ inCall' = inCall \cup {t}
    /\ xTimeOut' = [xTimeOut EXCEPT ![t] = TimeOutState(t)]
    /\ xTicksToWait' = [xTicksToWait EXCEPT ![t] = ticks]
    /\ entered' = [entered EXCEPT ![t] = Now]
    /\ deadline' = [deadline EXCEPT ![t] = Now + ticks]
    /\ UNCHANGED <<lists, clock, period, suspension, waitsForEvent,
                   xPendingReadyList, interrupts, due>>

\* The local variables of a call end with it.
LeaveCall(t) ==
    /\ t \in inCall
    /\ inCall' = inCall \ {t}
    /\ xTimeOut' = [xTimeOut EXCEPT ![t] = [xOverflowCount |-> 0, xTimeOnEntering |-> 0]]
    /\ xTicksToWait' = [xTicksToWait EXCEPT ![t] = 0]
    /\ entered' = [entered EXCEPT ![t] = 0]
    /\ deadline' = [deadline EXCEPT ![t] = 0]

\* The call finds what it waits for.
Succeed(t) ==
    /\ owner = NoTask
    /\ t \notin Blocked
    /\ LeaveCall(t)
    /\ UNCHANGED <<lists, clock, period, suspension, waitsForEvent,
                   xPendingReadyList, interrupts, due>>

Elapsed(t) == Minus(xTickCount, xTimeOut[t].xTimeOnEntering)

ElapsedOnly(t) ==
    xTicksToWait[t] # portMAX_DELAY /\ Elapsed(t) >= xTicksToWait[t]

\* The return value of xTaskCheckForTimeOut.
TimedOut(t) ==
    /\ xTicksToWait[t] # portMAX_DELAY
    /\ \/ /\ xNumOfOverflows # xTimeOut[t].xOverflowCount
          /\ xTickCount >= xTimeOut[t].xTimeOnEntering
       \/ Elapsed(t) >= xTicksToWait[t]

\* The task comes back within Wrap ticks of its last check.
Prompt(t) == Now - entered[t] <= Wrap

xTaskCheckForTimeOut(t) ==
    /\ owner = t /\ step = "check"
    /\ xTicksToWait[t] # portMAX_DELAY => Prompt(t)
    /\ IF TimedOut(t)
       THEN step' = "resume" /\ LeaveCall(t)
       ELSE /\ step' = "place"
            /\ UNCHANGED <<inCall, deadline>>
            /\ IF xTicksToWait[t] = portMAX_DELAY
               THEN UNCHANGED <<xTicksToWait, xTimeOut, entered>>
               ELSE /\ xTicksToWait' = [xTicksToWait EXCEPT ![t] = @ - Elapsed(t)]
                    /\ xTimeOut' = [xTimeOut EXCEPT ![t] = TimeOutState(t)]
                    /\ entered' = [entered EXCEPT ![t] = Now]
    /\ UNCHANGED <<lists, clock, period, owner, xPendedTicks, xPendedCounts,
                   waitsForEvent, xPendingReadyList, interrupts, due>>

\* vTaskPlaceOnEventList.
PlaceOnEventList(t) ==
    /\ owner = t /\ step = "place"
    /\ step' = "resume"
    /\ waitsForEvent' = waitsForEvent \cup {t}
    /\ IF xTicksToWait[t] = portMAX_DELAY
       THEN /\ xSuspendedTaskList' = xSuspendedTaskList \cup {t}
            /\ UNCHANGED <<pxDelayedTaskList, pxOverflowDelayedTaskList,
                           xItemValue, xNextTaskUnblockTime, due>>
       ELSE AddToDelayedList(t, xTicksToWait[t]) /\ UNCHANGED xSuspendedTaskList
    /\ UNCHANGED <<clock, calls, period, owner, xPendedTicks, xPendedCounts,
                   xPendingReadyList, interrupts>>

\* Meanwhile the event has happened: the task goes round the loop again.
DoNotPlace(t) ==
    /\ owner = t /\ step = "place"
    /\ step' = "resume"
    /\ UNCHANGED <<lists, clock, calls, period, owner, xPendedTicks, xPendedCounts,
                   waitsForEvent, xPendingReadyList, interrupts, due>>

\* xTaskRemoveFromEventList, called by the task that runs or by an interrupt.
RemoveFromEventList(t) ==
    /\ step # "resuming"
    /\ t \in waitsForEvent
    /\ waitsForEvent' = waitsForEvent \ {t}
    /\ IF owner = NoTask
       THEN /\ pxDelayedTaskList' = pxDelayedTaskList \ {t}
            /\ pxOverflowDelayedTaskList' = pxOverflowDelayedTaskList \ {t}
            /\ xSuspendedTaskList' = xSuspendedTaskList \ {t}
            /\ UNCHANGED xPendingReadyList
       ELSE /\ xPendingReadyList' = xPendingReadyList \cup {t}
            /\ UNCHANGED <<pxDelayedTaskList, pxOverflowDelayedTaskList,
                           xSuspendedTaskList>>
    /\ UNCHANGED <<xItemValue, xNextTaskUnblockTime, clock, calls, period,
                   suspension, interrupts, due>>

-----------------------------------------------------------------------------
Scheduler ==
    \/ Tick \/ ResumePending \/ ResumeTick \/ ResumeEnd
    \/ \E t \in Task : vTaskSuspendAll(t)

Delays ==
    \E t \in Task, n \in TickType_t \ {0} :
        vTaskDelay(t, n) \/ xTaskDelayUntil(t, n)

Calls ==
    \E t \in Task :
        \/ \E n \in TickType_t \ {0} : EnterCall(t, n)
        \/ Succeed(t) \/ xTaskCheckForTimeOut(t)
        \/ PlaceOnEventList(t) \/ DoNotPlace(t) \/ RemoveFromEventList(t)

Next == Scheduler \/ Delays \/ Calls

Spec == Init /\ [][Next]_vars

-----------------------------------------------------------------------------
\* The tick counts keep the width of TickType_t, and a task waits for an event
\* or is pending only while it is blocked.
TickTimeTypeOK ==
    /\ xTickCount \in TickType_t /\ xNextTaskUnblockTime \in TickType_t
    /\ xNumOfOverflows \in Nat /\ era \in Nat /\ interrupts \in Nat
    /\ pxDelayedTaskList \subseteq Task
    /\ pxOverflowDelayedTaskList \subseteq Task
    /\ xSuspendedTaskList \subseteq Task
    /\ waitsForEvent \subseteq Blocked
    /\ xPendingReadyList \subseteq Blocked \ waitsForEvent
    /\ inCall \subseteq Task
    /\ owner \in Task \cup {NoTask}
    /\ step \in {"none", "delay", "check", "place", "resume", "resuming"}
    /\ xPendedTicks \in Nat /\ xPendedCounts \in Nat
    /\ xItemValue \in [Task -> TickType_t]
    /\ xPreviousWakeTime \in [Task -> TickType_t]
    /\ xTicksToWait \in [Task -> TickType_t]
    /\ xTimeOut \in [Task -> [xOverflowCount : Nat, xTimeOnEntering : TickType_t]]
    /\ due \in [Task -> Nat] /\ release \in [Task -> Nat]
    /\ entered \in [Task -> Nat] /\ deadline \in [Task -> Nat]

\* Every tick interrupt is counted once: those that arrive while the
\* scheduler is suspended are pended and made up for by xTaskResumeAll.
NoTickLost ==
    interrupts = Now + IF step = "resuming" THEN xPendedCounts ELSE xPendedTicks

\* No task is still in a delayed list at the time it is to wake, across any
\* number of wraps of the tick count: neither xNextTaskUnblockTime nor the
\* choice between the two lists hides a task from xTaskIncrementTick.
NeverOversleeps == \A t \in Delayed : Now < due[t]

\* The configASSERT of taskSWITCH_DELAYED_LISTS: the list that becomes the
\* overflow list is empty.
EmptyAtSwitch == xTickCount = portMAX_DELAY => pxDelayedTaskList = {}

\* A task leaves the delayed lists at the tick it is to wake, or before
\* because of its event; xTaskIncrementTick wakes none early.
WakesOnTime ==
    [][\A t \in Delayed \ Delayed' :
          \/ Now' = due[t]
          \/ Now' = Now /\ t \in waitsForEvent \cup xPendingReadyList]_vars

\* The comparisons of xTaskDelayUntil decide as absolute time would: the
\* task is delayed exactly if its next release is still to come, and then
\* until that release.
DelayUntilExact ==
    [][\A t \in Task : release'[t] # release[t] =>
          /\ t \in Delayed' <=> Now < release'[t]
          /\ t \in Delayed' => due'[t] = release'[t]]_vars

\* However often a call is woken and finds nothing, it blocks until the end
\* of the timeout it was called with, never longer: xTaskCheckForTimeOut
\* takes off what has elapsed, once.
WaitEndsAtDeadline ==
    \A t \in inCall \cap Delayed : due[t] = deadline[t]

\* xTaskCheckForTimeOut reports a timeout exactly when its time has come.
TimeoutExact ==
    [][\A t \in inCall : owner = t /\ step = "check" /\ step' # step =>
          (t \notin inCall'
           <=> xTicksToWait[t] # portMAX_DELAY /\ Now >= deadline[t])]_vars
=============================================================================
