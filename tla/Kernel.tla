------------------------------- MODULE Kernel -------------------------------
(***************************************************************************)
(* The part of the FreeRTOS V10.5.1 kernel the firmware runs on: counting  *)
(* semaphores and mutexes (queue.c), the fixed-priority preemptive         *)
(* scheduler with time slicing and the delayed list (tasks.c).             *)
(*                                                                         *)
(* An operator below is one critical section, or one section run with the  *)
(* scheduler suspended, of the named kernel function.  Between two of them *)
(* the tick interrupt and, through it, any other task may run.             *)
(*                                                                         *)
(* Among ready tasks of equal priority the kernel goes round its ready     *)
(* list; here any of them may be picked.  A delay ends on some later tick. *)
(***************************************************************************)
EXTENDS Naturals, Sequences

CONSTANTS Task,          \* every task of the system, the idle task included
          Sem,           \* handles of the semaphores and mutexes
          Mutex,         \* those of Sem created by xSemaphoreCreateMutex
          uxLength,      \* uxLength[s]: the maximal count of s
          uxBasePriority,\* uxBasePriority[t]: the priority t was created with
          NoTask         \* a NULL task handle

VARIABLES pxCurrentTCB,       \* the running task
          ready,              \* tasks in the ready lists
          delayed,            \* tasks in the delayed list
          uxPriority,         \* current, possibly inherited, priority of each task
          uxMutexesHeld,      \* number of mutexes each task holds
          uxMessagesWaiting,  \* count of each semaphore
          xMutexHolder,       \* holder of each mutex, else NoTask
          xTasksWaitingToReceive  \* event list of each semaphore

KernelTypeOK ==
    /\ pxCurrentTCB \in Task
    /\ ready \in SUBSET Task
    /\ delayed \in SUBSET Task
    /\ uxPriority \in [Task -> Nat]
    /\ uxMutexesHeld \in [Task -> Nat]
    /\ uxMessagesWaiting \in [Sem -> Nat]
    /\ xMutexHolder \in [Sem -> Task \cup {NoTask}]
    /\ xTasksWaitingToReceive \in [Sem -> Seq(Task)]

-----------------------------------------------------------------------------
(* The scheduler. *)

\* taskSELECT_HIGHEST_PRIORITY_TASK: the candidates of a context switch.
HighestPriority(rdy, prio) ==
    {t \in rdy : \A u \in rdy : prio[u] <= prio[t]}

\* vTaskSwitchContext, called once the other primed variables are known.
vTaskSwitchContext ==
    pxCurrentTCB' \in HighestPriority(ready', uxPriority')

\* vListInsert on an event list whose items carry configMAX_PRIORITIES -
\* uxPriority: after the leading tasks of at least the priority of t.
vListInsert(list, t) ==
    LET n == CHOOSE i \in 0 .. Len(list) :
                 /\ \A j \in 1 .. i : uxPriority[list[j]] >= uxPriority[t]
                 /\ i < Len(list) => uxPriority[list[i + 1]] < uxPriority[t]
    IN  SubSeq(list, 1, n) \o <<t>> \o SubSeq(list, n + 1, Len(list))

\* xSwitchRequired of xTaskIncrementTick: a woken task has a higher priority, or
\* ready tasks of the running task's priority share the processor.
SharesProcessor(woken) ==
    \E t \in (ready \cup woken) \ {pxCurrentTCB} :
        uxPriority[t] = uxPriority[pxCurrentTCB]

xSwitchRequired(woken) ==
    \/ \E t \in woken : uxPriority[t] > uxPriority[pxCurrentTCB]
    \/ SharesProcessor(woken)

\* xTaskIncrementTick: the tasks of woken have reached their wake time.
xTaskIncrementTick(woken) ==
    /\ woken \subseteq delayed
    /\ delayed' = delayed \ woken
    /\ ready' = ready \cup woken
    /\ uxPriority' = uxPriority
    /\ IF xSwitchRequired(woken)
       THEN vTaskSwitchContext
       ELSE pxCurrentTCB' = pxCurrentTCB
    /\ UNCHANGED <<uxMutexesHeld, uxMessagesWaiting, xMutexHolder,
                   xTasksWaitingToReceive>>

\* prvAddCurrentTaskToDelayedList and the yield that follows it.
BlockOnDelayedList(t) ==
    /\ ready' = ready \ {t}
    /\ delayed' = delayed \cup {t}
    /\ uxPriority' = uxPriority
    /\ vTaskSwitchContext
    /\ UNCHANGED <<uxMutexesHeld, uxMessagesWaiting, xMutexHolder,
                   xTasksWaitingToReceive>>

\* The yield alone: portYIELD_WITHIN_API of a task that stays ready.
Yield ==
    /\ ready' = ready
    /\ uxPriority' = uxPriority
    /\ vTaskSwitchContext
    /\ UNCHANGED <<delayed, uxMutexesHeld, uxMessagesWaiting, xMutexHolder,
                   xTasksWaitingToReceive>>

\* xTaskDelayUntil: sleep until the next multiple of the period, or, when that
\* time has already passed, only yield.
xTaskDelayUntil(t) == BlockOnDelayedList(t) \/ Yield

-----------------------------------------------------------------------------
(* Semaphores and mutexes. *)

\* xQueueSemaphoreTake, first critical section, count above 0.
TakeAvailable(t, s) ==
    /\ uxMessagesWaiting[s] > 0
    /\ uxMessagesWaiting' = [uxMessagesWaiting EXCEPT ![s] = @ - 1]
    /\ IF s \in Mutex
       THEN /\ xMutexHolder' = [xMutexHolder EXCEPT ![s] = t]
            /\ uxMutexesHeld' = [uxMutexesHeld EXCEPT ![t] = @ + 1]
       ELSE UNCHANGED <<xMutexHolder, uxMutexesHeld>>
    /\ UNCHANGED <<pxCurrentTCB, ready, delayed, uxPriority,
                   xTasksWaitingToReceive>>

\* Mutated: a holder inherits nothing, as if s were a binary semaphore.
InheritNothing(t, s) == uxPriority

\* xTaskPriorityInherit: the holder of s rises to the priority of t.
xTaskPriorityInherit(t, s) ==
    LET h == xMutexHolder[s]
    IN  IF s \in Mutex /\ h # NoTask /\ uxPriority[h] < uxPriority[t]
        THEN [uxPriority EXCEPT ![h] = uxPriority[t]]
        ELSE uxPriority

\* xQueueSemaphoreTake with the scheduler suspended, count still 0: the caller
\* waits in the event list without a timeout (portMAX_DELAY).
TakeBlocks(t, s) ==
    /\ uxMessagesWaiting[s] = 0
    /\ uxPriority' = xTaskPriorityInherit(t, s)
    /\ xTasksWaitingToReceive' =
           [xTasksWaitingToReceive EXCEPT ![s] = vListInsert(@, t)]
    /\ ready' = ready \ {t}
    /\ vTaskSwitchContext
    /\ UNCHANGED <<delayed, uxMutexesHeld, uxMessagesWaiting, xMutexHolder>>

\* xTaskPriorityDisinherit: back to the base priority with the last mutex.
Disinherits(t, s) ==
    /\ s \in Mutex
    /\ uxPriority[t] # uxBasePriority[t]
    /\ uxMutexesHeld[t] = 1

xTaskPriorityDisinherit(t, s) ==
    IF Disinherits(t, s)
    THEN [uxPriority EXCEPT ![t] = uxBasePriority[t]]
    ELSE uxPriority

\* xQueueGenericSend with a block time of 0 on a semaphore with room: one more
\* unit, the first waiter made ready, a yield if that waiter has a higher
\* priority or, nobody waiting, if the caller has just lost a priority.
GiveRoom(t, s) ==
    /\ uxMessagesWaiting' = [uxMessagesWaiting EXCEPT ![s] = @ + 1]
    /\ uxPriority' = xTaskPriorityDisinherit(t, s)
    /\ IF s \in Mutex
       THEN /\ xMutexHolder' = [xMutexHolder EXCEPT ![s] = NoTask]
            /\ uxMutexesHeld' = [uxMutexesHeld EXCEPT ![t] = @ - 1]
       ELSE UNCHANGED <<xMutexHolder, uxMutexesHeld>>
    /\ IF xTasksWaitingToReceive[s] # <<>>
       THEN LET w == Head(xTasksWaitingToReceive[s])
            IN  /\ xTasksWaitingToReceive' =
                       [xTasksWaitingToReceive EXCEPT ![s] = Tail(@)]
                /\ ready' = ready \cup {w}
                /\ IF uxPriority'[w] > uxPriority'[t]
                   THEN vTaskSwitchContext
                   ELSE pxCurrentTCB' = pxCurrentTCB
       ELSE /\ UNCHANGED <<xTasksWaitingToReceive, ready>>
            /\ IF Disinherits(t, s)
               THEN vTaskSwitchContext
               ELSE pxCurrentTCB' = pxCurrentTCB
    /\ UNCHANGED delayed

\* xSemaphoreGive: on a full semaphore errQUEUE_FULL, and nothing changes.
xSemaphoreGive(t, s) ==
    IF uxMessagesWaiting[s] < uxLength[s]
    THEN GiveRoom(t, s)
    ELSE UNCHANGED <<pxCurrentTCB, ready, delayed, uxPriority, uxMutexesHeld,
                     uxMessagesWaiting, xMutexHolder, xTasksWaitingToReceive>>

=============================================================================
