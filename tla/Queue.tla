-------------------------------- MODULE Queue --------------------------------
(***************************************************************************)
(* A FreeRTOS queue with data (queue.c), used by tasks that may block and   *)
(* by interrupt handlers that may come between any two critical sections   *)
(* of theirs: the ring, the two event lists, and the locks that keep       *)
(* handlers away from the event lists while a task puts itself into one.   *)
(*                                                                         *)
(* Tasks have no priorities here: any ready task may run, and the head of   *)
(* an event list is any of its tasks, which covers every choice of         *)
(* priorities.  Time is when a timeout elapses (module TickTime has the     *)
(* ticks); it does not pass while the scheduler is suspended.  A call is    *)
(*                                                                         *)
(*   enter --> try --> suspend --> lock --> check --> test --> place       *)
(*              ^                                                |         *)
(*              +-- blocked, recheck --+-- resume <-- unlockRx <-- unlockTx *)
(*                  or at once                                             *)
(*                                                                         *)
(* Left out: xQueueReset, which the firmware never calls on a queue in use, *)
(* queue sets, which are not configured, and semaphores, see module Kernel. *)
(***************************************************************************)
EXTENDS Integers, FiniteSets

CONSTANTS Task,
          NoTask,
          Isr,         \* the interrupt handler
          Item,
          Length,      \* the lengths a queue may be created with
          uxNumberOfTasks

ASSUME QueueAssumption ==
    /\ IsFiniteSet(Task)
    /\ NoTask \notin Task /\ Isr \notin Task /\ Isr # NoTask
    /\ Length \subseteq Nat \ {0}
    /\ uxNumberOfTasks \in Nat /\ Cardinality(Task) <= uxNumberOfTasks
    /\ Item # {}

Actor == Task \cup {Isr}
queueUNLOCKED == -1
queueLOCKED_UNMODIFIED == 0

VARIABLES
    uxLength,           \* set by xQueueGenericCreate
    ring,               \* the storage area
    pcWriteTo, pcReadFrom, uxMessagesWaiting,
    cRxLock, cTxLock,
    xTasksWaitingToSend, xTasksWaitingToReceive,
    xPendingReadyList,
    owner,              \* the task that suspended the scheduler
    pc,                 \* of each task, "idle" outside of any call
    op,                 \* what its call does, or "none"
    xTicksToWait,       \* of its call: "zero", "limited" or "portMAX_DELAY"
    elapsed,            \* tasks whose timeout has elapsed
    data                \* the buffer of each actor's call

Slot == 0 .. uxLength - 1

queue == <<uxLength, ring, pcWriteTo, pcReadFrom, uxMessagesWaiting>>
storage == <<queue, data>>
locks == <<cRxLock, cTxLock>>
waiters == <<xTasksWaitingToSend, xTasksWaitingToReceive, xPendingReadyList>>
call == <<op, xTicksToWait>>
vars == <<storage, locks, waiters, owner, pc, call, elapsed>>

Sends == {"queueSEND_TO_BACK", "queueSEND_TO_FRONT", "queueOVERWRITE"}
Receives == {"xQueueReceive", "xQueuePeek"}

Ticks == {"zero", "limited", "portMAX_DELAY"}
Places == {"idle", "enter", "try", "suspend", "lock", "check", "test", "place",
           "unlockTx", "unlockRx", "resume", "blocked", "recheck"}

\* The configASSERT at the head of xQueueGenericSend.
Allowed == (Sends \cup Receives) \ IF uxLength = 1 THEN {} ELSE {"queueOVERWRITE"}

Up(slot) == IF slot + 1 >= uxLength THEN 0 ELSE slot + 1
DownOnly(slot) == IF slot = 0 THEN 0 ELSE slot - 1
Down(slot) == IF slot = 0 THEN uxLength - 1 ELSE slot - 1

Init ==
    /\ uxLength \in Length
    /\ ring \in [Slot -> Item]
    /\ pcWriteTo = 0 /\ pcReadFrom = uxLength - 1 /\ uxMessagesWaiting = 0
    /\ cRxLock = queueUNLOCKED /\ cTxLock = queueUNLOCKED
    /\ xTasksWaitingToSend = {} /\ xTasksWaitingToReceive = {}
    /\ xPendingReadyList = {}
    /\ owner = NoTask
    /\ pc = [t \in Task |-> "idle"]
    /\ op = [t \in Task |-> "none"]
    /\ xTicksToWait = [t \in Task |-> "zero"]
    /\ elapsed = {}
    /\ data \in [Actor -> Item]

-----------------------------------------------------------------------------
(* The ring.                                                               *)

RoomForOneMore(position) ==
    uxMessagesWaiting <= uxLength \/ position = "queueOVERWRITE"

HasRoom(position) ==
    uxMessagesWaiting < uxLength \/ position = "queueOVERWRITE"

prvCopyDataToQueue(item, position) ==
    /\ IF position = "queueSEND_TO_BACK"
       THEN /\ ring' = [ring EXCEPT ![pcWriteTo] = item]
            /\ pcWriteTo' = Up(pcWriteTo)
            /\ UNCHANGED pcReadFrom
       ELSE /\ ring' = [ring EXCEPT ![pcReadFrom] = item]
            /\ pcReadFrom' = Down(pcReadFrom)
            /\ UNCHANGED pcWriteTo
    /\ uxMessagesWaiting' =
           IF position = "queueOVERWRITE" /\ uxMessagesWaiting > 0
           THEN uxMessagesWaiting ELSE uxMessagesWaiting + 1
    /\ UNCHANGED <<uxLength, data>>

\* prvCopyDataFromQueue by actor a, and the count; a peek puts the read
\* position back.
prvCopyDataFromQueue(a, operation) ==
    /\ data' = [data EXCEPT ![a] = ring[Up(pcReadFrom)]]
    /\ IF operation = "xQueuePeek"
       THEN UNCHANGED <<pcReadFrom, uxMessagesWaiting>>
       ELSE /\ pcReadFrom' = Up(pcReadFrom)
            /\ uxMessagesWaiting' = uxMessagesWaiting - 1
    /\ UNCHANGED <<uxLength, ring, pcWriteTo>>

-----------------------------------------------------------------------------
(* Waking tasks.                                                           *)

Least(m, n) == IF m < n THEN m ELSE n

\* The sets of tasks that n calls of xTaskRemoveFromEventList may take.
Heads(list, n) ==
    {woken \in SUBSET list : Cardinality(woken) = Least(n, Cardinality(list))}

\* xTaskRemoveFromEventList for tasks already taken off the event list;
\* next is where the program counters of all others go.
MakeReady(woken, next) ==
    IF owner = NoTask
    THEN /\ pc' = [t \in Task |-> IF t \in woken THEN "try" ELSE next[t]]
         /\ UNCHANGED xPendingReadyList
    ELSE /\ pc' = next
         /\ xPendingReadyList' = xPendingReadyList \cup woken

WakeReceiver(next) ==
    \E woken \in Heads(xTasksWaitingToReceive, 1) :
        /\ xTasksWaitingToReceive' = xTasksWaitingToReceive \ woken
        /\ MakeReady(woken, next)
        /\ UNCHANGED xTasksWaitingToSend

WakeSender(next) ==
    \E woken \in Heads(xTasksWaitingToSend, 1) :
        /\ xTasksWaitingToSend' = xTasksWaitingToSend \ woken
        /\ MakeReady(woken, next)
        /\ UNCHANGED xTasksWaitingToReceive

\* The timeout of a call of t elapses; if t is blocked the tick wakes it.
Elapse(t) ==
    /\ owner = NoTask
    /\ pc[t] \notin {"idle", "enter"} /\ xTicksToWait[t] = "limited" /\ t \notin elapsed
    /\ elapsed' = elapsed \cup {t}
    /\ xTasksWaitingToSend' = xTasksWaitingToSend \ {t}
    /\ xTasksWaitingToReceive' = xTasksWaitingToReceive \ {t}
    /\ pc' = IF pc[t] = "blocked" THEN [pc EXCEPT ![t] = "try"] ELSE pc
    /\ UNCHANGED <<storage, locks, xPendingReadyList, owner, call>>

-----------------------------------------------------------------------------
(* Calls of tasks.                                                         *)

\* What a task puts into its buffer for a send; a receive leaves it alone.
Call(t, operation, ticks) ==
    /\ owner = NoTask
    /\ pc[t] = "idle"
    /\ pc' = [pc EXCEPT ![t] = "enter"]
    /\ op' = [op EXCEPT ![t] = operation]
    /\ xTicksToWait' = [xTicksToWait EXCEPT ![t] = ticks]
    /\ IF operation \in Sends
       THEN \E item \in Item : data' = [data EXCEPT ![t] = item]
       ELSE UNCHANGED data
    /\ UNCHANGED <<queue, locks, waiters, owner, elapsed>>

\* The local variables of a call end with it.
Return(t) ==
    /\ op' = [op EXCEPT ![t] = "none"]
    /\ xTicksToWait' = [xTicksToWait EXCEPT ![t] = "zero"]
    /\ elapsed' = elapsed \ {t}

Trying(t) == owner = NoTask /\ pc[t] \in {"enter", "try"}

Send(t) ==
    /\ Trying(t) /\ op[t] \in Sends /\ HasRoom(op[t])
    /\ prvCopyDataToQueue(data[t], op[t])
    /\ WakeReceiver([pc EXCEPT ![t] = "idle"])
    /\ Return(t)
    /\ UNCHANGED <<locks, owner>>

PeekWakesNone(next) == pc' = next /\ UNCHANGED waiters

\* A peek leaves its item to the next receiver.
PeekWakes(next) == WakeReceiver(next)

Receive(t) ==
    /\ Trying(t) /\ op[t] \in Receives /\ uxMessagesWaiting > 0
    /\ prvCopyDataFromQueue(t, op[t])
    /\ LET next == [pc EXCEPT ![t] = "idle"]
       IN  IF op[t] = "xQueuePeek" THEN PeekWakes(next) ELSE WakeSender(next)
    /\ Return(t)
    /\ UNCHANGED <<locks, owner>>

Fail(t) ==
    /\ Trying(t)
    /\ IF op[t] \in Sends THEN ~HasRoom(op[t]) ELSE uxMessagesWaiting = 0
    /\ IF xTicksToWait[t] = "zero"
       THEN pc' = [pc EXCEPT ![t] = "idle"] /\ Return(t)
       ELSE pc' = [pc EXCEPT ![t] = "suspend"] /\ UNCHANGED <<call, elapsed>>
    /\ UNCHANGED <<storage, locks, waiters, owner>>

vTaskSuspendAll(t) ==
    /\ owner = NoTask /\ pc[t] = "suspend"
    /\ owner' = t
    /\ pc' = [pc EXCEPT ![t] = "lock"]
    /\ UNCHANGED <<storage, locks, waiters, call, elapsed>>

Locked(lock) == IF lock = queueUNLOCKED THEN queueLOCKED_UNMODIFIED ELSE lock

prvLockQueue(t) ==
    /\ pc[t] = "lock"
    /\ cRxLock' = Locked(cRxLock) /\ cTxLock' = Locked(cTxLock)
    /\ pc' = [pc EXCEPT ![t] = "check"]
    /\ UNCHANGED <<storage, waiters, owner, call, elapsed>>

xTaskCheckForTimeOut(t) ==
    /\ pc[t] = "check"
    /\ IF t \in elapsed
       THEN /\ xTicksToWait' = [xTicksToWait EXCEPT ![t] = "zero"]
            /\ pc' = [pc EXCEPT ![t] = "unlockTx"]
       ELSE /\ UNCHANGED xTicksToWait
            /\ pc' = [pc EXCEPT ![t] = "test"]
    /\ UNCHANGED <<storage, locks, waiters, owner, op, elapsed>>

NoTest(t) == TRUE

\* prvIsQueueFull or prvIsQueueEmpty.
MustWait(t) ==
    uxMessagesWaiting = IF op[t] \in Sends THEN uxLength ELSE 0

Test(t) ==
    /\ pc[t] = "test"
    /\ pc' = [pc EXCEPT ![t] = IF MustWait(t) THEN "place" ELSE "unlockTx"]
    /\ UNCHANGED <<storage, locks, waiters, owner, call, elapsed>>

vTaskPlaceOnEventList(t) ==
    /\ pc[t] = "place"
    /\ IF op[t] \in Sends
       THEN /\ xTasksWaitingToSend' = xTasksWaitingToSend \cup {t}
            /\ UNCHANGED xTasksWaitingToReceive
       ELSE /\ xTasksWaitingToReceive' = xTasksWaitingToReceive \cup {t}
            /\ UNCHANGED xTasksWaitingToSend
    /\ pc' = [pc EXCEPT ![t] = "unlockTx"]
    /\ UNCHANGED <<storage, locks, xPendingReadyList, owner, call, elapsed>>

\* The two critical sections of prvUnlockQueue.
UnlockTx(t) ==
    /\ pc[t] = "unlockTx"
    /\ \E woken \in Heads(xTasksWaitingToReceive, cTxLock) :
           /\ xTasksWaitingToReceive' = xTasksWaitingToReceive \ woken
           /\ MakeReady(woken, [pc EXCEPT ![t] = "unlockRx"])
    /\ cTxLock' = queueUNLOCKED
    /\ UNCHANGED <<storage, cRxLock, xTasksWaitingToSend, owner, call, elapsed>>

UnlockRx(t) ==
    /\ pc[t] = "unlockRx"
    /\ \E woken \in Heads(xTasksWaitingToSend, cRxLock) :
           /\ xTasksWaitingToSend' = xTasksWaitingToSend \ woken
           /\ MakeReady(woken, [pc EXCEPT ![t] = "resume"])
    /\ cRxLock' = queueUNLOCKED
    /\ UNCHANGED <<storage, cTxLock, xTasksWaitingToReceive, owner, call, elapsed>>

\* Where the call goes on: it blocks unless it has been woken meanwhile; a
\* send that timed out returns, a receive looks once more.
Continuation(t) ==
    IF t \in xTasksWaitingToSend \cup xTasksWaitingToReceive THEN "blocked"
    ELSE IF xTicksToWait[t] # "zero" THEN "try"
    ELSE IF op[t] \in Sends THEN "idle" ELSE "recheck"

xTaskResumeAll(t) ==
    /\ pc[t] = "resume"
    /\ owner' = NoTask
    /\ xPendingReadyList' = {}
    /\ pc' = [r \in Task |-> IF r = t THEN Continuation(t)
                             ELSE IF r \in xPendingReadyList THEN "try" ELSE pc[r]]
    /\ IF Continuation(t) = "idle" THEN Return(t) ELSE UNCHANGED <<call, elapsed>>
    /\ UNCHANGED <<storage, locks, xTasksWaitingToSend, xTasksWaitingToReceive>>

\* prvIsQueueEmpty after a timeout.
Recheck(t) ==
    /\ owner = NoTask /\ pc[t] = "recheck"
    /\ IF uxMessagesWaiting = 0
       THEN pc' = [pc EXCEPT ![t] = "idle"] /\ Return(t)
       ELSE pc' = [pc EXCEPT ![t] = "try"] /\ UNCHANGED <<call, elapsed>>
    /\ UNCHANGED <<storage, locks, waiters, owner>>

-----------------------------------------------------------------------------
(* The interrupt handler.                                                  *)

IsrPrepares ==
    /\ \E item \in Item : data' = [data EXCEPT ![Isr] = item]
    /\ UNCHANGED <<queue, locks, waiters, owner, pc, call, elapsed>>

Forgotten(lock) == lock

\* prvIncrementQueueTxLock and prvIncrementQueueRxLock.
Incremented(lock) == IF lock < uxNumberOfTasks THEN lock + 1 ELSE lock

xQueueGenericSendFromISR(position) ==
    /\ HasRoom(position)
    /\ prvCopyDataToQueue(data[Isr], position)
    /\ IF cTxLock = queueUNLOCKED
       THEN WakeReceiver(pc) /\ UNCHANGED cTxLock
       ELSE cTxLock' = Incremented(cTxLock) /\ UNCHANGED <<waiters, pc>>
    /\ UNCHANGED <<cRxLock, owner, call, elapsed>>

xQueueReceiveFromISR ==
    /\ uxMessagesWaiting > 0
    /\ prvCopyDataFromQueue(Isr, "xQueueReceive")
    /\ IF cRxLock = queueUNLOCKED
       THEN WakeSender(pc) /\ UNCHANGED cRxLock
       ELSE cRxLock' = Incremented(cRxLock) /\ UNCHANGED <<waiters, pc>>
    /\ UNCHANGED <<cTxLock, owner, call, elapsed>>

Interrupt ==
    \/ IsrPrepares
    \/ \E position \in Sends \cap Allowed : xQueueGenericSendFromISR(position)
    \/ xQueueReceiveFromISR

-----------------------------------------------------------------------------
\* A step of the kernel on behalf of t.
Run(t) ==
    \/ Send(t) \/ Receive(t) \/ Fail(t)
    \/ vTaskSuspendAll(t) \/ prvLockQueue(t) \/ xTaskCheckForTimeOut(t) \/ Test(t)
    \/ vTaskPlaceOnEventList(t) \/ UnlockTx(t) \/ UnlockRx(t) \/ xTaskResumeAll(t)
    \/ Recheck(t)

Next ==
    \/ Interrupt
    \/ \E t \in Task :
           \/ Run(t) \/ Elapse(t)
           \/ \E operation \in Allowed, ticks \in Ticks :
                  Call(t, operation, ticks)

Spec == Init /\ [][Next]_vars

\* Every ready task gets the processor in the end.
FairSpec == Spec /\ \A t \in Task : WF_vars(Run(t))
-----------------------------------------------------------------------------
\* Positions and counts stay within the ring and the locks within their
\* range; an event list holds only tasks in a call that waits in it.
QueueTypeOK ==
    /\ uxLength \in Length
    /\ ring \in [Slot -> Item] /\ data \in [Actor -> Item]
    /\ pcWriteTo \in Slot /\ pcReadFrom \in Slot
    /\ uxMessagesWaiting \in 0 .. uxLength
    /\ cRxLock \in -1 .. uxNumberOfTasks /\ cTxLock \in -1 .. uxNumberOfTasks
    /\ owner \in Task \cup {NoTask}
    /\ op \in [Task -> Allowed \cup {"none"}]
    /\ xTicksToWait \in [Task -> Ticks]
    /\ elapsed \subseteq Task
    /\ pc \in [Task -> Places]
    /\ xTasksWaitingToSend \subseteq {t \in Task : op[t] \in Sends}
    /\ xTasksWaitingToReceive \subseteq {t \in Task : op[t] \in Receives}
    /\ xPendingReadyList \subseteq Task

\* The calls that are about to try again.
About(operations) ==
    {t \in Task : op[t] \in operations /\ (pc[t] = "try" \/ t \in xPendingReadyList)}

\* Wake-ups that prvUnlockQueue still owes.
Owed(lock) == IF owner = NoTask \/ lock = queueUNLOCKED THEN 0 ELSE lock

\* Every one of m items (or free places) that the tasks of waiting sleep on
\* has a call about to use it or a wake-up owed, unless all will be woken.
Served(waiting, m, about, owed) ==
    waiting # {} => \/ m <= Cardinality(about) + owed
                    \/ Cardinality(waiting) <= owed

\* No receiver sleeps on an item: while tasks wait to receive, every item in
\* the queue has a task that is about to take it, or a wake-up that the task
\* holding the lock owes.  The item may arrive by interrupt at any point
\* between the test of a receiver and its sleep.
NoReceiverLeft ==
    Served(xTasksWaitingToReceive, uxMessagesWaiting, About(Receives), Owed(cTxLock))

\* No sender sleeps on a free place: the same of the tasks that wait to send
\* and of the places that receivers, tasks or interrupts, have freed.
NoSenderLeft ==
    Served(xTasksWaitingToSend, uxLength - uxMessagesWaiting, About(Sends), Owed(cRxLock))

\* The place of the i-th item, and the items in the queue, oldest first.
Pos(i) == IF pcReadFrom + i >= uxLength THEN pcReadFrom + i - uxLength ELSE pcReadFrom + i
contents == [i \in 1 .. uxMessagesWaiting |-> ring[Pos(i)]]

F == INSTANCE Fifo

\* The ring with its two positions behaves as a bounded sequence: items come
\* out in order and once, whichever of tasks and interrupts put them in,
\* at the back, at the front or over the only one.
ImplementsFifo == F!Spec

\* A receiver and an item do not wait for each other for ever, nor do a
\* sender and a free place: the wake-ups owed are delivered.
NobodySleepsOn ==
    /\ uxMessagesWaiting > 0 /\ xTasksWaitingToReceive # {}
           ~> uxMessagesWaiting = 0 \/ xTasksWaitingToReceive = {}
    /\ uxMessagesWaiting < uxLength /\ xTasksWaitingToSend # {}
           ~> uxMessagesWaiting = uxLength \/ xTasksWaitingToSend = {}
=============================================================================
