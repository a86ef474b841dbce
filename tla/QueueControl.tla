----------------------------- MODULE QueueControl ----------------------------
(***************************************************************************)
(* The inductive invariant of Queue, and the lemmas about the ring, about   *)
(* the lists a task may be in, and about the calls that are about to try.  *)
(***************************************************************************)
EXTENDS Queue, Sequences, TLAPS

Held == {"lock", "check", "test", "place", "unlockTx", "unlockRx", "resume"}
TxHeld == {"check", "test", "place", "unlockTx"}
RxHeld == TxHeld \cup {"unlockRx"}
Waiting == xTasksWaitingToSend \cup xTasksWaitingToReceive

\* Who has suspended the scheduler, and when the queue is locked.
OwnerInv ==
    /\ \A t \in Task : pc[t] \in Held <=> owner = t
    /\ owner = NoTask => xPendingReadyList = {}
    /\ \A t \in Task : pc[t] \in TxHeld => cTxLock # queueUNLOCKED
    /\ \A t \in Task : pc[t] \in RxHeld => cRxLock # queueUNLOCKED
    /\ cTxLock # queueUNLOCKED => owner # NoTask /\ pc[owner] \in TxHeld
    /\ cRxLock # queueUNLOCKED => owner # NoTask /\ pc[owner] \in RxHeld

\* Where the tasks in an event list, and the ones woken from it, are.
ListInv ==
    /\ \A t \in Waiting \cup xPendingReadyList :
          /\ \/ pc[t] = "blocked"
             \/ pc[t] \in {"unlockTx", "unlockRx", "resume"}
          /\ xTicksToWait[t] # "zero"
    /\ \A t \in Task : pc[t] = "blocked" => t \in Waiting \cup xPendingReadyList
    /\ xPendingReadyList \cap Waiting = {}
    /\ \A t \in Task : op[t] = "none" <=> pc[t] = "idle"
    /\ \A t \in Task : pc[t] \in {"suspend", "lock", "check", "test", "place"}
                           => xTicksToWait[t] # "zero"

\* What an interrupt did between the test of a task and its sleep has been
\* counted by the lock.
PlaceInv ==
    \A t \in Task : pc[t] = "place" =>
        IF op[t] \in Sends
        THEN uxLength - uxMessagesWaiting <= cRxLock \/ cRxLock = uxNumberOfTasks
        ELSE uxMessagesWaiting <= cTxLock \/ cTxLock = uxNumberOfTasks

\* The write position is the number of messages beyond the read position,
\* around the ring.
RingInv ==
    \/ pcReadFrom + 1 + uxMessagesWaiting = pcWriteTo
    \/ pcReadFrom + 1 + uxMessagesWaiting = pcWriteTo + uxLength
    \/ pcReadFrom + 1 + uxMessagesWaiting = pcWriteTo + uxLength + uxLength

Inv ==
    /\ QueueTypeOK /\ OwnerInv /\ ListInv /\ PlaceInv /\ RingInv
    /\ NoReceiverLeft /\ NoSenderLeft

-----------------------------------------------------------------------------
(* Waking.                                                                 *)

\* MakeReady, for a state of the right type.
LEMMA Ready ==
    ASSUME QueueTypeOK, NEW next \in [Task -> Places], NEW woken \in SUBSET Task,
           MakeReady(woken, next)
    PROVE  /\ pc' \in [Task -> Places]
           /\ \A t \in Task : pc'[t] = IF owner = NoTask /\ t \in woken THEN "try" ELSE next[t]
           /\ xPendingReadyList' = IF owner = NoTask THEN xPendingReadyList
                                   ELSE xPendingReadyList \cup woken
BY DEF QueueTypeOK, MakeReady, Places

\* What waking a receiver changes.
LEMMA ReceiverWoken ==
    ASSUME QueueTypeOK, NEW next \in [Task -> Places], WakeReceiver(next)
    PROVE  \E woken \in Heads(xTasksWaitingToReceive, 1) :
              /\ woken \subseteq xTasksWaitingToReceive
              /\ xTasksWaitingToReceive' = xTasksWaitingToReceive \ woken
              /\ xTasksWaitingToSend' = xTasksWaitingToSend
              /\ pc' \in [Task -> Places]
              /\ \A t \in Task : pc'[t] = IF owner = NoTask /\ t \in woken THEN "try"
                                          ELSE next[t]
              /\ xPendingReadyList' = IF owner = NoTask THEN xPendingReadyList
                                      ELSE xPendingReadyList \cup woken
<1>1. PICK woken \in Heads(xTasksWaitingToReceive, 1) :
          /\ xTasksWaitingToReceive' = xTasksWaitingToReceive \ woken
          /\ MakeReady(woken, next)
          /\ UNCHANGED xTasksWaitingToSend
  BY DEF WakeReceiver
<1>2. woken \subseteq xTasksWaitingToReceive /\ woken \in SUBSET Task
  BY Zenon DEF Heads, QueueTypeOK
<1>3. WITNESS woken \in Heads(xTasksWaitingToReceive, 1)
<1> QED  BY <1>1, <1>2, Ready, Zenon

\* What waking a sender changes.
LEMMA SenderWoken ==
    ASSUME QueueTypeOK, NEW next \in [Task -> Places], WakeSender(next)
    PROVE  \E woken \in Heads(xTasksWaitingToSend, 1) :
              /\ woken \subseteq xTasksWaitingToSend
              /\ xTasksWaitingToSend' = xTasksWaitingToSend \ woken
              /\ xTasksWaitingToReceive' = xTasksWaitingToReceive
              /\ pc' \in [Task -> Places]
              /\ \A t \in Task : pc'[t] = IF owner = NoTask /\ t \in woken THEN "try"
                                          ELSE next[t]
              /\ xPendingReadyList' = IF owner = NoTask THEN xPendingReadyList
                                      ELSE xPendingReadyList \cup woken
<1>1. PICK woken \in Heads(xTasksWaitingToSend, 1) :
          /\ xTasksWaitingToSend' = xTasksWaitingToSend \ woken
          /\ MakeReady(woken, next)
          /\ UNCHANGED xTasksWaitingToReceive
  BY DEF WakeSender
<1>2. woken \subseteq xTasksWaitingToSend /\ woken \in SUBSET Task
  BY Zenon DEF Heads, QueueTypeOK
<1>3. WITNESS woken \in Heads(xTasksWaitingToSend, 1)
<1> QED  BY <1>1, <1>2, Ready

-----------------------------------------------------------------------------
(* The ring.                                                               *)

StorageInv ==
    /\ uxLength \in Length
    /\ ring \in [Slot -> Item] /\ data \in [Actor -> Item]
    /\ pcWriteTo \in Slot /\ pcReadFrom \in Slot
    /\ uxMessagesWaiting \in 0 .. uxLength
    /\ RingInv

\* A position after or before a place of the ring is one.
LEMMA Positions ==
    ASSUME uxLength \in Length, NEW slot \in Slot
    PROVE  /\ Up(slot) \in Slot /\ Down(slot) \in Slot
           /\ Up(slot) = slot + 1 \/ Up(slot) = slot + 1 - uxLength
           /\ Down(slot) = slot - 1 \/ Down(slot) = slot - 1 + uxLength
<1>1. uxLength \in Nat \ {0}
  BY QueueAssumption
<1> QED  BY <1>1 DEF Up, Down, Slot

\* prvCopyDataToQueue adds one message, or replaces the only one.
LEMMA Added ==
    ASSUME StorageInv, NEW item \in Item, NEW position \in Sends \cap Allowed,
           HasRoom(position), prvCopyDataToQueue(item, position)
    PROVE  /\ StorageInv' /\ UNCHANGED uxLength
           /\ \/ uxMessagesWaiting' = uxMessagesWaiting + 1
              \/ uxMessagesWaiting' = uxMessagesWaiting /\ uxMessagesWaiting = uxLength
<1>1. uxLength \in Nat \ {0}
  BY QueueAssumption DEF StorageInv
<1>2. position = "queueOVERWRITE" => uxLength = 1
  BY DEF Allowed
<1>3. UNCHANGED <<uxLength, data>> /\ Slot' = Slot
  BY DEF prvCopyDataToQueue, Slot
<1>4. /\ uxMessagesWaiting' \in 0 .. uxLength
      /\ \/ uxMessagesWaiting' = uxMessagesWaiting + 1
         \/ /\ position = "queueOVERWRITE"
            /\ uxMessagesWaiting' = uxMessagesWaiting /\ uxMessagesWaiting = uxLength
  BY <1>1, <1>2 DEF prvCopyDataToQueue, HasRoom, StorageInv
<1>5. CASE position = "queueSEND_TO_BACK"
  <2>1. /\ ring' = [ring EXCEPT ![pcWriteTo] = item]
        /\ pcWriteTo' = Up(pcWriteTo) /\ pcReadFrom' = pcReadFrom
    BY <1>5 DEF prvCopyDataToQueue
  <2>2. ring' \in [Slot -> Item] /\ pcWriteTo' \in Slot /\ pcReadFrom' \in Slot
    BY <2>1, Positions DEF StorageInv
  <2>3. uxMessagesWaiting' = uxMessagesWaiting + 1
    BY <1>4, <1>5
  <2>4. RingInv'
    <3>1. Up(pcWriteTo) = pcWriteTo + 1 \/ Up(pcWriteTo) = pcWriteTo + 1 - uxLength
      BY Positions, Zenon DEF StorageInv
    <3>2. /\ pcWriteTo \in 0 .. uxLength - 1 /\ pcReadFrom \in 0 .. uxLength - 1
          /\ uxMessagesWaiting \in 0 .. uxLength /\ uxMessagesWaiting + 1 <= uxLength
      BY <1>1, <1>4, <2>3 DEF StorageInv, Slot
    <3>3. UNCHANGED uxLength /\ RingInv
      BY <1>3 DEF StorageInv
    <3> QED  BY <1>1, <2>1, <2>3, <3>1, <3>2, <3>3 DEF RingInv
  <2> QED  BY <1>3, <1>4, <2>2, <2>4 DEF StorageInv
<1>6. CASE position # "queueSEND_TO_BACK"
  <2>1. /\ ring' = [ring EXCEPT ![pcReadFrom] = item]
        /\ pcReadFrom' = Down(pcReadFrom) /\ pcWriteTo' = pcWriteTo
    BY <1>6 DEF prvCopyDataToQueue
  <2>2. ring' \in [Slot -> Item] /\ pcWriteTo' \in Slot /\ pcReadFrom' \in Slot
    BY <2>1, Positions, Zenon DEF StorageInv
  <2>3. RingInv'
    <3>1. Down(pcReadFrom) = pcReadFrom - 1 \/ Down(pcReadFrom) = pcReadFrom - 1 + uxLength
      BY Positions, Zenon DEF StorageInv
    <3>2. /\ pcWriteTo \in 0 .. uxLength - 1 /\ pcReadFrom \in 0 .. uxLength - 1
          /\ uxMessagesWaiting \in 0 .. uxLength
          /\ \/ uxMessagesWaiting' = uxMessagesWaiting + 1 /\ uxMessagesWaiting + 1 <= uxLength
             \/ uxMessagesWaiting' = uxMessagesWaiting /\ uxLength = 1
      BY <1>1, <1>2, <1>4 DEF StorageInv, Slot
    <3>3. UNCHANGED uxLength /\ RingInv
      BY <1>3 DEF StorageInv
    <3> QED  BY <1>1, <2>1, <3>1, <3>2, <3>3 DEF RingInv
  <2> QED  BY <1>3, <1>4, <2>2, <2>3 DEF StorageInv
<1> QED  BY <1>3, <1>4, <1>5, <1>6

\* prvCopyDataFromQueue takes one message, unless it peeks.
LEMMA Removed ==
    ASSUME StorageInv, NEW a \in Actor, NEW operation, uxMessagesWaiting > 0,
           prvCopyDataFromQueue(a, operation)
    PROVE  /\ StorageInv' /\ UNCHANGED uxLength
           /\ uxMessagesWaiting' = IF operation = "xQueuePeek" THEN uxMessagesWaiting
                                   ELSE uxMessagesWaiting - 1
<1>1. uxLength \in Nat \ {0}
  BY QueueAssumption DEF StorageInv
<1>2. UNCHANGED <<uxLength, ring, pcWriteTo>> /\ Slot' = Slot
  BY DEF prvCopyDataFromQueue, Slot
<1>3. /\ Up(pcReadFrom) \in Slot
      /\ Up(pcReadFrom) = pcReadFrom + 1 \/ Up(pcReadFrom) = pcReadFrom + 1 - uxLength
  BY Positions DEF StorageInv
<1>4. data' \in [Actor -> Item]
  BY <1>3 DEF prvCopyDataFromQueue, StorageInv
<1>5. CASE operation = "xQueuePeek"
  <2>1. UNCHANGED <<pcReadFrom, uxMessagesWaiting>>
    BY <1>5 DEF prvCopyDataFromQueue
  <2> QED  BY <1>2, <1>4, <1>5, <2>1, Zenon DEF StorageInv, RingInv
<1>6. CASE operation # "xQueuePeek"
  <2>1. pcReadFrom' = Up(pcReadFrom) /\ uxMessagesWaiting' = uxMessagesWaiting - 1
    BY <1>6 DEF prvCopyDataFromQueue
  <2>2. uxMessagesWaiting' \in 0 .. uxLength
    BY <1>1, <2>1 DEF StorageInv
  <2>3. RingInv'
    <3>1. /\ pcWriteTo \in 0 .. uxLength - 1 /\ pcReadFrom \in 0 .. uxLength - 1
          /\ uxMessagesWaiting \in 1 .. uxLength
          /\ Up(pcReadFrom) \in 0 .. uxLength - 1
      BY <1>1, <1>3 DEF StorageInv, Slot
    <3>2. UNCHANGED <<uxLength, pcWriteTo>> /\ RingInv
      BY <1>2 DEF StorageInv
    <3> QED  BY <1>1, <1>3, <2>1, <3>1, <3>2 DEF RingInv
  <2> QED  BY <1>2, <1>3, <1>4, <1>6, <2>1, <2>2, <2>3, Zenon DEF StorageInv
<1> QED  BY <1>5, <1>6

-----------------------------------------------------------------------------
(* Types.                                                                  *)

\* What QueueTypeOK says of everything but the storage.
ControlOK ==
    /\ cRxLock \in -1 .. uxNumberOfTasks /\ cTxLock \in -1 .. uxNumberOfTasks
    /\ owner \in Task \cup {NoTask}
    /\ op \in [Task -> Allowed \cup {"none"}]
    /\ xTicksToWait \in [Task -> Ticks]
    /\ elapsed \subseteq Task
    /\ pc \in [Task -> Places]
    /\ xTasksWaitingToSend \subseteq {t \in Task : op[t] \in Sends}
    /\ xTasksWaitingToReceive \subseteq {t \in Task : op[t] \in Receives}
    /\ xPendingReadyList \subseteq Task

\* The two halves of the type invariant.
LEMMA TypeSplit == QueueTypeOK /\ RingInv <=> StorageInv /\ ControlOK
BY Zenon DEF QueueTypeOK, StorageInv, ControlOK

\* A step that leaves the storage alone.
LEMMA StorageKept == StorageInv /\ UNCHANGED storage => StorageInv' /\ Allowed' = Allowed
BY DEF StorageInv, storage, queue, RingInv, Slot, Allowed

\* The storage after a step.
LEMMA StorageStep == StorageInv /\ ControlOK /\ Next => StorageInv' /\ UNCHANGED uxLength
<1> SUFFICES ASSUME StorageInv, ControlOK, Next PROVE StorageInv' /\ UNCHANGED uxLength
  OBVIOUS
<1>1. ASSUME UNCHANGED storage PROVE StorageInv' /\ UNCHANGED uxLength
  BY <1>1, StorageKept DEF storage, queue
<1>2. ASSUME UNCHANGED queue, data' \in [Actor -> Item] PROVE StorageInv' /\ UNCHANGED uxLength
  BY <1>2, Zenon DEF StorageInv, queue, RingInv, Slot
<1>3. ASSUME NEW t \in Task, Send(t) PROVE StorageInv' /\ UNCHANGED uxLength
  <2>1. data[t] \in Item /\ op[t] \in Sends \cap Allowed
    BY <1>3, Zenon DEF StorageInv, ControlOK, Actor, Send, Sends
  <2> QED  BY <1>3, <2>1, Added, Zenon DEF Send
<1>4. ASSUME NEW t \in Task, Receive(t) PROVE StorageInv' /\ UNCHANGED uxLength
  BY <1>4, Removed DEF Receive, Actor
<1>5. ASSUME NEW t \in Task, NEW o, NEW w, Call(t, o, w) PROVE StorageInv' /\ UNCHANGED uxLength
  <2>1. data' \in [Actor -> Item]
    <3>1. CASE o \in Sends
      <4>1. PICK item \in Item : data' = [data EXCEPT ![t] = item]
        BY <1>5, <3>1 DEF Call
      <4> QED  BY <4>1, Zenon DEF StorageInv
    <3>2. CASE o \notin Sends
      BY <1>5, <3>2, Zenon DEF Call, StorageInv
    <3> QED  BY <3>1, <3>2
  <2> QED  BY <1>2, <1>5, <2>1 DEF Call
<1>6. ASSUME Interrupt PROVE StorageInv' /\ UNCHANGED uxLength
  <2>1. CASE IsrPrepares
    <3>1. PICK item \in Item : data' = [data EXCEPT ![Isr] = item]
      BY <2>1, Zenon DEF IsrPrepares
    <3>2. data' \in [Actor -> Item]
      BY <3>1, Zenon DEF StorageInv
    <3> QED  BY <1>2, <2>1, <3>2 DEF IsrPrepares
  <2>2. ASSUME NEW position \in Sends \cap Allowed, xQueueGenericSendFromISR(position)
        PROVE  StorageInv' /\ UNCHANGED uxLength
    <3>1. data[Isr] \in Item
      BY DEF StorageInv, Actor
    <3> QED  BY <2>2, <3>1, Added, Zenon DEF xQueueGenericSendFromISR
  <2>3. CASE xQueueReceiveFromISR
    BY <2>3, Removed DEF xQueueReceiveFromISR, Actor
  <2> QED  BY <1>6, <2>1, <2>2, <2>3 DEF Interrupt
<1>7. ASSUME NEW t \in Task, Run(t) PROVE StorageInv' /\ UNCHANGED uxLength
  <2>1. Send(t) \/ Receive(t) \/ UNCHANGED storage
    BY <1>7, Zenon DEF Run, Fail, vTaskSuspendAll, prvLockQueue, xTaskCheckForTimeOut, Test,
                vTaskPlaceOnEventList, UnlockTx, UnlockRx, xTaskResumeAll, Recheck
  <2> QED  BY <1>1, <1>3, <1>4, <2>1
<1>8. ASSUME NEW t \in Task, Elapse(t) PROVE StorageInv' /\ UNCHANGED uxLength
  BY <1>1, <1>8 DEF Elapse
<1> QED  BY <1>5, <1>6, <1>7, <1>8 DEF Next

-----------------------------------------------------------------------------
(* Who is where.                                                           *)

ControlInv == ControlOK /\ OwnerInv /\ ListInv

\* Only a task on its way to sleep, or asleep, is in a list.
LEMMA Awake ==
    ASSUME ControlInv, NEW t \in Task, pc[t] \in {"idle", "enter", "try", "suspend", "recheck"}
    PROVE  t \notin Waiting \cup xPendingReadyList
BY DEF ControlInv, ListInv

\* A step of a task by itself keeps the control invariants.
LEMMA ControlRun ==
    ASSUME StorageInv, ControlInv, NEW t \in Task, Run(t), UNCHANGED uxLength
    PROVE  ControlInv'
<1> USE DEF ControlInv
<1>0. Allowed' = Allowed /\ uxNumberOfTasks \in Nat /\ NoTask \notin Task
  BY QueueAssumption DEF Allowed
<1>1. CASE Fail(t)
  <2>1. /\ owner = NoTask /\ pc[t] \in {"enter", "try"}
        /\ UNCHANGED <<cRxLock, cTxLock, xTasksWaitingToSend, xTasksWaitingToReceive, xPendingReadyList, owner>>
        /\ \/ /\ pc' = [pc EXCEPT ![t] = "idle"] /\ op' = [op EXCEPT ![t] = "none"]
              /\ xTicksToWait' = [xTicksToWait EXCEPT ![t] = "zero"]
              /\ elapsed' = elapsed \ {t}
           \/ /\ pc' = [pc EXCEPT ![t] = "suspend"] /\ xTicksToWait[t] # "zero"
              /\ UNCHANGED <<op, xTicksToWait, elapsed>>
    BY <1>1, Zenon DEF Fail, Trying, Return, locks, waiters, call
  <2>2. ControlOK'
    <3>1. t \notin Waiting
      BY <2>1, Awake, Zenon
    <3> QED  BY <1>0, <2>1, <3>1 DEF ControlOK, Places, Ticks, Waiting
  <2>3. OwnerInv'
    BY <1>0, <2>1 DEF OwnerInv, Held, TxHeld, RxHeld, queueUNLOCKED, ControlOK, Places, Ticks
  <2>4. ListInv'
    BY <1>0, <2>1 DEF ListInv, Waiting, OwnerInv, Held, TxHeld, RxHeld, queueUNLOCKED, ControlOK, Places, Ticks
  <2> QED  BY <2>2, <2>3, <2>4
<1>2. CASE vTaskSuspendAll(t)
  <2>1. /\ pc[t] = "suspend" /\ pc' = [pc EXCEPT ![t] = "lock"]
        /\ owner = NoTask /\ owner' = t /\ UNCHANGED <<cRxLock, cTxLock>>
        /\ UNCHANGED <<xTasksWaitingToSend, xTasksWaitingToReceive, xPendingReadyList, op, xTicksToWait, elapsed>>
    BY <1>2 DEF vTaskSuspendAll, locks, waiters, call
  <2>2. ControlOK'
    BY <1>0, <1>2, <2>1 DEF vTaskSuspendAll, ControlOK, Places, Ticks, locks, waiters, call, Sends, Receives
  <2>3. OwnerInv'
    BY <1>0, <2>1 DEF OwnerInv, Held, TxHeld, RxHeld, queueUNLOCKED, ControlOK, Places, Ticks
  <2>4. ListInv'
    BY <1>0, <2>1 DEF ListInv, Waiting, OwnerInv, Held, TxHeld, RxHeld, queueUNLOCKED, ControlOK, Places, Ticks
  <2> QED  BY <2>2, <2>3, <2>4
<1>3. CASE prvLockQueue(t)
  <2>1. /\ pc[t] = "lock" /\ pc' = [pc EXCEPT ![t] = "check"]
        /\ cRxLock' = Locked(cRxLock) /\ cTxLock' = Locked(cTxLock)
        /\ UNCHANGED <<xTasksWaitingToSend, xTasksWaitingToReceive, xPendingReadyList, owner, op, xTicksToWait, elapsed>>
    BY <1>3 DEF prvLockQueue, waiters, call
  <2>2. ControlOK'
    BY <1>0, <1>3, <2>1 DEF prvLockQueue, ControlOK, Places, Ticks, Locked, queueLOCKED_UNMODIFIED, queueUNLOCKED
  <2>3. OwnerInv'
    BY <1>0, <2>1 DEF OwnerInv, Held, TxHeld, RxHeld, queueUNLOCKED, ControlOK, Places, Ticks, Locked, queueLOCKED_UNMODIFIED
  <2>4. ListInv'
    BY <1>0, <2>1 DEF ListInv, Waiting, OwnerInv, Held, TxHeld, RxHeld, queueUNLOCKED, ControlOK, Places, Ticks
  <2> QED  BY <2>2, <2>3, <2>4
<1>4. CASE xTaskCheckForTimeOut(t)
  <2>1. /\ pc[t] = "check"
        /\ UNCHANGED <<cRxLock, cTxLock, xTasksWaitingToSend, xTasksWaitingToReceive, xPendingReadyList, owner, op, elapsed>>
        /\ \/ /\ pc' = [pc EXCEPT ![t] = "unlockTx"]
              /\ xTicksToWait' = [xTicksToWait EXCEPT ![t] = "zero"]
           \/ pc' = [pc EXCEPT ![t] = "test"] /\ UNCHANGED xTicksToWait
    BY <1>4, Zenon DEF xTaskCheckForTimeOut, locks, waiters
  <2>2. ControlOK'
    BY <1>0, <1>4, <2>1 DEF xTaskCheckForTimeOut, ControlOK, Places, Ticks
  <2>3. OwnerInv'
    BY <1>0, <2>1 DEF OwnerInv, Held, TxHeld, RxHeld, queueUNLOCKED, ControlOK, Places, Ticks
  <2>4. ListInv'
    BY <1>0, <2>1 DEF ListInv, Waiting, OwnerInv, Held, TxHeld, RxHeld, queueUNLOCKED, ControlOK, Places, Ticks
  <2> QED  BY <2>2, <2>3, <2>4
<1>5. CASE Test(t)
  <2>1. /\ pc[t] = "test"
        /\ UNCHANGED <<cRxLock, cTxLock, xTasksWaitingToSend, xTasksWaitingToReceive, xPendingReadyList, owner, op, xTicksToWait, elapsed>>
        /\ pc' = [pc EXCEPT ![t] = "place"] \/ pc' = [pc EXCEPT ![t] = "unlockTx"]
    BY <1>5, Zenon DEF Test, locks, waiters, call
  <2>2. ControlOK'
    BY <1>0, <1>5, <2>1, Zenon DEF Test, ControlOK, Places, Ticks
  <2>3. OwnerInv'
    BY <1>0, <2>1 DEF OwnerInv, Held, TxHeld, RxHeld, queueUNLOCKED, ControlOK, Places, Ticks
  <2>4. ListInv'
    BY <1>0, <2>1 DEF ListInv, Waiting, OwnerInv, Held, TxHeld, RxHeld, queueUNLOCKED, ControlOK, Places, Ticks
  <2> QED  BY <2>2, <2>3, <2>4
<1>6. CASE vTaskPlaceOnEventList(t)
  <2>1. /\ pc[t] = "place" /\ pc' = [pc EXCEPT ![t] = "unlockTx"]
        /\ UNCHANGED <<cRxLock, cTxLock, xPendingReadyList, owner, op, xTicksToWait, elapsed>>
        /\ Waiting' = Waiting \cup {t}
    BY <1>6 DEF vTaskPlaceOnEventList, locks, call, Waiting
  <2>2. ControlOK'
    BY <1>0, <1>6, <2>1 DEF vTaskPlaceOnEventList, ControlOK, Places, Ticks, OwnerInv, ListInv, locks, call, Sends, Receives, Allowed
  <2>3. OwnerInv'
    BY <1>0, <2>1 DEF OwnerInv, Held, TxHeld, RxHeld, queueUNLOCKED, ControlOK, Places, Ticks
  <2>4. ListInv'
    BY <1>0, <2>1 DEF ListInv, Waiting, OwnerInv, Held, TxHeld, RxHeld, queueUNLOCKED, ControlOK, Places, Ticks, Sends, Receives, Allowed
  <2> QED  BY <2>2, <2>3, <2>4
<1>7. ASSUME owner = NoTask, pc[t] \in {"enter", "try"}, Return(t), UNCHANGED <<locks, owner>>,
             NEW woken \in SUBSET Waiting,
             xTasksWaitingToReceive' = xTasksWaitingToReceive \ woken,
             xTasksWaitingToSend' = xTasksWaitingToSend \ woken,
             pc' \in [Task -> Places],
             \A r \in Task : pc'[r] = IF r \in woken THEN "try"
                                      ELSE [pc EXCEPT ![t] = "idle"][r],
             UNCHANGED xPendingReadyList
      PROVE  ControlInv'
  <2>1. /\ op' = [op EXCEPT ![t] = "none"]
        /\ xTicksToWait' = [xTicksToWait EXCEPT ![t] = "zero"]
        /\ elapsed' = elapsed \ {t}
        /\ UNCHANGED <<cRxLock, cTxLock, owner>>
    BY <1>7, Zenon DEF Return, locks
  <2>2. t \notin Waiting /\ t \notin woken /\ woken \subseteq Task
    BY <1>7, Awake, Zenon DEF ControlOK, Waiting
  <2>3. \A r \in Task : pc'[r] = IF r \in woken THEN "try" ELSE IF r = t THEN "idle" ELSE pc[r]
    BY <1>7, Zenon DEF ControlOK
  <2>4. ControlOK'
    BY <1>0, <1>7, <2>1, <2>2 DEF ControlOK, Ticks, Waiting
  <2>5. OwnerInv'
    BY <1>0, <1>7, <2>1, <2>2, <2>3 DEF OwnerInv, Held, TxHeld, RxHeld, queueUNLOCKED
  <2>6. ListInv'
    <3>1. Waiting' = Waiting \ woken
      BY <1>7 DEF Waiting
    <3>2. woken \cap xPendingReadyList = {} /\ xPendingReadyList = {}
      BY <1>7, Zenon DEF OwnerInv
    <3>3. \A r \in Waiting' : r \in Task /\ r # t /\ r \notin woken /\ r \in Waiting
      BY <2>2, <3>1, Zenon DEF ControlOK, Waiting
    <3>4. \A r \in Waiting' \cup xPendingReadyList' :
              /\ pc'[r] = "blocked" \/ pc'[r] \in {"unlockTx", "unlockRx", "resume"}
              /\ xTicksToWait'[r] # "zero"
      BY <1>7, <2>1, <2>3, <3>2, <3>3 DEF ListInv, ControlOK
    <3>5. \A r \in Task : pc'[r] = "blocked" => r \in Waiting' \cup xPendingReadyList'
      BY <1>7, <2>3, <3>1 DEF ListInv
    <3>6. \A r \in Task : op'[r] = "none" <=> pc'[r] = "idle"
      <4> SUFFICES ASSUME NEW r \in Task PROVE op'[r] = "none" <=> pc'[r] = "idle"
        OBVIOUS
      <4>1. CASE r \in woken
        <5>1. pc[r] # "idle" /\ r # t
          BY <2>2, <4>1 DEF ListInv
        <5> QED  BY <2>1, <2>3, <4>1, <5>1, Zenon DEF ListInv, ControlOK
      <4>2. CASE r \notin woken
        BY <2>1, <2>3, <4>2, Zenon DEF ListInv, ControlOK
      <4> QED  BY <4>1, <4>2
    <3>7. \A r \in Task : pc'[r] \in {"suspend", "lock", "check", "test", "place"}
                              => xTicksToWait'[r] # "zero"
      BY <2>1, <2>3 DEF ListInv, ControlOK
    <3>8. xPendingReadyList' \cap Waiting' = {}
      BY <1>7, <3>2
    <3> QED  BY <3>4, <3>5, <3>6, <3>7, <3>8, Zenon DEF ListInv
  <2> QED  BY <2>4, <2>5, <2>6
<1>8. QueueTypeOK /\ [pc EXCEPT ![t] = "idle"] \in [Task -> Places]
  BY Zenon DEF QueueTypeOK, ControlOK, StorageInv, Places
<1>9. ASSUME owner = NoTask, pc[t] \in {"enter", "try"}, Return(t), UNCHANGED <<locks, owner>>,
             \/ WakeReceiver([pc EXCEPT ![t] = "idle"])
             \/ WakeSender([pc EXCEPT ![t] = "idle"])
      PROVE  ControlInv'
  <2>1. CASE WakeReceiver([pc EXCEPT ![t] = "idle"])
    <3>1. PICK woken \in Heads(xTasksWaitingToReceive, 1) :
              /\ woken \subseteq xTasksWaitingToReceive
              /\ xTasksWaitingToReceive' = xTasksWaitingToReceive \ woken
              /\ xTasksWaitingToSend' = xTasksWaitingToSend
              /\ pc' \in [Task -> Places]
              /\ \A r \in Task : pc'[r] = IF owner = NoTask /\ r \in woken THEN "try"
                                          ELSE [pc EXCEPT ![t] = "idle"][r]
              /\ xPendingReadyList' = IF owner = NoTask THEN xPendingReadyList
                                      ELSE xPendingReadyList \cup woken
      BY <1>8, <2>1, ReceiverWoken, Zenon
    <3>2. xTasksWaitingToSend \cap woken = {}
      BY <3>1, Zenon DEF ControlOK, Sends, Receives
    <3>3. woken \in SUBSET Waiting /\ xTasksWaitingToSend' = xTasksWaitingToSend \ woken
      BY <3>1, <3>2 DEF Waiting
    <3> QED  BY <1>7, <1>9, <3>1, <3>3, Zenon
  <2>2. CASE WakeSender([pc EXCEPT ![t] = "idle"])
    <3>1. PICK woken \in Heads(xTasksWaitingToSend, 1) :
              /\ woken \subseteq xTasksWaitingToSend
              /\ xTasksWaitingToSend' = xTasksWaitingToSend \ woken
              /\ xTasksWaitingToReceive' = xTasksWaitingToReceive
              /\ pc' \in [Task -> Places]
              /\ \A r \in Task : pc'[r] = IF owner = NoTask /\ r \in woken THEN "try"
                                          ELSE [pc EXCEPT ![t] = "idle"][r]
              /\ xPendingReadyList' = IF owner = NoTask THEN xPendingReadyList
                                      ELSE xPendingReadyList \cup woken
      BY <1>8, <2>2, SenderWoken, Zenon
    <3>2. xTasksWaitingToReceive \cap woken = {}
      BY <3>1 DEF ControlOK, Sends, Receives
    <3>3. woken \in SUBSET Waiting /\ xTasksWaitingToReceive' = xTasksWaitingToReceive \ woken
      BY <3>1, <3>2 DEF Waiting
    <3> QED  BY <1>7, <1>9, <3>1, <3>3, Zenon
  <2> QED  BY <1>9, <2>1, <2>2
<1>10. CASE Send(t)
  BY <1>9, <1>10, Zenon DEF Send, Trying
<1>11. CASE Receive(t)
  BY <1>9, <1>11, Zenon DEF Receive, Trying, PeekWakes
<1>12. CASE UnlockTx(t)
  <2>1. /\ pc[t] = "unlockTx" /\ cTxLock' = queueUNLOCKED
        /\ UNCHANGED <<cRxLock, xTasksWaitingToSend, owner, op, xTicksToWait, elapsed>>
    BY <1>12 DEF UnlockTx, call
  <2>2. owner = t
    BY <2>1, Zenon DEF OwnerInv, Held
  <2>3. PICK woken \in SUBSET xTasksWaitingToReceive :
            /\ xTasksWaitingToReceive' = xTasksWaitingToReceive \ woken
            /\ MakeReady(woken, [pc EXCEPT ![t] = "unlockRx"])
    BY <1>12 DEF UnlockTx, Heads
  <2>4. /\ pc' = [pc EXCEPT ![t] = "unlockRx"]
        /\ xPendingReadyList' = xPendingReadyList \cup woken
    BY <1>0, <2>2, <2>3 DEF MakeReady
  <2>5. ControlOK'
    BY <1>0, <2>1, <2>3, <2>4 DEF ControlOK, Places, queueUNLOCKED
  <2>6. OwnerInv'
    BY <1>0, <2>1, <2>2, <2>4, Zenon DEF ControlOK, OwnerInv, Held, TxHeld, RxHeld, queueUNLOCKED
  <2>7. ListInv'
    <3>1. Waiting' = Waiting \ woken /\ woken \subseteq Waiting
      BY <2>1, <2>3, Zenon DEF ControlOK, Waiting, Sends, Receives
    <3> QED  BY <2>1, <2>2, <2>4, <3>1 DEF ControlOK, ListInv
  <2> QED  BY <2>5, <2>6, <2>7
<1>13. CASE UnlockRx(t)
  <2>1. /\ pc[t] = "unlockRx" /\ cRxLock' = queueUNLOCKED
        /\ UNCHANGED <<cTxLock, xTasksWaitingToReceive, owner, op, xTicksToWait, elapsed>>
    BY <1>13 DEF UnlockRx, call
  <2>2. owner = t
    BY <2>1, Zenon DEF OwnerInv, Held
  <2>3. PICK woken \in SUBSET xTasksWaitingToSend :
            /\ xTasksWaitingToSend' = xTasksWaitingToSend \ woken
            /\ MakeReady(woken, [pc EXCEPT ![t] = "resume"])
    BY <1>13 DEF UnlockRx, Heads
  <2>4. /\ pc' = [pc EXCEPT ![t] = "resume"]
        /\ xPendingReadyList' = xPendingReadyList \cup woken
    BY <1>0, <2>2, <2>3 DEF MakeReady
  <2>5. ControlOK'
    BY <1>0, <2>1, <2>3, <2>4 DEF ControlOK, Places, queueUNLOCKED
  <2>6. OwnerInv'
    BY <1>0, <2>1, <2>2, <2>4, Zenon DEF ControlOK, OwnerInv, Held, TxHeld, RxHeld, queueUNLOCKED
  <2>7. ListInv'
    <3>1. Waiting' = Waiting \ woken /\ woken \subseteq Waiting
      BY <2>1, <2>3, Zenon DEF ControlOK, Waiting, Sends, Receives
    <3> QED  BY <2>1, <2>2, <2>4, <3>1 DEF ControlOK, ListInv
  <2> QED  BY <2>5, <2>6, <2>7
<1>14. CASE xTaskResumeAll(t)
  <2>1. /\ pc[t] = "resume" /\ owner = t /\ owner' = NoTask /\ xPendingReadyList' = {}
        /\ UNCHANGED <<cRxLock, cTxLock, xTasksWaitingToSend, xTasksWaitingToReceive>>
    BY <1>14, Zenon DEF xTaskResumeAll, locks, OwnerInv, Held
  <2>2. /\ pc' \in [Task -> Places]
        /\ pc'[t] = Continuation(t)
        /\ \A r \in Task \ {t} : pc'[r] = IF r \in xPendingReadyList THEN "try" ELSE pc[r]
    BY <1>14, Zenon DEF xTaskResumeAll, ControlOK, Places, Continuation
  <2>3. /\ Continuation(t) \in {"blocked", "try", "idle", "recheck"}
        /\ Continuation(t) = "blocked" <=> t \in Waiting
        /\ Continuation(t) = "idle" => xTicksToWait[t] = "zero" /\ op[t] \in Sends
    BY Zenon DEF Continuation, Waiting
  <2>4. \/ /\ Continuation(t) = "idle" /\ op' = [op EXCEPT ![t] = "none"]
           /\ xTicksToWait' = [xTicksToWait EXCEPT ![t] = "zero"]
           /\ elapsed' = elapsed \ {t}
        \/ Continuation(t) # "idle" /\ UNCHANGED <<op, xTicksToWait, elapsed>>
    BY <1>14, Zenon DEF xTaskResumeAll, Return, call
  <2>5. ControlOK'
    BY <1>0, <2>1, <2>2, <2>3, <2>4 DEF ControlOK, Waiting, Ticks
  <2>6. OwnerInv'
    BY <1>0, <2>1, <2>2, <2>3 DEF ControlOK, OwnerInv, Held, TxHeld, RxHeld, queueUNLOCKED
  <2>7. ListInv'
    <3>1. Waiting' = Waiting /\ t \in Task
      BY <2>1 DEF Waiting
    <3>2. \A r \in Task \ {t} : pc[r] \notin Held
      BY <2>1, Zenon DEF OwnerInv
    <3>3. \A r \in Waiting : r \in Task /\ r \notin xPendingReadyList /\ xTicksToWait[r] # "zero"
      BY Zenon DEF ControlOK, Waiting, ListInv
    <3>4. \A r \in Waiting' : pc'[r] = "blocked" /\ xTicksToWait'[r] # "zero"
      <4> SUFFICES ASSUME NEW r \in Waiting
                   PROVE  pc'[r] = "blocked" /\ xTicksToWait'[r] # "zero"
        BY <3>1
      <4>1. CASE r = t
        BY <2>2, <2>3, <2>4, <3>3, <4>1, Zenon
      <4>2. CASE r # t
        BY <2>2, <2>4, <3>2, <3>3, <4>2 DEF ControlOK, ListInv, Held
      <4> QED  BY <4>1, <4>2
    <3>5. \A r \in Task : pc'[r] = "blocked" => r \in Waiting'
      BY <2>2, <2>3, <3>1 DEF ListInv
    <3>6. \A r \in Task : op'[r] = "none" <=> pc'[r] = "idle"
      <4> SUFFICES ASSUME NEW r \in Task PROVE op'[r] = "none" <=> pc'[r] = "idle"
        BY Zenon
      <4>1. CASE r = t
        BY <2>1, <2>2, <2>4, <4>1 DEF ListInv, ControlOK
      <4>2. CASE r # t /\ r \in xPendingReadyList
        <5>1. pc[r] # "idle"
          BY <4>2 DEF ListInv
        <5> QED  BY <2>2, <2>4, <4>2, <5>1, Zenon DEF ListInv, ControlOK
      <4>3. CASE r # t /\ r \notin xPendingReadyList
        BY <2>2, <2>4, <4>3 DEF ListInv, ControlOK
      <4> QED  BY <4>1, <4>2, <4>3
    <3>7. \A r \in Task : pc'[r] \in {"suspend", "lock", "check", "test", "place"}
                              => xTicksToWait'[r] # "zero"
      BY <2>2, <2>3, <2>4 DEF ListInv, ControlOK
    <3> QED  BY <2>1, <3>4, <3>5, <3>6, <3>7, Zenon DEF ListInv
  <2> QED  BY <2>5, <2>6, <2>7
<1>15. CASE Recheck(t)
  <2>1. /\ owner = NoTask /\ pc[t] = "recheck" /\ t \notin Waiting
        /\ UNCHANGED <<cRxLock, cTxLock, xTasksWaitingToSend, xTasksWaitingToReceive, xPendingReadyList, owner>>
        /\ \/ /\ pc' = [pc EXCEPT ![t] = "idle"] /\ op' = [op EXCEPT ![t] = "none"]
              /\ xTicksToWait' = [xTicksToWait EXCEPT ![t] = "zero"]
              /\ elapsed' = elapsed \ {t}
           \/ pc' = [pc EXCEPT ![t] = "try"] /\ UNCHANGED <<op, xTicksToWait, elapsed>>
    BY <1>15, Awake, Zenon DEF Recheck, Return, locks, waiters, call
  <2>2. ControlOK'
    BY <1>0, <2>1 DEF ControlOK, Places, Ticks, Waiting
  <2>3. OwnerInv'
    BY <1>0, <2>1 DEF OwnerInv, Held, TxHeld, RxHeld, queueUNLOCKED, ControlOK, Places, Ticks
  <2>4. ListInv'
    BY <1>0, <2>1 DEF ListInv, Waiting, OwnerInv, Held, TxHeld, RxHeld, queueUNLOCKED, ControlOK, Places, Ticks
  <2> QED  BY <2>2, <2>3, <2>4
<1> QED  BY <1>1, <1>2, <1>3, <1>4, <1>5, <1>6, <1>10, <1>11, <1>12, <1>13, <1>14, <1>15, Zenon DEF Run

\* What an interrupt's wake-up does to the control invariants.
LEMMA ControlWoken ==
    ASSUME ControlInv, NoTask \notin Task, Allowed' = Allowed,
           UNCHANGED <<cRxLock, cTxLock, owner, op, xTicksToWait, elapsed>>,
           NEW woken \in SUBSET Waiting,
           xTasksWaitingToReceive' = xTasksWaitingToReceive \ woken,
           xTasksWaitingToSend' = xTasksWaitingToSend \ woken,
           pc' \in [Task -> Places],
           \A r \in Task : pc'[r] = IF owner = NoTask /\ r \in woken THEN "try" ELSE pc[r],
           xPendingReadyList' = IF owner = NoTask THEN xPendingReadyList
                                ELSE xPendingReadyList \cup woken
    PROVE  ControlInv'
<1>1. Waiting' = Waiting \ woken /\ woken \subseteq Task /\ Waiting \subseteq Task
  BY Zenon DEF Waiting, ControlInv, ControlOK
<1>2. ControlOK'
  BY <1>1, Zenon DEF ControlInv, ControlOK
<1>3. owner = NoTask => \A r \in woken : pc[r] = "blocked" /\ op[r] # "none"
  BY <1>1 DEF ControlInv, ListInv, OwnerInv, Held
<1>4. OwnerInv'
  <2>1. \A r \in Task : pc'[r] \in Held <=> pc[r] \in Held
    BY <1>3 DEF Held
  <2>2. \A r \in Task : pc[r] \in Held => pc'[r] = pc[r]
    BY <1>3 DEF Held
  <2>3. owner # NoTask => pc'[owner] = pc[owner]
    BY Zenon DEF ControlInv, ControlOK
  <2>4. \A r \in Task : /\ pc'[r] \in TxHeld => pc[r] \in TxHeld
                        /\ pc'[r] \in RxHeld => pc[r] \in RxHeld
    BY Zenon DEF TxHeld, RxHeld
  <2> QED  BY <2>1, <2>3, <2>4, Zenon DEF ControlInv, OwnerInv, queueUNLOCKED
<1>5. ListInv'
  <2>1. CASE owner = NoTask
    <3>1. \A r \in Task : pc'[r] = IF r \in woken THEN "try" ELSE pc[r]
      BY <2>1
    <3>2. xPendingReadyList' = xPendingReadyList /\ xPendingReadyList = {}
      BY <2>1, Zenon DEF ControlInv, OwnerInv
    <3> QED  BY <1>1, <1>3, <2>1, <3>1, <3>2 DEF ControlInv, ListInv
  <2>2. CASE owner # NoTask
    <3>1. (\A r \in Task : pc'[r] = pc[r]) /\ xPendingReadyList' = xPendingReadyList \cup woken
      BY <2>2
    <3>2. xPendingReadyList \subseteq Task
      BY Zenon DEF ControlInv, ControlOK
    <3> QED  BY <1>1, <3>1, <3>2 DEF ControlInv, ListInv
  <2> QED  BY <2>1, <2>2
<1> QED  BY <1>2, <1>4, <1>5 DEF ControlInv

\* The other steps keep the control invariants: an interrupt, the passing of
\* time, and a new call.
LEMMA ControlStep ==
    ASSUME StorageInv, ControlInv, Next, UNCHANGED uxLength
    PROVE  ControlInv'
<1>0. /\ Allowed' = Allowed /\ uxNumberOfTasks \in Nat /\ NoTask \notin Task
      /\ QueueTypeOK /\ pc \in [Task -> Places]
  BY QueueAssumption, Zenon DEF Allowed, ControlInv, ControlOK, StorageInv, QueueTypeOK
<1>1. ASSUME NEW position, xQueueGenericSendFromISR(position) PROVE ControlInv'
  <2>1. UNCHANGED <<cRxLock, owner, op, xTicksToWait, elapsed>>
    BY <1>1 DEF xQueueGenericSendFromISR, call
  <2>2. CASE cTxLock = queueUNLOCKED
    <3>1. WakeReceiver(pc) /\ cTxLock' = cTxLock
      BY <1>1, <2>2 DEF xQueueGenericSendFromISR
    <3>2. PICK woken \in Heads(xTasksWaitingToReceive, 1) :
              /\ woken \subseteq xTasksWaitingToReceive
              /\ xTasksWaitingToReceive' = xTasksWaitingToReceive \ woken
              /\ xTasksWaitingToSend' = xTasksWaitingToSend
              /\ pc' \in [Task -> Places]
              /\ \A r \in Task : pc'[r] = IF owner = NoTask /\ r \in woken THEN "try" ELSE pc[r]
              /\ xPendingReadyList' = IF owner = NoTask THEN xPendingReadyList
                                      ELSE xPendingReadyList \cup woken
      BY <1>0, <3>1, ReceiverWoken, Zenon
    <3>3. xTasksWaitingToSend \cap woken = {}
      BY <3>2, Zenon DEF ControlInv, ControlOK, Sends, Receives
    <3>4. woken \in SUBSET Waiting /\ xTasksWaitingToSend' = xTasksWaitingToSend \ woken
      BY <3>2, <3>3 DEF Waiting
    <3> QED  BY <1>0, <2>1, <3>1, <3>2, <3>4, ControlWoken, Zenon
  <2>3. CASE cTxLock # queueUNLOCKED
    <3>1. cTxLock' = Incremented(cTxLock) /\ UNCHANGED <<xTasksWaitingToSend, xTasksWaitingToReceive, xPendingReadyList, pc>>
      BY <1>1, <2>3 DEF xQueueGenericSendFromISR, waiters
    <3>2. cTxLock' \in 0 .. uxNumberOfTasks
      BY <1>0, <2>3, <3>1 DEF ControlInv, ControlOK, Incremented, queueUNLOCKED
    <3>3. ControlOK'
      BY <1>0, <2>1, <3>1, <3>2 DEF ControlInv, ControlOK
    <3>4. OwnerInv'
      BY <2>1, <2>3, <3>1, <3>2 DEF ControlInv, OwnerInv, queueUNLOCKED
    <3>5. ListInv'
      BY <2>1, <3>1, Zenon DEF ControlInv, ListInv, Waiting
    <3> QED  BY <3>3, <3>4, <3>5 DEF ControlInv
  <2> QED  BY <2>2, <2>3
<1>2. ASSUME xQueueReceiveFromISR PROVE ControlInv'
  <2>1. UNCHANGED <<cTxLock, owner, op, xTicksToWait, elapsed>>
    BY <1>2 DEF xQueueReceiveFromISR, call
  <2>2. CASE cRxLock = queueUNLOCKED
    <3>1. WakeSender(pc) /\ cRxLock' = cRxLock
      BY <1>2, <2>2 DEF xQueueReceiveFromISR
    <3>2. PICK woken \in Heads(xTasksWaitingToSend, 1) :
              /\ woken \subseteq xTasksWaitingToSend
              /\ xTasksWaitingToSend' = xTasksWaitingToSend \ woken
              /\ xTasksWaitingToReceive' = xTasksWaitingToReceive
              /\ pc' \in [Task -> Places]
              /\ \A r \in Task : pc'[r] = IF owner = NoTask /\ r \in woken THEN "try" ELSE pc[r]
              /\ xPendingReadyList' = IF owner = NoTask THEN xPendingReadyList
                                      ELSE xPendingReadyList \cup woken
      BY <1>0, <3>1, SenderWoken, Zenon
    <3>3. xTasksWaitingToReceive \cap woken = {}
      BY <3>2, Zenon DEF ControlInv, ControlOK, Sends, Receives
    <3>4. woken \in SUBSET Waiting /\ xTasksWaitingToReceive' = xTasksWaitingToReceive \ woken
      BY <3>2, <3>3 DEF Waiting
    <3> QED  BY <1>0, <2>1, <3>1, <3>2, <3>4, ControlWoken, Zenon
  <2>3. CASE cRxLock # queueUNLOCKED
    <3>1. cRxLock' = Incremented(cRxLock) /\ UNCHANGED <<xTasksWaitingToSend, xTasksWaitingToReceive, xPendingReadyList, pc>>
      BY <1>2, <2>3 DEF xQueueReceiveFromISR, waiters
    <3>2. cRxLock' \in 0 .. uxNumberOfTasks
      BY <1>0, <2>3, <3>1 DEF ControlInv, ControlOK, Incremented, queueUNLOCKED
    <3>3. ControlOK'
      BY <1>0, <2>1, <3>1, <3>2 DEF ControlInv, ControlOK
    <3>4. OwnerInv'
      BY <2>1, <2>3, <3>1, <3>2 DEF ControlInv, OwnerInv, queueUNLOCKED
    <3>5. ListInv'
      BY <2>1, <3>1, Zenon DEF ControlInv, ListInv, Waiting
    <3> QED  BY <3>3, <3>4, <3>5 DEF ControlInv
  <2> QED  BY <2>2, <2>3
<1>3. ASSUME IsrPrepares PROVE ControlInv'
  <2>1. UNCHANGED <<cRxLock, cTxLock, xTasksWaitingToSend, xTasksWaitingToReceive,
                    xPendingReadyList, owner, pc, op, xTicksToWait, elapsed>>
    BY <1>3 DEF IsrPrepares, locks, waiters, call
  <2> QED  BY <1>0, <2>1, Zenon DEF ControlInv, ControlOK, OwnerInv, ListInv, Waiting
<1>4. ASSUME NEW t \in Task, Elapse(t) PROVE ControlInv'
  <2>1. /\ owner = NoTask /\ elapsed' = elapsed \cup {t}
        /\ xTasksWaitingToSend' = xTasksWaitingToSend \ {t}
        /\ xTasksWaitingToReceive' = xTasksWaitingToReceive \ {t}
        /\ pc' = IF pc[t] = "blocked" THEN [pc EXCEPT ![t] = "try"] ELSE pc
        /\ UNCHANGED <<cRxLock, cTxLock, xPendingReadyList, owner, op, xTicksToWait>>
    BY <1>4 DEF Elapse, locks, call
  <2>2. ControlOK'
    BY <1>0, <2>1, Zenon DEF ControlInv, ControlOK, Places
  <2>3. OwnerInv'
    BY <1>0, <2>1 DEF ControlInv, ControlOK, OwnerInv, Held, TxHeld, RxHeld, queueUNLOCKED
  <2>4. ListInv'
    <3>1. Waiting' = Waiting \ {t} /\ Waiting \subseteq Task /\ xPendingReadyList = {}
      BY <2>1, Zenon DEF Waiting, ControlInv, ControlOK, OwnerInv
    <3>2. CASE pc[t] = "blocked"
      BY <2>1, <3>1, <3>2 DEF ControlInv, ControlOK, ListInv
    <3>3. CASE pc[t] # "blocked"
      BY <2>1, <3>1, <3>3, Zenon DEF ControlInv, ControlOK, ListInv
    <3> QED  BY <3>2, <3>3
  <2> QED  BY <2>2, <2>3, <2>4 DEF ControlInv
<1>5. ASSUME NEW t \in Task, NEW operation \in Allowed, NEW ticks \in Ticks,
             Call(t, operation, ticks)
      PROVE  ControlInv'
  <2>1. /\ owner = NoTask /\ pc[t] = "idle" /\ pc' = [pc EXCEPT ![t] = "enter"]
        /\ op' = [op EXCEPT ![t] = operation]
        /\ xTicksToWait' = [xTicksToWait EXCEPT ![t] = ticks]
        /\ UNCHANGED <<cRxLock, cTxLock, xTasksWaitingToSend, xTasksWaitingToReceive,
                       xPendingReadyList, owner, elapsed>>
    BY <1>5, Zenon DEF Call, locks, waiters
  <2>2. t \notin Waiting \cup xPendingReadyList /\ operation # "none"
    BY <2>1, Awake DEF Allowed, Sends, Receives
  <2>3. ControlOK'
    BY <1>0, <2>1, <2>2, Zenon DEF ControlInv, ControlOK, Places, Waiting
  <2>4. OwnerInv'
    BY <1>0, <2>1, Zenon DEF ControlInv, ControlOK, OwnerInv, Held, TxHeld, RxHeld, queueUNLOCKED
  <2>5. ListInv'
    BY <2>1, <2>2 DEF ControlInv, ControlOK, ListInv, Waiting
  <2> QED  BY <2>3, <2>4, <2>5 DEF ControlInv
<1> QED  BY <1>1, <1>2, <1>3, <1>4, <1>5, ControlRun DEF Next, Interrupt

-----------------------------------------------------------------------------
(* Between the test and the sleep.                                         *)

\* The lock counts what interrupts do after the test.
LEMMA PlaceStep ==
    ASSUME StorageInv, ControlInv, PlaceInv, Next, StorageInv', ControlInv', UNCHANGED uxLength
    PROVE  PlaceInv'
<1>0. /\ uxLength \in Nat /\ uxMessagesWaiting \in Nat /\ uxMessagesWaiting' \in Nat
      /\ uxNumberOfTasks \in Nat /\ NoTask \notin Task
      /\ cRxLock \in Int /\ cTxLock \in Int
  BY QueueAssumption DEF StorageInv, ControlInv, ControlOK
<1> SUFFICES ASSUME NEW r \in Task, pc'[r] = "place"
             PROVE  IF op'[r] \in Sends
                    THEN uxLength - uxMessagesWaiting' <= cRxLock' \/ cRxLock' = uxNumberOfTasks
                    ELSE uxMessagesWaiting' <= cTxLock' \/ cTxLock' = uxNumberOfTasks
  BY DEF PlaceInv
<1>1. owner' = r
  BY Zenon DEF ControlInv, OwnerInv, Held
<1>2. ASSUME pc[r] = "place"
      PROVE  /\ cTxLock # queueUNLOCKED /\ cRxLock # queueUNLOCKED
             /\ cTxLock >= 0 /\ cRxLock >= 0
             /\ IF op[r] \in Sends
                THEN uxLength - uxMessagesWaiting <= cRxLock \/ cRxLock = uxNumberOfTasks
                ELSE uxMessagesWaiting <= cTxLock \/ cTxLock = uxNumberOfTasks
  BY <1>0, <1>2 DEF PlaceInv, ControlInv, ControlOK, OwnerInv, TxHeld, RxHeld, queueUNLOCKED
<1>3. ASSUME NEW t \in Task, Run(t)
      PROVE  t = r /\ Test(t) /\ MustWait(t)
  <2>0. pc \in [Task -> Places] /\ (pc[t] \in Held => owner = t)
    BY Zenon DEF ControlInv, ControlOK, OwnerInv
  <2>1. t = r => pc'[t] = "place"
    OBVIOUS
  <2>2. ~ (Send(t) \/ Receive(t) \/ Fail(t) \/ Recheck(t) \/ xTaskResumeAll(t))
    BY <1>0, <1>1, Zenon DEF Send, Receive, Fail, Trying, Recheck, xTaskResumeAll
  <2>3. ~ (vTaskSuspendAll(t) \/ prvLockQueue(t) \/ vTaskPlaceOnEventList(t))
    <3>1. ASSUME vTaskSuspendAll(t) PROVE FALSE
      <4>1. owner' = t /\ pc'[t] = "lock"
        BY <2>0, <3>1 DEF vTaskSuspendAll
      <4> QED  BY <1>1, <2>1, <4>1
    <3>2. ASSUME prvLockQueue(t) PROVE FALSE
      <4>1. owner' = t /\ pc'[t] = "check"
        BY <2>0, <3>2 DEF prvLockQueue, Held
      <4> QED  BY <1>1, <2>1, <4>1
    <3>3. ASSUME vTaskPlaceOnEventList(t) PROVE FALSE
      <4>1. owner' = t /\ pc'[t] = "unlockTx"
        BY <2>0, <3>3 DEF vTaskPlaceOnEventList, Held
      <4> QED  BY <1>1, <2>1, <4>1
    <3> QED  BY <3>1, <3>2, <3>3
  <2>4. ~ xTaskCheckForTimeOut(t)
    <3> SUFFICES ASSUME xTaskCheckForTimeOut(t) PROVE FALSE
      OBVIOUS
    <3>1. owner' = t /\ pc'[t] \in {"unlockTx", "test"}
      BY <2>0 DEF xTaskCheckForTimeOut, Held
    <3> QED  BY <1>1, <2>1, <3>1
  <2>5. ~ (UnlockTx(t) \/ UnlockRx(t))
    <3> SUFFICES ASSUME UnlockTx(t) \/ UnlockRx(t) PROVE FALSE
      OBVIOUS
    <3>1. owner' = owner /\ owner = t
      BY <2>0, Zenon DEF UnlockTx, UnlockRx, Held
    <3>2. pc' = [pc EXCEPT ![t] = "unlockRx"] \/ pc' = [pc EXCEPT ![t] = "resume"]
      BY <1>0, <3>1, Zenon DEF UnlockTx, UnlockRx, MakeReady
    <3>3. pc'[t] \in {"unlockRx", "resume"}
      BY <2>0, <3>2
    <3> QED  BY <1>1, <2>1, <3>1, <3>3
  <2>6. Test(t)
    BY <1>3, <2>2, <2>3, <2>4, <2>5, Zenon DEF Run
  <2>7. t = r /\ MustWait(t)
    <3>1. owner' = owner /\ owner = t
      BY <2>0, <2>6 DEF Test, Held
    <3>2. pc'[t] = IF MustWait(t) THEN "place" ELSE "unlockTx"
      BY <2>0, <2>6 DEF Test
    <3> QED  BY <1>1, <2>1, <3>1, <3>2
  <2> QED  BY <2>6, <2>7
<1>4. ASSUME NEW t \in Task, Run(t)
      PROVE  IF op'[r] \in Sends
             THEN uxLength - uxMessagesWaiting' <= cRxLock' \/ cRxLock' = uxNumberOfTasks
             ELSE uxMessagesWaiting' <= cTxLock' \/ cTxLock' = uxNumberOfTasks
  <2>1. /\ t = r /\ pc[r] = "test"
        /\ UNCHANGED <<uxMessagesWaiting, cRxLock, cTxLock, op>>
        /\ uxMessagesWaiting = IF op[r] \in Sends THEN uxLength ELSE 0
    BY <1>3, <1>4, Zenon DEF Test, MustWait, storage, queue, locks, call
  <2>2. cRxLock >= 0 /\ cTxLock >= 0
    BY <1>0, <2>1 DEF ControlInv, ControlOK, OwnerInv, TxHeld, RxHeld, queueUNLOCKED
  <2> QED  BY <1>0, <2>1, <2>2
<1>5. ASSUME NEW t \in Task, Elapse(t) PROVE FALSE
  BY <1>0, <1>1, <1>5, Zenon DEF Elapse
<1>6. ASSUME NEW t \in Task, NEW operation, NEW ticks, Call(t, operation, ticks) PROVE FALSE
  BY <1>0, <1>1, <1>6, Zenon DEF Call
<1>7. ASSUME Interrupt
      PROVE  IF op'[r] \in Sends
             THEN uxLength - uxMessagesWaiting' <= cRxLock' \/ cRxLock' = uxNumberOfTasks
             ELSE uxMessagesWaiting' <= cTxLock' \/ cTxLock' = uxNumberOfTasks
  <2>1. owner = r /\ op' = op
    BY <1>1, <1>7, Zenon DEF Interrupt, IsrPrepares, xQueueGenericSendFromISR, xQueueReceiveFromISR,
                      call
  <2>2. pc' = pc
    <3>1. ASSUME NEW list \in {xTasksWaitingToSend, xTasksWaitingToReceive}, NEW woken,
                 MakeReady(woken, pc)
          PROVE  pc' = pc
      BY <1>0, <2>1, <3>1 DEF MakeReady
    <3> QED  BY <1>7, <3>1, Zenon DEF Interrupt, IsrPrepares, xQueueGenericSendFromISR,
                 xQueueReceiveFromISR, WakeReceiver, WakeSender
  <2>3. CASE IsrPrepares
    BY <1>2, <2>1, <2>2, <2>3, Zenon DEF IsrPrepares, queue, locks
  <2>4. ASSUME NEW position \in Sends \cap Allowed, xQueueGenericSendFromISR(position)
        PROVE  IF op'[r] \in Sends
               THEN uxLength - uxMessagesWaiting' <= cRxLock' \/ cRxLock' = uxNumberOfTasks
               ELSE uxMessagesWaiting' <= cTxLock' \/ cTxLock' = uxNumberOfTasks
    <3>1. /\ uxMessagesWaiting <= uxMessagesWaiting' /\ uxMessagesWaiting' <= uxMessagesWaiting + 1
      <4>1. data[Isr] \in Item
        BY Zenon DEF StorageInv, Actor
      <4> QED  BY <1>0, <2>4, <4>1, Added DEF xQueueGenericSendFromISR
    <3>2. cRxLock' = cRxLock /\ cTxLock' = Incremented(cTxLock)
      BY <1>2, <2>2, <2>4, Zenon DEF xQueueGenericSendFromISR
    <3>3. cTxLock <= uxNumberOfTasks
      BY DEF ControlInv, ControlOK
    <3>4. CASE op[r] \in Sends
      <4>1. uxLength - uxMessagesWaiting <= cRxLock \/ cRxLock = uxNumberOfTasks
        BY <1>2, <2>2, <3>4
      <4>2. uxLength - uxMessagesWaiting' <= cRxLock' \/ cRxLock' = uxNumberOfTasks
        <5>1. \A l, m, n, c \in Int : m <= n /\ l - m <= c => l - n <= c
          OBVIOUS
        <5>2. uxLength \in Int /\ uxMessagesWaiting \in Int /\ uxMessagesWaiting' \in Int
          BY <1>0
        <5>3. CASE uxLength - uxMessagesWaiting <= cRxLock
          <6>1. uxLength - uxMessagesWaiting' <= cRxLock
            BY <1>0, <3>1, <5>1, <5>2, <5>3, Zenon
          <6> QED  BY <3>2, <6>1
        <5> QED  BY <3>2, <4>1, <5>3
      <4> QED  BY <2>1, <3>4, <4>2
    <3>5. CASE op[r] \notin Sends
      <4>1. uxMessagesWaiting <= cTxLock \/ cTxLock = uxNumberOfTasks
        BY <1>2, <2>2, <3>5
      <4>2. uxMessagesWaiting' <= cTxLock' \/ cTxLock' = uxNumberOfTasks
        BY <1>0, <3>1, <3>2, <3>3, <4>1 DEF Incremented
      <4> QED  BY <2>1, <3>5, <4>2
    <3> QED  BY <3>4, <3>5
  <2>5. CASE xQueueReceiveFromISR
    <3>1. uxMessagesWaiting' = uxMessagesWaiting - 1
      BY <2>5, Removed DEF xQueueReceiveFromISR, Actor
    <3>2. cTxLock' = cTxLock /\ cRxLock' = Incremented(cRxLock)
      BY <1>2, <2>2, <2>5, Zenon DEF xQueueReceiveFromISR
    <3>3. cRxLock <= uxNumberOfTasks
      BY DEF ControlInv, ControlOK
    <3> QED  BY <1>0, <1>2, <2>1, <2>2, <3>1, <3>2, <3>3 DEF Incremented
  <2> QED  BY <1>7, <2>3, <2>4, <2>5, Zenon DEF Interrupt
<1> QED  BY <1>4, <1>5, <1>6, <1>7, Zenon DEF Next

-----------------------------------------------------------------------------
(* The ring is a bounded sequence.                                         *)

\* The items in the queue form a sequence of the length that is counted.
ContentsInv ==
    /\ contents \in Seq(Item) /\ Len(contents) = uxMessagesWaiting
    /\ \A i \in 1 .. uxMessagesWaiting : Pos(i) \in Slot /\ contents[i] = ring[Pos(i)]

\* Places in the ring are items of a sequence.
LEMMA Contents == StorageInv => ContentsInv
<1> SUFFICES ASSUME StorageInv PROVE ContentsInv
  OBVIOUS
<1>1. uxLength \in Nat \ {0} /\ uxMessagesWaiting \in 0 .. uxLength /\ pcReadFrom \in 0 .. uxLength - 1
  BY QueueAssumption DEF StorageInv, Slot
<1>2. \A i \in 1 .. uxMessagesWaiting : Pos(i) \in Slot
  BY <1>1 DEF Pos, Slot
<1>3. contents = [i \in 1 .. uxMessagesWaiting |-> ring[Pos(i)]]
  BY DEF contents
<1>4. \A i \in 1 .. uxMessagesWaiting : ring[Pos(i)] \in Item
  BY <1>2 DEF StorageInv
<1>5. contents \in Seq(Item) /\ Len(contents) = uxMessagesWaiting
  BY <1>1, <1>3, <1>4
<1> QED  BY <1>2, <1>3, <1>5, Zenon DEF ContentsInv

\* The same after a step.
LEMMA ContentsNext == StorageInv' => ContentsInv'
BY Contents, PTL

\* What Pos says of the write position and of the ends of the queue.
LEMMA Ends ==
    ASSUME StorageInv
    PROVE  /\ uxMessagesWaiting < uxLength =>
                 /\ Pos(uxMessagesWaiting + 1) = pcWriteTo
                 /\ \A i \in 1 .. uxMessagesWaiting : Pos(i) # pcWriteTo /\ Pos(i) # pcReadFrom
           /\ Pos(1) = Up(pcReadFrom)
<1>1. /\ uxLength \in Nat \ {0} /\ uxMessagesWaiting \in 0 .. uxLength
      /\ pcReadFrom \in 0 .. uxLength - 1 /\ pcWriteTo \in 0 .. uxLength - 1
      /\ RingInv
  BY QueueAssumption DEF StorageInv, Slot
<1>2. Pos(1) = Up(pcReadFrom)
  BY <1>1 DEF Pos, Up
<1>3. ASSUME uxMessagesWaiting < uxLength PROVE Pos(uxMessagesWaiting + 1) = pcWriteTo
  <2>1. PICK n \in Nat : n = pcReadFrom + (uxMessagesWaiting + 1)
    BY <1>1
  <2>2. n = pcWriteTo \/ n = pcWriteTo + uxLength
    BY <1>1, <1>3, <2>1 DEF RingInv
  <2>3. Pos(uxMessagesWaiting + 1) = IF n >= uxLength THEN n - uxLength ELSE n
    BY <1>1, <2>1 DEF Pos
  <2> QED  BY <1>1, <2>1, <2>2, <2>3
<1>4. ASSUME uxMessagesWaiting < uxLength, NEW i \in 1 .. uxMessagesWaiting
      PROVE  Pos(i) # pcWriteTo /\ Pos(i) # pcReadFrom
  <2>1. Pos(i) # pcReadFrom
    BY <1>1, <1>4 DEF Pos
  <2>2. Pos(i) # pcWriteTo
    BY <1>1, <1>4 DEF Pos, RingInv
  <2> QED  BY <2>1, <2>2
<1> QED  BY <1>2, <1>3, <1>4

\* Two sequences of the same length and items.
LEMMA SeqEqual ==
    ASSUME NEW S, NEW s \in Seq(S), NEW r \in Seq(S), Len(s) = Len(r),
           \A i \in 1 .. Len(s) : s[i] = r[i]
    PROVE  s = r
OBVIOUS

\* A sequence without its first item.
LEMMA Behind ==
    ASSUME NEW S, NEW s \in Seq(S), s # <<>>
    PROVE  /\ Tail(s) \in Seq(S)
           /\ Len(Tail(s)) = Len(s) - 1
           /\ \A i \in 1 .. Len(s) - 1 : Tail(s)[i] = s[i + 1]
OBVIOUS

\* prvCopyDataToQueue is a send of the abstract queue.
LEMMA AddedFifo ==
    ASSUME StorageInv, StorageInv', NEW a \in Actor, NEW position \in Sends \cap Allowed,
           HasRoom(position), prvCopyDataToQueue(data[a], position)
    PROVE  /\ UNCHANGED uxLength
           /\ F!SendToBack(a) \/ F!SendToFront(a) \/ F!Overwrite(a)
<1>1. /\ uxLength \in Nat \ {0} /\ uxMessagesWaiting \in 0 .. uxLength
      /\ pcReadFrom \in 0 .. uxLength - 1 /\ pcWriteTo \in 0 .. uxLength - 1
      /\ data[a] \in Item
  BY QueueAssumption, Zenon DEF StorageInv, Slot
<1>2. /\ contents \in Seq(Item) /\ Len(contents) = uxMessagesWaiting
      /\ contents' \in Seq(Item) /\ Len(contents') = uxMessagesWaiting'
      /\ \A i \in 1 .. uxMessagesWaiting : Pos(i) \in Slot /\ contents[i] = ring[Pos(i)]
      /\ \A i \in 1 .. uxMessagesWaiting' : contents'[i] = ring'[Pos(i)']
  BY Contents, ContentsNext, Zenon DEF ContentsInv
<1>3. UNCHANGED <<uxLength, data>>
  BY DEF prvCopyDataToQueue
<1>4. CASE position = "queueSEND_TO_BACK"
  <2>1. /\ ring' = [ring EXCEPT ![pcWriteTo] = data[a]] /\ pcReadFrom' = pcReadFrom
        /\ uxMessagesWaiting' = uxMessagesWaiting + 1 /\ uxMessagesWaiting < uxLength
    BY <1>1, <1>4 DEF prvCopyDataToQueue, HasRoom
  <2>2. \A i \in Nat : Pos(i)' = Pos(i)
    BY <1>3, <2>1 DEF Pos
  <2>3. ASSUME NEW i \in 1 .. uxMessagesWaiting PROVE contents'[i] = contents[i]
    <3>1. Pos(i) # pcWriteTo /\ Pos(i) \in Slot
      BY <1>2, <2>1, Ends, Zenon
    <3>2. i \in Nat /\ i \in 1 .. uxMessagesWaiting'
      BY <1>1, <2>1
    <3>3. contents'[i] = ring'[Pos(i)]
      BY <1>2, <2>2, <3>2, Zenon
    <3>4. ring'[Pos(i)] = ring[Pos(i)]
      BY <1>1, <2>1, <3>1, Zenon DEF StorageInv
    <3> QED  BY <1>2, <3>3, <3>4, Zenon
  <2>4. contents'[uxMessagesWaiting + 1] = data[a]
    <3>1. Pos(uxMessagesWaiting + 1) = pcWriteTo
      BY <2>1, Ends
    <3>2. PICK n \in Nat : n = uxMessagesWaiting + 1 /\ n \in 1 .. uxMessagesWaiting'
      BY <1>1, <2>1
    <3>3. contents'[n] = ring'[Pos(n)]
      BY <1>2, <2>2, <3>2, Zenon
    <3>4. ring'[pcWriteTo] = data[a]
      BY <1>1, <2>1, Zenon DEF StorageInv, Slot
    <3> QED  BY <3>1, <3>2, <3>3, <3>4, Zenon
  <2>5. contents' = Append(contents, data[a])
    <3> DEFINE s == Append(contents, data[a])
    <3>1. s \in Seq(Item) /\ Len(s) = uxMessagesWaiting + 1
      BY <1>1, <1>2
    <3>2. \A i \in 1 .. uxMessagesWaiting + 1 : contents'[i] = s[i]
      BY <1>1, <1>2, <2>3, <2>4
    <3> QED  BY <1>2, <2>1, <3>1, <3>2, SeqEqual, Zenon
  <2> QED  BY <1>2, <1>3, <2>1, <2>5, Zenon DEF F!SendToBack
<1>5. CASE position # "queueSEND_TO_BACK" /\ uxMessagesWaiting' = uxMessagesWaiting + 1
                                          /\ uxMessagesWaiting < uxLength
  <2>1. ring' = [ring EXCEPT ![pcReadFrom] = data[a]] /\ pcReadFrom' = Down(pcReadFrom)
    BY <1>5 DEF prvCopyDataToQueue
  <2>2. Pos(1)' = pcReadFrom
    BY <1>1, <1>3, <2>1 DEF Pos, Down
  <2>3. ASSUME NEW i \in 1 .. uxMessagesWaiting PROVE Pos(i + 1)' = Pos(i)
    <3>1. i \in Nat /\ i < uxLength
      BY <1>1, <1>5
    <3>2. CASE pcReadFrom = 0
      BY <1>1, <1>3, <2>1, <3>1, <3>2 DEF Pos, Down
    <3>3. CASE pcReadFrom # 0
      BY <1>1, <1>3, <2>1, <3>1, <3>3 DEF Pos, Down
    <3> QED  BY <3>2, <3>3
  <2>4. contents'[1] = data[a]
    <3>1. contents'[1] = ring'[Pos(1)']
      BY <1>1, <1>2, <1>5
    <3>2. ring'[pcReadFrom] = data[a]
      BY <1>1, <2>1, Zenon DEF StorageInv, Slot
    <3> QED  BY <2>2, <3>1, <3>2, Zenon
  <2>5. ASSUME NEW i \in 1 .. uxMessagesWaiting PROVE contents'[i + 1] = contents[i]
    <3>1. Pos(i) # pcReadFrom /\ Pos(i) \in Slot
      BY <1>2, <1>5, Ends, Zenon
    <3>2. i + 1 \in 1 .. uxMessagesWaiting'
      BY <1>1, <1>5
    <3>3. PICK n \in 1 .. uxMessagesWaiting' : n = i + 1
      BY <3>2
    <3>4. contents'[n] = ring'[Pos(i)]
      BY <1>2, <2>3, <3>3, Zenon
    <3>5. ring'[Pos(i)] = ring[Pos(i)]
      BY <1>1, <2>1, <3>1, Zenon DEF StorageInv
    <3> QED  BY <1>2, <3>3, <3>4, <3>5, Zenon
  <2>6. contents' = <<data[a]>> \o contents
    <3>0. data[a] \in Item /\ contents \in Seq(Item) /\ Len(contents) = uxMessagesWaiting
      BY <1>1, <1>2, Zenon
    <3> DEFINE s == <<data[a]>> \o contents
    <3>a. s \in Seq(Item) /\ Len(s) = Len(contents) + 1
      BY <3>0
    <3>b. s[1] = data[a]
      BY <3>0
    <3>c. \A i \in 1 .. Len(contents) : s[i + 1] = contents[i]
      BY <3>0
    <3> HIDE DEF s
    <3>1. s \in Seq(Item) /\ Len(s) = uxMessagesWaiting + 1
      BY <3>0, <3>a
    <3>2. s[1] = data[a] /\ \A i \in 1 .. uxMessagesWaiting : s[i + 1] = contents[i]
      BY <3>0, <3>b, <3>c
    <3>3. ASSUME NEW j \in 1 .. uxMessagesWaiting + 1 PROVE contents'[j] = s[j]
      <4>1. CASE j = 1
        BY <2>4, <3>2, <4>1
      <4>2. CASE j # 1
        <5>1. j - 1 \in 1 .. uxMessagesWaiting /\ (j - 1) + 1 = j
          BY <1>1, <4>2
        <5> QED  BY <2>5, <3>2, <5>1, Zenon
      <4> QED  BY <4>1, <4>2, Zenon
    <3>4. contents' = s
      BY <1>2, <1>5, <3>1, <3>3, SeqEqual, Zenon
    <3> QED  BY <3>4 DEF s
  <2> QED  BY <1>2, <1>3, <1>5, <2>6, Zenon DEF F!SendToFront
<1>6. CASE position = "queueOVERWRITE" /\ uxMessagesWaiting' = uxMessagesWaiting
                                       /\ uxMessagesWaiting > 0
  <2>1. uxLength = 1 /\ uxMessagesWaiting = 1 /\ pcReadFrom = 0
    BY <1>1, <1>6 DEF Allowed
  <2>2. ring' = [ring EXCEPT ![pcReadFrom] = data[a]] /\ pcReadFrom' = 0
    BY <1>6, <2>1 DEF prvCopyDataToQueue, Down
  <2>3. Pos(1)' = 0
    BY <1>3, <2>1, <2>2, SMTT(30) DEF Pos
  <2>4. contents'[1] = data[a]
    <3>1. 1 \in 1 .. uxMessagesWaiting'
      BY <1>6, <2>1
    <3>2. contents'[1] = ring'[Pos(1)']
      BY <1>2, <3>1, Zenon
    <3>3. ring'[0] = data[a]
      BY <1>1, <2>1, <2>2, Zenon DEF StorageInv
    <3> QED  BY <2>3, <3>2, <3>3, Zenon
  <2>5. contents' = <<data[a]>>
    <3>1. <<data[a]>> \in Seq(Item) /\ Len(<<data[a]>>) = 1 /\ <<data[a]>>[1] = data[a]
      BY <1>1
    <3>2. contents' \in Seq(Item) /\ Len(contents') = 1
      BY <1>2, <1>6, <2>1, Zenon
    <3>3. \A i \in 1 .. 1 : contents'[i] = <<data[a]>>[i]
      BY <2>4, <3>1, SMTT(30)
    <3> QED  BY <3>1, <3>2, <3>3, SeqEqual, Zenon
  <2> QED  BY <1>3, <2>1, <2>5 DEF F!Overwrite
<1>7. \/ position # "queueOVERWRITE" /\ uxMessagesWaiting < uxLength
      \/ position = "queueOVERWRITE" /\ (uxMessagesWaiting > 0 \/ uxMessagesWaiting < uxLength)
  BY <1>1 DEF HasRoom
<1>8. uxMessagesWaiting' = IF position = "queueOVERWRITE" /\ uxMessagesWaiting > 0
                           THEN uxMessagesWaiting ELSE uxMessagesWaiting + 1
  BY DEF prvCopyDataToQueue
<1> QED  BY <1>3, <1>4, <1>5, <1>6, <1>7, <1>8, Zenon

\* prvCopyDataFromQueue is a receive or a peek of the abstract queue.
LEMMA RemovedFifo ==
    ASSUME StorageInv, StorageInv', NEW a \in Actor, NEW operation, uxMessagesWaiting > 0,
           prvCopyDataFromQueue(a, operation)
    PROVE  UNCHANGED uxLength /\ (F!Receive(a) \/ F!Peek(a))
<1>1. /\ uxLength \in Nat \ {0} /\ uxMessagesWaiting \in 1 .. uxLength
      /\ pcReadFrom \in 0 .. uxLength - 1
  BY QueueAssumption DEF StorageInv, Slot
<1>2. /\ contents \in Seq(Item) /\ Len(contents) = uxMessagesWaiting
      /\ contents' \in Seq(Item) /\ Len(contents') = uxMessagesWaiting'
      /\ \A i \in 1 .. uxMessagesWaiting : Pos(i) \in Slot /\ contents[i] = ring[Pos(i)]
      /\ \A i \in 1 .. uxMessagesWaiting' : contents'[i] = ring'[Pos(i)']
  BY Contents, ContentsNext, Zenon DEF ContentsInv
<1>3. /\ UNCHANGED <<uxLength, ring>>
      /\ data' = [data EXCEPT ![a] = ring[Up(pcReadFrom)]]
  BY DEF prvCopyDataFromQueue
<1>4. contents # <<>> /\ Head(contents) = ring[Up(pcReadFrom)]
  <2>1. contents[1] = ring[Up(pcReadFrom)]
    BY <1>1, <1>2, Ends
  <2> QED  BY <1>1, <1>2, <2>1
<1>5. CASE operation = "xQueuePeek"
  <2>1. UNCHANGED <<pcReadFrom, uxMessagesWaiting>>
    BY <1>5 DEF prvCopyDataFromQueue
  <2>2. contents' = contents
    BY <1>3, <2>1 DEF contents, Pos
  <2> QED  BY <1>3, <1>4, <2>2, Zenon DEF F!Peek
<1>6. CASE operation # "xQueuePeek"
  <2>1. pcReadFrom' = Up(pcReadFrom) /\ uxMessagesWaiting' = uxMessagesWaiting - 1
    BY <1>6 DEF prvCopyDataFromQueue
  <2>2. ASSUME NEW i \in 1 .. uxMessagesWaiting' PROVE contents'[i] = contents[i + 1]
    <3>1. i + 1 \in 1 .. uxMessagesWaiting /\ i \in Nat
      BY <1>1, <2>1
    <3>2. Pos(i)' = Pos(i + 1)
      BY <1>1, <1>3, <2>1, <3>1 DEF Pos, Up
    <3> QED  BY <1>2, <1>3, <3>1, <3>2, Zenon
  <2>3. contents' = Tail(contents)
    <3> DEFINE s == Tail(contents)
    <3>1. s \in Seq(Item) /\ Len(s) = uxMessagesWaiting - 1
      BY <1>2, <1>4, Behind, Zenon
    <3>2. \A i \in 1 .. uxMessagesWaiting - 1 : s[i] = contents[i + 1]
      BY <1>2, <1>4, Behind, Zenon
    <3> HIDE DEF s
    <3>3. contents' = s
      BY <1>2, <2>1, <2>2, <3>1, <3>2, SeqEqual
    <3> QED  BY <3>3 DEF s
  <2> QED  BY <1>3, <1>4, <2>3, Zenon DEF F!Receive
<1> QED  BY <1>3, <1>5, <1>6

\* Every step of the queue is a step of the bounded sequence, or none.
LEMMA StepRefines == Inv /\ Inv' /\ [Next]_vars => [F!Next]_<<uxLength, contents, data>>
<1> SUFFICES ASSUME Inv, Inv', [Next]_vars PROVE [F!Next]_<<uxLength, contents, data>>
  OBVIOUS
<1>1. StorageInv /\ StorageInv' /\ ControlOK
  BY Zenon DEF Inv, QueueTypeOK, StorageInv, ControlOK
<1>2. ASSUME UNCHANGED storage PROVE UNCHANGED <<uxLength, contents, data>>
  BY <1>2 DEF storage, queue, contents, Pos
<1>3. ASSUME NEW t \in Task, Send(t) PROVE F!Next
  <2>1. t \in Actor /\ op[t] \in Sends \cap Allowed
    BY <1>1, <1>3, Zenon DEF ControlOK, Actor, Send, Sends
  <2> QED  BY <1>1, <1>3, <2>1, AddedFifo, Zenon DEF Send, F!Next
<1>4. ASSUME NEW t \in Task, Receive(t) PROVE F!Next
  <2>1. t \in Actor
    BY DEF Actor
  <2> QED  BY <1>1, <1>4, <2>1, RemovedFifo, Zenon DEF Receive, F!Next
<1>5. ASSUME NEW t \in Task, NEW o, NEW w, Call(t, o, w)
      PROVE  F!Next \/ UNCHANGED <<uxLength, contents, data>>
  <2>1. UNCHANGED <<uxLength, contents>>
    BY <1>5, Zenon DEF Call, queue, contents, Pos
  <2>2. CASE o \in Sends
    <3>1. F!Prepare(t) /\ t \in Actor
      BY <1>5, <2>1, <2>2 DEF Call, F!Prepare, Actor
    <3> QED  BY <2>1, <3>1 DEF F!Next
  <2>3. CASE o \notin Sends
    BY <1>5, <2>1, <2>3, Zenon DEF Call
  <2> QED  BY <2>2, <2>3
<1>6. ASSUME Interrupt PROVE F!Next
  <2>0. Isr \in Actor
    BY DEF Actor
  <2>1. CASE IsrPrepares
    <3>1. UNCHANGED <<uxLength, contents>>
      BY <2>1 DEF IsrPrepares, queue, contents, Pos
    <3>2. F!Prepare(Isr)
      BY <2>1, <3>1, Zenon DEF IsrPrepares, F!Prepare
    <3> QED  BY <2>0, <3>1, <3>2 DEF F!Next
  <2>2. ASSUME NEW position \in Sends \cap Allowed, xQueueGenericSendFromISR(position)
        PROVE  F!Next
    BY <1>1, <2>0, <2>2, AddedFifo, Zenon DEF xQueueGenericSendFromISR, F!Next
  <2>3. CASE xQueueReceiveFromISR
    BY <1>1, <2>0, <2>3, RemovedFifo, Zenon DEF xQueueReceiveFromISR, F!Next
  <2> QED  BY <1>6, <2>1, <2>2, <2>3 DEF Interrupt
<1>7. ASSUME NEW t \in Task, Run(t) PROVE F!Next \/ UNCHANGED <<uxLength, contents, data>>
  <2>1. Send(t) \/ Receive(t) \/ UNCHANGED storage
    BY <1>7, Zenon DEF Run, Fail, vTaskSuspendAll, prvLockQueue, xTaskCheckForTimeOut, Test,
                vTaskPlaceOnEventList, UnlockTx, UnlockRx, xTaskResumeAll, Recheck
  <2> QED  BY <1>2, <1>3, <1>4, <2>1
<1>8. ASSUME NEW t \in Task, Elapse(t) PROVE UNCHANGED <<uxLength, contents, data>>
  BY <1>2, <1>8, Zenon DEF Elapse
<1>9. CASE UNCHANGED vars
  BY <1>2, <1>9 DEF vars
<1> QED  BY <1>5, <1>6, <1>7, <1>8, <1>9 DEF Next

-----------------------------------------------------------------------------
(* The calls about to try.                                                 *)

\* In terms of the lock alone.
LEMMA OwedIs ==
    ASSUME ControlInv
    PROVE  /\ Owed(cTxLock) = IF cTxLock = queueUNLOCKED THEN 0 ELSE cTxLock
           /\ Owed(cRxLock) = IF cRxLock = queueUNLOCKED THEN 0 ELSE cRxLock
           /\ Owed(cTxLock) \in Nat /\ Owed(cRxLock) \in Nat
BY QueueAssumption DEF ControlInv, ControlOK, OwnerInv, Owed, queueUNLOCKED

\* The sleepers are not about to try.
LEMMA AboutIs ==
    ASSUME ControlInv, NEW ops
    PROVE  /\ About(ops) \in SUBSET Task
           /\ About(ops) \cap Waiting = {}
           /\ xTasksWaitingToSend \in SUBSET Waiting
           /\ xTasksWaitingToReceive \in SUBSET Waiting
           /\ Waiting \in SUBSET Task
BY Zenon DEF About, ControlInv, ControlOK, ListInv, Waiting

\* Where a step of t leaves the program counter and the pending tasks.
LEMMA Moves ==
    ASSUME StorageInv, ControlInv, NEW t \in Task, Run(t)
    PROVE  /\ \A r \in Task \ {t} :
                 /\ op'[r] = op[r]
                 /\ pc[r] = "try" => pc'[r] = "try"
                 /\ r \in xPendingReadyList => r \in xPendingReadyList' \/ pc'[r] = "try"
           /\ t \in xPendingReadyList =>
                 op'[t] = op[t] /\ (t \in xPendingReadyList' \/ pc'[t] = "try")
<1>0. NoTask \notin Task /\ pc \in [Task -> Places] /\ op \in [Task -> Allowed \cup {"none"}]
  BY QueueAssumption, Zenon DEF ControlInv, ControlOK
<1>1. \A r \in Task \ {t} : op'[r] = op[r]
  BY <1>0, Zenon
     DEF Run, Send, Receive, Fail, vTaskSuspendAll, prvLockQueue, xTaskCheckForTimeOut, Test,
         vTaskPlaceOnEventList, UnlockTx, UnlockRx, xTaskResumeAll, Recheck, Return, call
<1>2. CASE \/ Fail(t) \/ vTaskSuspendAll(t) \/ prvLockQueue(t) \/ xTaskCheckForTimeOut(t)
           \/ Test(t) \/ vTaskPlaceOnEventList(t) \/ Recheck(t)
  <2>1. t \notin xPendingReadyList
    <3>1. pc[t] \in {"enter", "try", "suspend", "lock", "check", "test", "place", "recheck"}
      BY <1>2, Zenon DEF Fail, Trying, vTaskSuspendAll, prvLockQueue, xTaskCheckForTimeOut, Test,
                  vTaskPlaceOnEventList, Recheck
    <3> QED  BY <3>1, Zenon DEF ControlInv, ListInv
  <2>2. xPendingReadyList' = xPendingReadyList
    BY <1>2, Zenon DEF Fail, vTaskSuspendAll, prvLockQueue, xTaskCheckForTimeOut, Test,
                vTaskPlaceOnEventList, Recheck, waiters
  <2>3. \A r \in Task \ {t} : pc'[r] = pc[r]
    BY <1>0, <1>2, Zenon DEF Fail, vTaskSuspendAll, prvLockQueue, xTaskCheckForTimeOut, Test,
                vTaskPlaceOnEventList, Recheck
  <2> QED  BY <1>1, <2>1, <2>2, <2>3
<1>3. CASE UnlockTx(t) \/ UnlockRx(t)
  <2>1. owner = t /\ owner # NoTask /\ op' = op
    BY <1>0, <1>3, Zenon DEF UnlockTx, UnlockRx, ControlInv, OwnerInv, Held, call
  <2>2. ASSUME NEW woken, NEW where, MakeReady(woken, [pc EXCEPT ![t] = where])
        PROVE  /\ xPendingReadyList \subseteq xPendingReadyList'
               /\ \A r \in Task \ {t} : pc'[r] = pc[r]
    BY <1>0, <2>1, <2>2 DEF MakeReady
  <2>3. /\ xPendingReadyList \subseteq xPendingReadyList'
        /\ \A r \in Task \ {t} : pc'[r] = pc[r]
    BY <1>3, <2>2, Zenon DEF UnlockTx, UnlockRx
  <2> QED  BY <1>0, <2>1, <2>3
<1>4. CASE xTaskResumeAll(t)
  <2>1. \A r \in Task : pc'[r] = IF r = t THEN Continuation(t)
                                 ELSE IF r \in xPendingReadyList THEN "try" ELSE pc[r]
    BY <1>4 DEF xTaskResumeAll
  <2>2. ASSUME t \in xPendingReadyList PROVE Continuation(t) = "try" /\ op'[t] = op[t]
    <3>1. t \notin Waiting /\ xTicksToWait[t] # "zero"
      BY <2>2 DEF ControlInv, ListInv
    <3>2. Continuation(t) = "try"
      BY <3>1 DEF Continuation, Waiting
    <3> QED  BY <1>4, <3>2 DEF xTaskResumeAll, call
  <2> QED  BY <1>1, <2>1, <2>2
<1>5. CASE Send(t) \/ Receive(t)
  <2>1. xPendingReadyList = {} /\ owner = NoTask
    BY <1>5, Zenon DEF Send, Receive, Trying, ControlInv, OwnerInv
  <2>2. QueueTypeOK /\ [pc EXCEPT ![t] = "idle"] \in [Task -> Places]
    BY <1>0, Zenon DEF QueueTypeOK, ControlInv, ControlOK, StorageInv, Places
  <2>3. PICK woken : \A r \in Task : pc'[r] = IF r \in woken THEN "try"
                                              ELSE [pc EXCEPT ![t] = "idle"][r]
    <3>1. \/ WakeReceiver([pc EXCEPT ![t] = "idle"])
          \/ WakeSender([pc EXCEPT ![t] = "idle"])
      BY <1>5, Zenon DEF Send, Receive, PeekWakes
    <3>2. CASE WakeReceiver([pc EXCEPT ![t] = "idle"])
      BY <2>1, <2>2, <3>2, ReceiverWoken, Zenon
    <3>3. CASE WakeSender([pc EXCEPT ![t] = "idle"])
      BY <2>1, <2>2, <3>3, SenderWoken, Zenon
    <3> QED  BY <3>1, <3>2, <3>3
  <2> QED  BY <1>0, <1>1, <2>1, <2>3
<1> QED  BY <1>2, <1>3, <1>4, <1>5, Zenon DEF Run

\* A step of t leaves the other calls about to try as they are, and t too
\* unless it tries.
LEMMA AboutRun ==
    ASSUME StorageInv, ControlInv, NEW ops, NEW t \in Task, Run(t)
    PROVE  /\ About(ops) \ {t} \subseteq About(ops)'
           /\ pc[t] \notin {"enter", "try"} => About(ops) \subseteq About(ops)'
           /\ op[t] \notin ops => About(ops) \subseteq About(ops)'
BY Moves DEF About

\* The passing of time, a new call and an interrupt take no call from those
\* about to try.
LEMMA AboutOther ==
    ASSUME StorageInv, ControlInv, NEW ops \in {Sends, Receives},
           \/ Interrupt
           \/ \E t \in Task : Elapse(t)
           \/ \E t \in Task, operation \in Allowed, ticks \in Ticks : Call(t, operation, ticks)
    PROVE  About(ops) \subseteq About(ops)'
<1>0. pc \in [Task -> Places] /\ op \in [Task -> Allowed \cup {"none"}] /\ QueueTypeOK
  BY Zenon DEF ControlInv, ControlOK, QueueTypeOK, StorageInv
<1>1. ASSUME NEW t \in Task, Elapse(t) PROVE About(ops) \subseteq About(ops)'
  BY <1>0, <1>1, Zenon DEF Elapse, About, call
<1>2. ASSUME NEW t \in Task, NEW operation, NEW ticks, Call(t, operation, ticks)
      PROVE  About(ops) \subseteq About(ops)'
  <2>1. t \notin xPendingReadyList /\ pc[t] = "idle"
    BY <1>2, Awake, Zenon DEF Call
  <2> QED  BY <1>0, <1>2, <2>1 DEF Call, About, waiters
<1>3. ASSUME IsrPrepares PROVE About(ops) \subseteq About(ops)'
  BY <1>3, Zenon DEF IsrPrepares, About, waiters, call
<1>4. ASSUME UNCHANGED <<op, pc, waiters>> PROVE About(ops) \subseteq About(ops)'
  BY <1>4 DEF About, waiters
<1>5. ASSUME UNCHANGED op, WakeReceiver(pc) \/ WakeSender(pc)
      PROVE  About(ops) \subseteq About(ops)'
  <2>1. CASE WakeReceiver(pc)
    BY <1>0, <1>5, <2>1, ReceiverWoken DEF About
  <2>2. CASE WakeSender(pc)
    BY <1>0, <1>5, <2>2, SenderWoken, Zenon DEF About
  <2> QED  BY <1>5, <2>1, <2>2
<1>6. ASSUME NEW position, xQueueGenericSendFromISR(position)
      PROVE  About(ops) \subseteq About(ops)'
  BY <1>4, <1>5, <1>6, Zenon DEF xQueueGenericSendFromISR, call
<1>7. ASSUME xQueueReceiveFromISR PROVE About(ops) \subseteq About(ops)'
  BY <1>4, <1>5, <1>7 DEF xQueueReceiveFromISR, call
<1> QED  BY <1>1, <1>2, <1>3, <1>6, <1>7 DEF Interrupt
=============================================================================
