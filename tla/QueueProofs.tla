----------------------------- MODULE QueueProofs -----------------------------
(***************************************************************************)
(* Queue serves every sleeper and is a bounded sequence, for every finite   *)
(* set of tasks, every length of the queue and every set of items.         *)
(***************************************************************************)
EXTENDS QueueControl, FiniteSetTheorems

-----------------------------------------------------------------------------
(* How the count of a waiting list changes.                                *)

\* Cardinalities of sets of tasks, which are finite.
LEMMA Counts ==
    ASSUME NEW S \in SUBSET Task
    PROVE  /\ IsFiniteSet(S)
           /\ Cardinality(S) \in Nat
           /\ Cardinality(S) <= uxNumberOfTasks
           /\ Cardinality(S) = 0 <=> S = {}
           /\ \A R \in SUBSET S : Cardinality(R) <= Cardinality(S)
           /\ \A t : Cardinality(S \ {t}) \in Nat /\ Cardinality(S) <= Cardinality(S \ {t}) + 1
<1>1. IsFiniteSet(Task) /\ Cardinality(Task) <= uxNumberOfTasks /\ uxNumberOfTasks \in Nat
  BY QueueAssumption
<1>2. IsFiniteSet(S) /\ Cardinality(S) <= Cardinality(Task)
  BY <1>1, FS_Subset
<1>3. Cardinality(S) \in Nat /\ Cardinality(Task) \in Nat
  BY <1>1, <1>2, FS_CardinalityType
<1>4. Cardinality(S) = 0 <=> S = {}
  BY <1>2, FS_EmptySet
<1>5. \A R \in SUBSET S : Cardinality(R) <= Cardinality(S)
  BY <1>2, FS_Subset
<1>6. ASSUME NEW t
      PROVE  Cardinality(S \ {t}) \in Nat /\ Cardinality(S) <= Cardinality(S \ {t}) + 1
  <2>1. IsFiniteSet(S \ {t})
        /\ Cardinality(S \ {t}) = IF t \in S THEN Cardinality(S)-1 ELSE Cardinality(S)
    BY <1>2, FS_RemoveElement
  <2>2. Cardinality(S \ {t}) \in Nat
    BY <2>1, FS_CardinalityType
  <2> QED  BY <1>3, <2>1, <2>2
<1>7. Cardinality(S) <= uxNumberOfTasks
  BY <1>1, <1>2, <1>3
<1> QED  BY <1>2, <1>3, <1>4, <1>5, <1>6, <1>7, Zenon

\* Two disjoint sets of tasks.
LEMMA CountUnion ==
    ASSUME NEW S \in SUBSET Task, NEW R \in SUBSET Task, S \cap R = {}
    PROVE  Cardinality(S \cup R) = Cardinality(S) + Cardinality(R)
<1>1. IsFiniteSet(S) /\ IsFiniteSet(R) /\ Cardinality(S) \in Nat /\ Cardinality(R) \in Nat
  BY Counts
<1>2. Cardinality(S \cup R) = Cardinality(S) + Cardinality(R) - Cardinality(S \cap R)
  BY <1>1, FS_Union
<1>3. Cardinality(S \cap R) = 0
  BY FS_EmptySet
<1> QED  BY <1>1, <1>2, <1>3

\* Fewer sleepers, items or wake-ups owed to others never leave one unserved.
LEMMA ServedEasier ==
    ASSUME NEW W \in SUBSET Task, NEW W2 \in SUBSET W,
           NEW A2 \in SUBSET Task, NEW A \in SUBSET A2,
           NEW m \in Int, NEW m2 \in Int, m2 <= m,
           NEW o \in Nat, Served(W, m, A, o)
    PROVE  Served(W2, m2, A2, o)
<1>1. /\ Cardinality(A) <= Cardinality(A2) /\ Cardinality(W2) <= Cardinality(W)
      /\ Cardinality(A) \in Nat /\ Cardinality(A2) \in Nat
      /\ Cardinality(W) \in Nat /\ Cardinality(W2) \in Nat
  BY Counts
<1> QED  BY <1>1 DEF Served

\* Nothing to serve.
LEMMA ServedNone ==
    ASSUME NEW W, NEW A \in SUBSET Task, NEW m \in Int, m <= 0, NEW o \in Nat
    PROVE  Served(W, m, A, o)
BY Counts DEF Served

\* A call takes an item and is no longer about to.
LEMMA ServedTaken ==
    ASSUME NEW W \in SUBSET Task, NEW A \in SUBSET Task, NEW t,
           NEW A2 \in SUBSET Task, A \ {t} \subseteq A2,
           NEW m \in Int, Served(W, m, A, 0)
    PROVE  Served(W, m - 1, A2, 0)
<1>1. /\ Cardinality(A) <= Cardinality(A \ {t}) + 1
      /\ Cardinality(A) \in Nat /\ Cardinality(A \ {t}) \in Nat /\ Cardinality(A2) \in Nat
      /\ Cardinality(A \ {t}) <= Cardinality(A2)
  BY Counts, Zenon
<1> QED  BY <1>1 DEF Served


\* Of W, n sleepers are woken, for the wake-ups owed or for n new items.
LEMMA ServedWoken ==
    ASSUME NEW W \in SUBSET Task, NEW A \in SUBSET Task, W \cap A = {},
           NEW n \in Nat, NEW o \in {0, n}, NEW woken \in Heads(W, n),
           NEW A2 \in SUBSET Task, A \cup woken \subseteq A2,
           NEW m \in Int, NEW m2 \in Int, m2 + o <= m + n,
           Served(W, m, A, o)
    PROVE  Served(W \ woken, m2, A2, 0)
<1> DEFINE k == Cardinality(woken)
<1>1. woken \in SUBSET W /\ k = Least(n, Cardinality(W))
  BY DEF Heads
<1>2. /\ Cardinality(W) \in Nat /\ k \in Nat
      /\ Cardinality(A) \in Nat /\ Cardinality(A2) \in Nat
      /\ Cardinality(W) = 0 <=> W = {}
  BY <1>1, Counts, Zenon
<1>3. Cardinality(A) + k <= Cardinality(A2)
  <2>1. Cardinality(A \cup woken) = Cardinality(A) + k
    BY <1>1, CountUnion
  <2> QED  BY <2>1, Counts
<1>4. SUFFICES ASSUME W \ woken # {}
               PROVE  m2 <= Cardinality(A2) + 0
  BY DEF Served
<1>5. k # Cardinality(W)
  <2>1. IsFiniteSet(W)
    BY Counts
  <2> QED  BY <1>1, <1>4, <2>1, FS_Subset
<1>6. k = n /\ n < Cardinality(W)
  BY <1>1, <1>2, <1>5 DEF Least
<1>7. m <= Cardinality(A) + o
  BY <1>2, <1>6 DEF Served
<1> QED
  <2>1. CASE o = 0  BY <2>1, <1>2, <1>3, <1>6, <1>7
  <2>2. CASE o = n  BY <2>2, <1>2, <1>3, <1>6, <1>7
  <2> QED  BY <2>1, <2>2

\* One more item, and one more wake-up owed unless all are.
LEMMA ServedOwed ==
    ASSUME NEW W \in SUBSET Task, NEW A \in SUBSET Task,
           NEW m \in Int, NEW m2 \in Int, m2 <= m + 1,
           NEW o \in Nat, Served(W, m, A, o)
    PROVE  Served(W, m2, A, Incremented(o))
<1>1. /\ Cardinality(W) \in Nat /\ Cardinality(A) \in Nat
      /\ Cardinality(W) <= uxNumberOfTasks /\ uxNumberOfTasks \in Nat
  BY Counts, QueueAssumption
<1> QED  BY <1>1 DEF Served, Incremented

-----------------------------------------------------------------------------
(* Every sleeper is served.                                                *)

\* No step leaves a receiver unserved.
LEMMA ReceiverStep ==
    ASSUME StorageInv, ControlInv, PlaceInv, NoReceiverLeft, Next,
           StorageInv', ControlInv', UNCHANGED uxLength
    PROVE  NoReceiverLeft'
<1> DEFINE A == About(Receives)
           W == xTasksWaitingToReceive
           m == uxMessagesWaiting
           o == Owed(cTxLock)
<1>0. /\ A \in SUBSET Task /\ A' \in SUBSET Task /\ W \in SUBSET Task /\ W' \in SUBSET Task
      /\ W \cap A = {}
      /\ m \in Int /\ m' \in Int
      /\ o \in Nat /\ o' \in Nat
      /\ o = IF cTxLock = queueUNLOCKED THEN 0 ELSE cTxLock
      /\ o' = IF cTxLock' = queueUNLOCKED THEN 0 ELSE cTxLock'
      /\ NoTask \notin Task /\ pc \in [Task -> Places] /\ op \in [Task -> Allowed \cup {"none"}]
      /\ QueueTypeOK
  <2>1. m \in Int /\ m' \in Int
    BY QueueAssumption DEF StorageInv
  <2>2. W \in SUBSET Task /\ W' \in SUBSET Task /\ W \cap A = {} /\ A \in SUBSET Task
        /\ A' \in SUBSET Task
    BY AboutIs, Zenon DEF ControlInv, ControlOK, About
  <2>3. /\ o \in Nat /\ o' \in Nat
        /\ o = IF cTxLock = queueUNLOCKED THEN 0 ELSE cTxLock
        /\ o' = IF cTxLock' = queueUNLOCKED THEN 0 ELSE cTxLock'
    <3>1. o \in Nat /\ o = IF cTxLock = queueUNLOCKED THEN 0 ELSE cTxLock
      BY OwedIs
    <3>2. o' \in Nat /\ o' = IF cTxLock' = queueUNLOCKED THEN 0 ELSE cTxLock'
      BY QueueAssumption DEF ControlInv, ControlOK, OwnerInv, Owed, queueUNLOCKED
    <3> QED  BY <3>1, <3>2
  <2> QED  BY <2>1, <2>2, <2>3, QueueAssumption, Zenon DEF ControlInv, ControlOK, QueueTypeOK, StorageInv
<1>1. Served(W, m, A, o)
  BY DEF NoReceiverLeft
<1>2. SUFFICES Served(W', m', A', o')
  BY DEF NoReceiverLeft
<1> HIDE DEF A, W, m, o
<1>3. ASSUME W' \subseteq W, A \subseteq A', m' <= m, o' = o PROVE Served(W', m', A', o')
  BY <1>0, <1>1, <1>3, ServedEasier
<1>4. ASSUME m' <= 0 PROVE Served(W', m', A', o')
  BY <1>0, <1>4, ServedNone
<1>5. ASSUME NEW t \in Task, Send(t) PROVE Served(W', m', A', o')
  <2>1. /\ owner = NoTask /\ op[t] \in Sends /\ WakeReceiver([pc EXCEPT ![t] = "idle"])
        /\ cTxLock' = cTxLock /\ owner' = NoTask
    BY <1>5 DEF Send, Trying, locks
  <2>2. o = 0 /\ o' = 0
    BY <1>0, <2>1, Zenon DEF ControlInv, OwnerInv
  <2>3. m' <= m + 1
    <3>1. data[t] \in Item /\ op[t] \in Sends \cap Allowed
      BY <1>0, <2>1, Zenon DEF StorageInv, Actor, Sends
    <3> QED  BY <1>0, <1>5, <3>1, Added DEF Send, m
  <2>4. PICK woken \in Heads(W, 1) :
            /\ woken \subseteq W /\ W' = W \ woken
            /\ \A r \in Task : pc'[r] = IF r \in woken THEN "try" ELSE [pc EXCEPT ![t] = "idle"][r]
    <3>1. [pc EXCEPT ![t] = "idle"] \in [Task -> Places]
      BY <1>0 DEF Places
    <3> QED  BY <1>0, <2>1, <3>1, ReceiverWoken, Zenon DEF W
  <2>5. A \cup woken \subseteq A'
    <3>1. A \subseteq A'
      BY <1>5, <2>1, AboutRun, Zenon DEF Run, A, Sends, Receives
    <3>2. ASSUME NEW r \in woken PROVE r \in A'
      <4>1. op[r] \in Receives /\ r \in Task /\ r # t
        BY <2>1, <2>4, Zenon DEF W, ControlInv, ControlOK, Sends, Receives
      <4>2. op'[r] = op[r]
        BY <1>0, <1>5, <4>1, Zenon DEF Send, Return
      <4> QED  BY <2>4, <4>1, <4>2 DEF A, About
    <3> QED  BY <3>1, <3>2
  <2> QED  BY <1>0, <1>1, <2>2, <2>3, <2>4, <2>5, ServedWoken
<1>6. ASSUME NEW t \in Task, Receive(t) PROVE Served(W', m', A', o')
  <2>1. /\ owner = NoTask /\ op[t] \in Receives /\ uxMessagesWaiting > 0
        /\ cTxLock' = cTxLock /\ owner' = NoTask
    BY <1>6 DEF Receive, Trying, locks
  <2>2. o = 0 /\ o' = 0
    BY <1>0, <2>1, Zenon DEF ControlInv, OwnerInv
  <2>3. m' = IF op[t] = "xQueuePeek" THEN m ELSE m - 1
    BY <1>6, <2>1, Removed, Zenon DEF Receive, Actor, m
  <2>4. A \ {t} \subseteq A'
    BY <1>6, AboutRun, Zenon DEF Run, A
  <2>5. Served(W, m - 1, A \ {t}, 0)
    BY <1>0, <1>1, <2>2, ServedTaken, Zenon
  <2>6. [pc EXCEPT ![t] = "idle"] \in [Task -> Places]
    BY <1>0 DEF Places
  <2>7. CASE op[t] = "xQueuePeek"
    <3>1. PICK woken \in Heads(W, 1) :
              /\ woken \subseteq W /\ W' = W \ woken
              /\ \A r \in Task : pc'[r] = IF r \in woken THEN "try" ELSE [pc EXCEPT ![t] = "idle"][r]
      <4>1. WakeReceiver([pc EXCEPT ![t] = "idle"])
        BY <1>6, <2>7 DEF Receive, PeekWakes
      <4> QED  BY <1>0, <2>1, <2>6, <4>1, ReceiverWoken, Zenon DEF W
    <3>2. ASSUME NEW r \in woken PROVE r \in A'
      <4>1. op[r] \in Receives /\ r \in Task /\ r # t
        <5>1. t \notin Waiting
          BY <1>6, Awake DEF Receive, Trying
        <5> QED  BY <3>1, <5>1 DEF W, ControlInv, ControlOK, Waiting
      <4>2. op'[r] = op[r]
        BY <1>0, <1>6, <4>1, Zenon DEF Receive, Return
      <4> QED  BY <3>1, <4>1, <4>2 DEF A, About
    <3>3. (A \ {t}) \cup woken \subseteq A' /\ A \ {t} \in SUBSET Task /\ W \cap (A \ {t}) = {}
      BY <1>0, <2>4, <3>2
    <3>4. m - 1 \in Int /\ m' + 0 <= (m - 1) + 1
      BY <1>0, <2>3, <2>7
    <3> DEFINE B == A \ {t}
               k == m - 1
    <3>5. /\ Served(W, k, B, 0) /\ B \in SUBSET Task /\ W \cap B = {} /\ B \cup woken \subseteq A'
          /\ k \in Int /\ m' + 0 <= k + 1 /\ 1 \in Nat /\ 0 \in {0, 1}
      BY <2>5, <3>3, <3>4
    <3> HIDE DEF B, k
    <3>6. Served(W \ woken, m', A', 0)
      BY <1>0, <3>1, <3>5, ServedWoken, Zenon
    <3> QED  BY <2>2, <3>1, <3>6
  <2>8. CASE op[t] # "xQueuePeek"
    <3>1. W' = W
      BY <1>6, <2>8 DEF Receive, WakeSender, W
    <3>2. Served(W, m - 1, A', 0)
      BY <1>0, <1>1, <2>2, <2>4, ServedTaken, Zenon
    <3> QED  BY <2>2, <2>3, <2>8, <3>1, <3>2
  <2> QED  BY <2>7, <2>8
<1>7. ASSUME NEW t \in Task, Fail(t) PROVE Served(W', m', A', o')
  <2>1. W' = W /\ m' = m /\ o' = o
    BY <1>0, <1>7, Zenon DEF Fail, storage, queue, locks, waiters, W, m
  <2>2. CASE op[t] \in Sends
    <3>1. A \subseteq A'
      BY <1>7, <2>2, AboutRun, Zenon DEF Run, A, Sends, Receives
    <3> QED  BY <1>0, <1>3, <2>1, <3>1
  <2>3. CASE op[t] \notin Sends
    <3>1. m = 0
      BY <1>7, <2>3 DEF Fail, m
    <3> QED  BY <1>4, <2>1, <3>1
  <2> QED  BY <2>2, <2>3
<1>8. ASSUME NEW t \in Task,
             \/ vTaskSuspendAll(t) \/ prvLockQueue(t) \/ xTaskCheckForTimeOut(t) \/ Test(t)
             \/ UnlockRx(t) \/ xTaskResumeAll(t) \/ Recheck(t)
      PROVE  Served(W', m', A', o')
  <2>1. W' = W /\ m' = m
    BY <1>8, Zenon DEF vTaskSuspendAll, prvLockQueue, xTaskCheckForTimeOut, Test, UnlockRx,
                xTaskResumeAll, Recheck, storage, queue, waiters, W, m
  <2>2. o' = o
    BY <1>0, <1>8, Zenon DEF vTaskSuspendAll, prvLockQueue, xTaskCheckForTimeOut, Test, UnlockRx,
                xTaskResumeAll, Recheck, locks, Locked, queueUNLOCKED, queueLOCKED_UNMODIFIED
  <2>3. pc[t] \notin {"enter", "try"} /\ Run(t)
    BY <1>8, Zenon DEF vTaskSuspendAll, prvLockQueue, xTaskCheckForTimeOut, Test, UnlockRx,
                xTaskResumeAll, Recheck, Run
  <2>4. A \subseteq A'
    BY <2>3, AboutRun, Zenon DEF A
  <2> QED  BY <1>0, <1>3, <2>1, <2>2, <2>4
<1>9. ASSUME NEW t \in Task, vTaskPlaceOnEventList(t) PROVE Served(W', m', A', o')
  <2>1. m' = m /\ o' = o /\ pc[t] = "place" /\ cTxLock' = cTxLock
    BY <1>0, <1>9, Zenon DEF vTaskPlaceOnEventList, storage, queue, locks, m
  <2>2. A \subseteq A'
    BY <1>9, <2>1, AboutRun, Zenon DEF A, Run
  <2>3. CASE op[t] \in Sends
    <3>1. W' = W
      BY <1>9, <2>3 DEF vTaskPlaceOnEventList, W
    <3> QED  BY <1>0, <1>3, <2>1, <2>2, <3>1
  <2>4. CASE op[t] \notin Sends
    <3>1. m <= cTxLock \/ cTxLock = uxNumberOfTasks
      BY <2>1, <2>4 DEF PlaceInv, m
    <3>2. o' = cTxLock
      BY <1>0, <2>1, Zenon DEF ControlInv, OwnerInv, TxHeld
    <3>3. /\ Cardinality(A') \in Nat /\ Cardinality(W') \in Nat
          /\ Cardinality(W') <= uxNumberOfTasks
      BY <1>0, Counts, Zenon
    <3> QED  BY <1>0, <2>1, <3>1, <3>2, <3>3 DEF Served
  <2> QED  BY <2>3, <2>4
<1>10. ASSUME NEW t \in Task, UnlockTx(t) PROVE Served(W', m', A', o')
  <2>1. /\ m' = m /\ pc[t] = "unlockTx" /\ cTxLock' = queueUNLOCKED /\ op' = op
        /\ owner = t
    BY <1>10, Zenon DEF UnlockTx, storage, queue, m, call, ControlInv, OwnerInv, Held
  <2>2. o = cTxLock /\ o' = 0
    BY <1>0, <2>1, Zenon DEF ControlInv, OwnerInv, TxHeld
  <2>3. PICK woken \in Heads(W, o) :
            W' = W \ woken /\ MakeReady(woken, [pc EXCEPT ![t] = "unlockRx"])
    BY <1>10, <2>2 DEF UnlockTx, W
  <2>4. A \cup woken \subseteq A'
    <3>1. A \subseteq A'
      BY <1>10, <2>1, AboutRun, Zenon DEF A, Run
    <3>2. woken \subseteq xPendingReadyList'
      BY <1>0, <2>1, <2>3, Zenon DEF MakeReady
    <3>3. ASSUME NEW r \in woken PROVE r \in Task /\ op[r] \in Receives
      BY <2>3, Zenon DEF Heads, W, ControlInv, ControlOK
    <3> QED  BY <2>1, <3>1, <3>2, <3>3 DEF A, About
  <2>5. m' + o <= m + o
    BY <1>0, <2>1
  <2>6. o \in {0, o} /\ Served(W \ woken, m', A', 0)
    BY <1>0, <1>1, <2>3, <2>4, <2>5, ServedWoken, Zenon
  <2> QED  BY <2>2, <2>3, <2>6
<1>11. ASSUME NEW t \in Task, Elapse(t) PROVE Served(W', m', A', o')
  <2>1. W' \subseteq W /\ m' = m /\ o' = o
    BY <1>0, <1>11, Zenon DEF Elapse, storage, queue, locks, W, m
  <2>2. A \subseteq A'
    BY <1>11, AboutOther DEF A
  <2> QED  BY <1>0, <1>3, <2>1, <2>2
<1>12. ASSUME NEW t \in Task, NEW operation \in Allowed, NEW ticks \in Ticks,
              Call(t, operation, ticks)
       PROVE  Served(W', m', A', o')
  <2>1. W' \subseteq W /\ m' = m /\ o' = o
    BY <1>0, <1>12, Zenon DEF Call, queue, locks, waiters, W, m
  <2>2. A \subseteq A'
    BY <1>12, AboutOther DEF A
  <2> QED  BY <1>0, <1>3, <2>1, <2>2
<1>13. ASSUME IsrPrepares PROVE Served(W', m', A', o')
  <2>1. W' \subseteq W /\ m' = m /\ o' = o
    BY <1>0, <1>13, Zenon DEF IsrPrepares, queue, locks, waiters, W, m
  <2>2. A \subseteq A'
    BY <1>13, AboutOther DEF A, Interrupt
  <2> QED  BY <1>0, <1>3, <2>1, <2>2
<1>14. ASSUME NEW position \in Sends \cap Allowed, xQueueGenericSendFromISR(position)
       PROVE  Served(W', m', A', o')
  <2>1. m' <= m + 1
    <3>1. data[Isr] \in Item
      BY DEF StorageInv, Actor
    <3> QED  BY <1>0, <1>14, <3>1, Added DEF xQueueGenericSendFromISR, m
  <2>2. A \subseteq A' /\ op' = op
    BY <1>14, AboutOther, Zenon DEF A, Interrupt, xQueueGenericSendFromISR, call
  <2>3. CASE cTxLock = queueUNLOCKED
    <3>1. o = 0 /\ o' = 0 /\ WakeReceiver(pc)
      BY <1>0, <1>14, <2>3, Zenon DEF xQueueGenericSendFromISR
    <3>2. PICK woken \in Heads(W, 1) :
              /\ woken \subseteq W /\ W' = W \ woken
              /\ \A r \in Task : pc'[r] = IF owner = NoTask /\ r \in woken THEN "try" ELSE pc[r]
              /\ xPendingReadyList' = IF owner = NoTask THEN xPendingReadyList
                                      ELSE xPendingReadyList \cup woken
      BY <1>0, <3>1, ReceiverWoken, Zenon DEF W
    <3>3. ASSUME NEW r \in woken PROVE r \in A'
      BY <2>2, <3>2, Zenon DEF A, About, W, ControlInv, ControlOK
    <3>4. A \cup woken \subseteq A' /\ Served(W, m, A, 0)
      BY <1>1, <2>2, <3>1, <3>3, Zenon
    <3>5. (\A i, j \in Int : i <= j + 1 => i + 0 <= j + 1) /\ 1 \in Nat /\ 0 \in {0, 1}
      OBVIOUS
    <3>6. Served(W \ woken, m', A', 0)
      BY <1>0, <2>1, <3>2, <3>4, <3>5, ServedWoken, Zenon
    <3> QED  BY <3>1, <3>2, <3>6, Zenon
  <2>4. CASE cTxLock # queueUNLOCKED
    <3>1. cTxLock' = Incremented(cTxLock) /\ o = cTxLock /\ W' = W
      BY <1>0, <1>14, <2>4, Zenon DEF xQueueGenericSendFromISR, waiters, W
    <3>2. o' = Incremented(o)
      BY <1>0, <3>1, QueueAssumption DEF Incremented, queueUNLOCKED
    <3>3. Served(W, m', A, o')
      BY <1>0, <1>1, <2>1, <3>2, ServedOwed
    <3>4. A \in SUBSET A' /\ W' \in SUBSET W /\ m' <= m'
      BY <1>0, <2>2, <3>1
    <3> QED  BY <1>0, <3>3, <3>4, ServedEasier, Zenon
  <2> QED  BY <2>3, <2>4
<1>15. ASSUME xQueueReceiveFromISR PROVE Served(W', m', A', o')
  <2>1. m' <= m
    BY <1>0, <1>15, Removed DEF xQueueReceiveFromISR, Actor, m
  <2>2. W' = W /\ cTxLock' = cTxLock
    BY <1>15 DEF xQueueReceiveFromISR, WakeSender, waiters, W
  <2>3. A \subseteq A'
    BY <1>15, AboutOther DEF A, Interrupt
  <2> QED  BY <1>0, <1>3, <2>1, <2>2, <2>3
<1> QED  BY <1>5, <1>6, <1>7, <1>8, <1>9, <1>10, <1>11, <1>12, <1>13, <1>14, <1>15, Zenon
         DEF Next, Run, Interrupt

\* No step leaves a sender unserved.
LEMMA SenderStep ==
    ASSUME StorageInv, ControlInv, PlaceInv, NoSenderLeft, Next,
           StorageInv', ControlInv', UNCHANGED uxLength
    PROVE  NoSenderLeft'
<1> DEFINE A == About(Sends)
           W == xTasksWaitingToSend
           o == Owed(cRxLock)
<1>0. /\ A \in SUBSET Task /\ A' \in SUBSET Task /\ W \in SUBSET Task /\ W' \in SUBSET Task
      /\ W \cap A = {}
      /\ o \in Nat /\ o' \in Nat
      /\ o = IF cRxLock = queueUNLOCKED THEN 0 ELSE cRxLock
      /\ o' = IF cRxLock' = queueUNLOCKED THEN 0 ELSE cRxLock'
      /\ NoTask \notin Task /\ pc \in [Task -> Places] /\ op \in [Task -> Allowed \cup {"none"}]
      /\ QueueTypeOK
  <2>1. W \in SUBSET Task /\ W' \in SUBSET Task /\ W \cap A = {} /\ A \in SUBSET Task
        /\ A' \in SUBSET Task
    BY AboutIs, Zenon DEF ControlInv, ControlOK, About
  <2>2. /\ o \in Nat /\ o' \in Nat
        /\ o = IF cRxLock = queueUNLOCKED THEN 0 ELSE cRxLock
        /\ o' = IF cRxLock' = queueUNLOCKED THEN 0 ELSE cRxLock'
    <3>1. o \in Nat /\ o = IF cRxLock = queueUNLOCKED THEN 0 ELSE cRxLock
      BY OwedIs
    <3>2. o' \in Nat /\ o' = IF cRxLock' = queueUNLOCKED THEN 0 ELSE cRxLock'
      BY QueueAssumption DEF ControlInv, ControlOK, OwnerInv, Owed, queueUNLOCKED
    <3> QED  BY <3>1, <3>2
  <2> QED  BY <2>1, <2>2, QueueAssumption, Zenon DEF ControlInv, ControlOK, QueueTypeOK, StorageInv
<1>1. uxLength \in Int /\ uxMessagesWaiting \in Int /\ uxMessagesWaiting' \in Int
  BY QueueAssumption DEF StorageInv
<1>2. PICK before \in Int : before = uxLength - uxMessagesWaiting
  BY <1>1
<1>3. PICK after \in Int : after = uxLength - uxMessagesWaiting'
  <2>1. \A l, x \in Int : \E k \in Int : k = l - x
    OBVIOUS
  <2> QED  BY <1>1, <2>1, Zenon
<1>4. Served(W, before, A, o)
  BY <1>2 DEF NoSenderLeft
<1>5. SUFFICES Served(W', after, A', o')
  BY <1>3 DEF NoSenderLeft
<1> HIDE DEF A, W, o
<1>6. ASSUME W' \subseteq W, A \subseteq A', after <= before, o' = o PROVE Served(W', after, A', o')
  BY <1>0, <1>4, <1>6, ServedEasier
<1>7. ASSUME after <= 0 PROVE Served(W', after, A', o')
  BY <1>0, <1>7, ServedNone
<1>8. /\ uxMessagesWaiting' = uxMessagesWaiting => after = before
      /\ uxMessagesWaiting' = uxMessagesWaiting + 1 => after = before - 1
      /\ uxMessagesWaiting' = uxMessagesWaiting - 1 => after = before + 1
      /\ uxMessagesWaiting = uxLength => before = 0
  <2>1. PICK l, x, y \in Int : l = uxLength /\ x = uxMessagesWaiting /\ y = uxMessagesWaiting'
    BY <1>1
  <2>2. before = l - x /\ after = l - y
    BY <1>2, <1>3, <2>1
  <2>3. /\ y = x => after = before
        /\ y = x + 1 => after = before - 1
        /\ y = x - 1 => after = before + 1
        /\ x = l => before = 0
    BY <2>2
  <2> QED  BY <2>1, <2>3
<1>9. ASSUME NEW t \in Task, Send(t) PROVE Served(W', after, A', o')
  <2>1. /\ owner = NoTask /\ op[t] \in Sends /\ WakeReceiver([pc EXCEPT ![t] = "idle"])
        /\ cRxLock' = cRxLock /\ owner' = NoTask
    BY <1>9 DEF Send, Trying, locks
  <2>2. o = 0 /\ o' = 0 /\ W' = W
    BY <1>0, <2>1, Zenon DEF ControlInv, OwnerInv, WakeReceiver, W
  <2>3. after = before - 1 \/ after = 0
    <3>1. data[t] \in Item /\ op[t] \in Sends \cap Allowed
      BY <1>0, <2>1, Zenon DEF StorageInv, Actor, Sends
    <3>2. \/ uxMessagesWaiting' = uxMessagesWaiting + 1
          \/ uxMessagesWaiting' = uxMessagesWaiting /\ uxMessagesWaiting = uxLength
      BY <1>9, <3>1, Added, Zenon DEF Send
    <3> QED  BY <1>8, <3>2
  <2>4. CASE after = 0
    BY <1>7, <2>4
  <2>5. CASE after = before - 1
    <3>1. A \ {t} \subseteq A'
      BY <1>9, AboutRun, Zenon DEF Run, A
    <3>2. Served(W, before - 1, A', 0)
      BY <1>0, <1>4, <2>2, <3>1, ServedTaken, Zenon
    <3> QED  BY <2>2, <2>5, <3>2
  <2> QED  BY <2>3, <2>4, <2>5
<1>10. ASSUME NEW t \in Task, Receive(t) PROVE Served(W', after, A', o')
  <2>1. /\ owner = NoTask /\ op[t] \in Receives /\ uxMessagesWaiting > 0
        /\ cRxLock' = cRxLock /\ owner' = NoTask
    BY <1>10 DEF Receive, Trying, locks
  <2>2. o = 0 /\ o' = 0
    BY <1>0, <2>1, Zenon DEF ControlInv, OwnerInv
  <2>3. after = IF op[t] = "xQueuePeek" THEN before ELSE before + 1
    <3>1. uxMessagesWaiting' = IF op[t] = "xQueuePeek" THEN uxMessagesWaiting
                               ELSE uxMessagesWaiting - 1
      BY <1>10, <2>1, Removed, Zenon DEF Receive, Actor
    <3> QED  BY <1>8, <3>1
  <2>4. A \subseteq A'
    BY <1>10, <2>1, AboutRun, Zenon DEF Run, A, Sends, Receives
  <2>5. CASE op[t] = "xQueuePeek"
    <3>1. W' = W
      BY <1>10, <2>5 DEF Receive, PeekWakes, WakeReceiver, W
    <3> QED  BY <1>0, <1>6, <2>2, <2>3, <2>4, <2>5, <3>1
  <2>6. CASE op[t] # "xQueuePeek"
    <3>1. PICK woken \in Heads(W, 1) :
              /\ woken \subseteq W /\ W' = W \ woken
              /\ \A r \in Task : pc'[r] = IF r \in woken THEN "try" ELSE [pc EXCEPT ![t] = "idle"][r]
      <4>1. WakeSender([pc EXCEPT ![t] = "idle"])
        BY <1>10, <2>6 DEF Receive
      <4>2. [pc EXCEPT ![t] = "idle"] \in [Task -> Places]
        BY <1>0 DEF Places
      <4> QED  BY <1>0, <2>1, <4>1, <4>2, SenderWoken, Zenon DEF W
    <3>2. ASSUME NEW r \in woken PROVE r \in A'
      <4>1. op[r] \in Sends /\ r \in Task /\ r # t
        BY <2>1, <3>1, Zenon DEF W, ControlInv, ControlOK, Sends, Receives
      <4>2. op'[r] = op[r]
        BY <1>0, <1>10, <4>1, Zenon DEF Receive, Return
      <4> QED  BY <3>1, <4>1, <4>2 DEF A, About
    <3>3. A \cup woken \subseteq A' /\ after + 0 <= before + 1
      BY <1>0, <2>3, <2>4, <2>6, <3>2
    <3>4. Served(W \ woken, after, A', 0)
      BY <1>0, <1>4, <2>2, <3>1, <3>3, ServedWoken
    <3> QED  BY <2>2, <3>1, <3>4
  <2> QED  BY <2>5, <2>6
<1>11. ASSUME NEW t \in Task, Fail(t) PROVE Served(W', after, A', o')
  <2>1. W' = W /\ after = before /\ o' = o
    <3>1. uxMessagesWaiting' = uxMessagesWaiting
      BY <1>11 DEF Fail, storage, queue
    <3> QED  BY <1>0, <1>11, <1>8, <3>1, Zenon DEF Fail, locks, waiters, W
  <2>2. CASE op[t] \notin Sends
    <3>1. A \subseteq A'
      BY <1>11, <2>2, AboutRun, Zenon DEF Run, A
    <3> QED  BY <1>0, <1>6, <2>1, <3>1
  <2>3. CASE op[t] \in Sends
    <3>1. uxMessagesWaiting = uxLength
      BY <1>11, <2>3, QueueAssumption DEF Fail, HasRoom, StorageInv
    <3>2. before = 0
      BY <1>8, <3>1
    <3> QED  BY <1>0, <1>7, <2>1, <3>2
  <2> QED  BY <2>2, <2>3
<1>12. ASSUME NEW t \in Task,
             \/ vTaskSuspendAll(t) \/ prvLockQueue(t) \/ xTaskCheckForTimeOut(t) \/ Test(t)
             \/ UnlockTx(t) \/ xTaskResumeAll(t) \/ Recheck(t)
      PROVE  Served(W', after, A', o')
  <2>0. uxMessagesWaiting' = uxMessagesWaiting
    BY <1>12, Zenon DEF vTaskSuspendAll, prvLockQueue, xTaskCheckForTimeOut, Test, UnlockTx,
                xTaskResumeAll, Recheck, storage, queue
  <2>1. W' = W /\ after = before
    BY <1>12, <1>8, <2>0, Zenon DEF vTaskSuspendAll, prvLockQueue, xTaskCheckForTimeOut, Test, UnlockTx,
                xTaskResumeAll, Recheck, waiters, W
  <2>2. o' = o
    BY <1>0, <1>12, Zenon DEF vTaskSuspendAll, prvLockQueue, xTaskCheckForTimeOut, Test, UnlockTx,
                xTaskResumeAll, Recheck, locks, Locked, queueUNLOCKED, queueLOCKED_UNMODIFIED
  <2>3. pc[t] \notin {"enter", "try"} /\ Run(t)
    BY <1>12, Zenon DEF vTaskSuspendAll, prvLockQueue, xTaskCheckForTimeOut, Test, UnlockTx,
                xTaskResumeAll, Recheck, Run
  <2>4. A \subseteq A'
    BY <2>3, AboutRun, Zenon DEF A
  <2> QED  BY <1>0, <1>6, <2>1, <2>2, <2>4
<1>13. ASSUME NEW t \in Task, vTaskPlaceOnEventList(t) PROVE Served(W', after, A', o')
  <2>0. uxMessagesWaiting' = uxMessagesWaiting
    BY <1>13 DEF vTaskPlaceOnEventList, storage, queue
  <2>1. after = before /\ o' = o /\ pc[t] = "place" /\ cRxLock' = cRxLock
    BY <1>0, <1>13, <1>8, <2>0, Zenon DEF vTaskPlaceOnEventList, locks
  <2>2. A \subseteq A'
    BY <1>13, <2>1, AboutRun, Zenon DEF A, Run
  <2>3. CASE op[t] \notin Sends
    <3>1. W' = W
      BY <1>13, <2>3 DEF vTaskPlaceOnEventList, W
    <3> QED  BY <1>0, <1>6, <2>1, <2>2, <3>1
  <2>4. CASE op[t] \in Sends
    <3>1. before <= cRxLock \/ cRxLock = uxNumberOfTasks
      BY <1>2, <2>1, <2>4 DEF PlaceInv
    <3>2. o' = cRxLock
      BY <1>0, <2>1, Zenon DEF ControlInv, OwnerInv, RxHeld, TxHeld
    <3>3. /\ Cardinality(A') \in Nat /\ Cardinality(W') \in Nat
          /\ Cardinality(W') <= uxNumberOfTasks
      BY <1>0, Counts, Zenon
    <3> QED  BY <1>0, <2>1, <3>1, <3>2, <3>3 DEF Served
  <2> QED  BY <2>3, <2>4
<1>14. ASSUME NEW t \in Task, UnlockRx(t) PROVE Served(W', after, A', o')
  <2>0. uxMessagesWaiting' = uxMessagesWaiting
    BY <1>14 DEF UnlockRx, storage, queue
  <2>1. /\ after = before /\ pc[t] = "unlockRx" /\ cRxLock' = queueUNLOCKED /\ op' = op
        /\ owner = t
    BY <1>14, <1>8, <2>0, Zenon DEF UnlockRx, call, ControlInv, OwnerInv, Held
  <2>2. o = cRxLock /\ o' = 0
    BY <1>0, <2>1, Zenon DEF ControlInv, OwnerInv, RxHeld
  <2>3. PICK woken \in Heads(W, o) :
            W' = W \ woken /\ MakeReady(woken, [pc EXCEPT ![t] = "resume"])
    BY <1>14, <2>2 DEF UnlockRx, W
  <2>4. A \cup woken \subseteq A'
    <3>1. A \subseteq A'
      BY <1>14, <2>1, AboutRun, Zenon DEF A, Run
    <3>2. woken \subseteq xPendingReadyList'
      BY <1>0, <2>1, <2>3, Zenon DEF MakeReady
    <3>3. ASSUME NEW r \in woken PROVE r \in Task /\ op[r] \in Sends
      BY <2>3, Zenon DEF Heads, W, ControlInv, ControlOK
    <3> QED  BY <2>1, <3>1, <3>2, <3>3 DEF A, About
  <2>5. after + o <= before + o
    BY <1>0, <2>1
  <2>6. o \in {0, o} /\ Served(W \ woken, after, A', 0)
    BY <1>0, <1>4, <2>3, <2>4, <2>5, ServedWoken, Zenon
  <2> QED  BY <2>2, <2>3, <2>6
<1>15. ASSUME NEW t \in Task, Elapse(t) PROVE Served(W', after, A', o')
  <2>0. uxMessagesWaiting' = uxMessagesWaiting
    BY <1>15 DEF Elapse, storage, queue
  <2>1. W' \subseteq W /\ after = before /\ o' = o
    BY <1>0, <1>15, <1>8, <2>0, Zenon DEF Elapse, locks, W
  <2>2. A \subseteq A'
    BY <1>15, AboutOther DEF A
  <2> QED  BY <1>0, <1>6, <2>1, <2>2
<1>16. ASSUME NEW t \in Task, NEW operation \in Allowed, NEW ticks \in Ticks,
              Call(t, operation, ticks)
       PROVE  Served(W', after, A', o')
  <2>0. uxMessagesWaiting' = uxMessagesWaiting
    BY <1>16 DEF Call, queue
  <2>1. W' \subseteq W /\ after = before /\ o' = o
    BY <1>0, <1>16, <1>8, <2>0, Zenon DEF Call, locks, waiters, W
  <2>2. A \subseteq A'
    BY <1>16, AboutOther DEF A
  <2> QED  BY <1>0, <1>6, <2>1, <2>2
<1>17. ASSUME IsrPrepares PROVE Served(W', after, A', o')
  <2>0. uxMessagesWaiting' = uxMessagesWaiting
    BY <1>17 DEF IsrPrepares, queue
  <2>1. W' \subseteq W /\ after = before /\ o' = o
    BY <1>0, <1>17, <1>8, <2>0, Zenon DEF IsrPrepares, locks, waiters, W
  <2>2. A \subseteq A'
    BY <1>17, AboutOther DEF A, Interrupt
  <2> QED  BY <1>0, <1>6, <2>1, <2>2
<1>18. ASSUME NEW position \in Sends \cap Allowed, xQueueGenericSendFromISR(position)
       PROVE  Served(W', after, A', o')
  <2>1. after <= before
    <3>1. data[Isr] \in Item
      BY DEF StorageInv, Actor
    <3>2. uxMessagesWaiting' = uxMessagesWaiting + 1 \/ uxMessagesWaiting' = uxMessagesWaiting
      BY <1>18, <3>1, Added DEF xQueueGenericSendFromISR
    <3> QED  BY <1>0, <1>8, <3>2
  <2>2. W' = W /\ cRxLock' = cRxLock
    BY <1>18 DEF xQueueGenericSendFromISR, WakeReceiver, waiters, W
  <2>3. A \subseteq A'
    BY <1>18, AboutOther DEF A, Interrupt
  <2> QED  BY <1>0, <1>6, <2>1, <2>2, <2>3, Zenon
<1>19. ASSUME xQueueReceiveFromISR PROVE Served(W', after, A', o')
  <2>1. after <= before + 1
    <3>1. uxMessagesWaiting' = uxMessagesWaiting - 1
      BY <1>19, Removed DEF xQueueReceiveFromISR, Actor
    <3> QED  BY <1>0, <1>8, <3>1
  <2>2. A \subseteq A' /\ op' = op
    BY <1>19, AboutOther, Zenon DEF A, Interrupt, xQueueReceiveFromISR, call
  <2>3. CASE cRxLock = queueUNLOCKED
    <3>1. o = 0 /\ o' = 0 /\ WakeSender(pc)
      BY <1>0, <1>19, <2>3, Zenon DEF xQueueReceiveFromISR
    <3>2. PICK woken \in Heads(W, 1) :
              /\ woken \subseteq W /\ W' = W \ woken
              /\ \A r \in Task : pc'[r] = IF owner = NoTask /\ r \in woken THEN "try" ELSE pc[r]
              /\ xPendingReadyList' = IF owner = NoTask THEN xPendingReadyList
                                      ELSE xPendingReadyList \cup woken
      BY <1>0, <3>1, SenderWoken, Zenon DEF W
    <3>3. ASSUME NEW r \in woken PROVE r \in A'
      BY <2>2, <3>2, Zenon DEF A, About, W, ControlInv, ControlOK
    <3>4. A \cup woken \subseteq A' /\ after + 0 <= before + 1
      BY <1>0, <2>1, <2>2, <3>3
    <3>5. Served(W \ woken, after, A', 0)
      <4>1. Served(W, before, A, 0) /\ 0 \in {0, 1}
        BY <1>4, <3>1
      <4> QED  BY <1>0, <3>2, <3>4, <4>1, ServedWoken, Zenon
    <3> QED  BY <3>1, <3>2, <3>5
  <2>4. CASE cRxLock # queueUNLOCKED
    <3>1. cRxLock' = Incremented(cRxLock) /\ o = cRxLock /\ W' = W
      BY <1>0, <1>19, <2>4, Zenon DEF xQueueReceiveFromISR, waiters, W
    <3>2. o' = Incremented(o)
      BY <1>0, <3>1, QueueAssumption DEF Incremented, queueUNLOCKED
    <3>3. Served(W, after, A, o')
      BY <1>0, <1>4, <2>1, <3>2, ServedOwed
    <3>4. A \in SUBSET A' /\ W' \in SUBSET W /\ after <= after
      BY <1>0, <2>2, <3>1
    <3> QED  BY <1>0, <3>3, <3>4, ServedEasier, Zenon
  <2> QED  BY <2>3, <2>4
<1> QED  BY <1>9, <1>10, <1>11, <1>12, <1>13, <1>14, <1>15, <1>16, <1>17, <1>18, <1>19, Zenon
         DEF Next, Run, Interrupt

-----------------------------------------------------------------------------
(* The invariant.                                                          *)

\* The queue as xQueueGenericCreate leaves it.
LEMMA Initially == Init => Inv /\ StorageInv /\ ControlInv
<1> SUFFICES ASSUME Init PROVE Inv /\ StorageInv /\ ControlInv
  OBVIOUS
<1>1. StorageInv
  <2>1. uxLength \in Nat \ {0} /\ Item # {}
    BY QueueAssumption DEF Init
  <2> QED  BY <2>1 DEF Init, StorageInv, RingInv, Slot
<1>2. ControlInv
  BY QueueAssumption DEF Init, ControlInv, ControlOK, OwnerInv, ListInv, Waiting, Held, TxHeld,
                         RxHeld, Places, Ticks, queueUNLOCKED
<1>3. PlaceInv
  BY DEF Init, PlaceInv
<1>4. NoReceiverLeft /\ NoSenderLeft
  BY DEF Init, NoReceiverLeft, NoSenderLeft, Served
<1> QED  BY <1>1, <1>2, <1>3, <1>4, TypeSplit DEF Inv, ControlInv

\* Inv is inductive.
LEMMA Inductive == Inv /\ [Next]_vars => Inv'
<1> SUFFICES ASSUME Inv, [Next]_vars PROVE Inv'
  OBVIOUS
<1>1. StorageInv /\ ControlInv
  BY TypeSplit DEF Inv, ControlInv
<1>2. CASE Next
  <2>1. StorageInv' /\ UNCHANGED uxLength
    BY <1>1, <1>2, StorageStep DEF ControlInv
  <2>2. ControlInv'
    BY <1>1, <1>2, <2>1, ControlStep
  <2>3. PlaceInv'
    BY <1>1, <1>2, <2>1, <2>2, PlaceStep DEF Inv
  <2>4. NoReceiverLeft'
    BY <1>1, <1>2, <2>1, <2>2, ReceiverStep DEF Inv
  <2>5. NoSenderLeft'
    BY <1>1, <1>2, <2>1, <2>2, SenderStep DEF Inv
  <2>6. QueueTypeOK' /\ RingInv'
    BY <2>1, <2>2, Zenon DEF StorageInv, ControlInv, ControlOK, QueueTypeOK
  <2> QED  BY <2>2, <2>3, <2>4, <2>5, <2>6 DEF Inv, ControlInv
<1>3. CASE UNCHANGED vars
  <2>1. UNCHANGED <<uxLength, ring, pcWriteTo, pcReadFrom, uxMessagesWaiting, data, cRxLock,
                    cTxLock, xTasksWaitingToSend, xTasksWaitingToReceive, xPendingReadyList,
                    owner, pc, op, xTicksToWait, elapsed>>
    BY <1>3 DEF vars, storage, queue, locks, waiters, call
  <2>2. QueueTypeOK' /\ RingInv'
    BY <2>1, Zenon DEF Inv, QueueTypeOK, RingInv, Slot, Allowed
  <2>3. OwnerInv' /\ ListInv' /\ PlaceInv'
    BY <2>1, Zenon DEF Inv, OwnerInv, ListInv, PlaceInv, Waiting
  <2>4. NoReceiverLeft' /\ NoSenderLeft'
    BY <2>1, Zenon DEF Inv, NoReceiverLeft, NoSenderLeft, About, Owed
  <2> QED  BY <2>2, <2>3, <2>4 DEF Inv
<1> QED  BY <1>2, <1>3

\* Inv holds in every state a queue can be in.
THEOREM Invariant == Spec => []Inv
<1>1. Init => Inv
  BY Initially
<1> QED  BY <1>1, Inductive, PTL DEF Spec

\* Positions, counts, locks and event lists stay in their ranges.
THEOREM TypeCorrect == Spec => []QueueTypeOK
<1>1. Inv => QueueTypeOK
  BY DEF Inv
<1> QED  BY <1>1, Invariant, PTL

\* No receiver sleeps on an item, however sends, receives, timeouts and
\* interrupts fall between the test and the sleep.
THEOREM ReceiversServed == Spec => []NoReceiverLeft
<1>1. Inv => NoReceiverLeft
  BY DEF Inv
<1> QED  BY <1>1, Invariant, PTL

\* No sender sleeps on a free place.
THEOREM SendersServed == Spec => []NoSenderLeft
<1>1. Inv => NoSenderLeft
  BY DEF Inv
<1> QED  BY <1>1, Invariant, PTL

\* The ring implements a bounded sequence.
THEOREM RefinesFifo == Spec => ImplementsFifo
<1>1. Init => F!Init
  <2> SUFFICES ASSUME Init PROVE F!Init
    OBVIOUS
  <2>1. contents = <<>>
    BY DEF Init, contents
  <2> QED  BY <2>1 DEF Init, F!Init
<1>2. Inv /\ Inv' /\ [Next]_vars => [F!Next]_<<uxLength, contents, data>>
  BY StepRefines
<1> QED  BY <1>1, <1>2, Invariant, PTL DEF Spec, ImplementsFifo, F!Spec
=============================================================================
