------------------------- MODULE SpeedDemoProofs --------------------------
(***************************************************************************)
(* Proofs about SpeedDemo for all priorities, thresholds, speeds and       *)
(* string lengths.  First what the kernel operators do to the ready tasks  *)
(* and the event lists; then that the initial states satisfy the inductive *)
(* invariant IInv and that every step keeps it: the steps that call no     *)
(* semaphore function, xSemaphoreTake (the unit taken, the attempt that    *)
(* finds none, the wait, the unit that arrived between the two critical    *)
(* sections) and xSemaphoreGive (the turn handed over, the mutex returned  *)
(* by print(), the timer callback); last the theorems that follow.         *)
(***************************************************************************)
EXTENDS SpeedDemo, TLAPS

USE DEF A, B, C, D, Idle, x, y, z, m, NoOne, Tasks, Sems

\* The priorities main.c and timers.c create the tasks with.
LEMMA PriorityFacts ==
    /\ Priority \in [Tasks -> Nat]
    /\ Priority[A] = Priority[B]
    /\ Priority[C] > Priority[A]
    /\ Priority[A] >= Priority[D]
    /\ Priority[C] > Priority[D]
    /\ Priority[D] > Priority[Idle]
  BY PriorityAssumption DEF Priority

\* What a context switch establishes.
LEMMA SwitchContext ==
    ASSUME KernelTypeOK', vTaskSwitchContext
    PROVE  RunsHighest'
  BY DEF vTaskSwitchContext, HighestPriority, RunsHighest

\* An event list emptied, or left with one waiter, is still an event list.
LEMMA EventLists ==
    ASSUME NEW f \in [Sems -> Seq(Tasks)], NEW s \in Sems, NEW t \in Tasks
    PROVE  /\ [f EXCEPT ![s] = <<>>] \in [Sems -> Seq(Tasks)]
           /\ [f EXCEPT ![s] = <<t>>] \in [Sems -> Seq(Tasks)]
  <1> HIDE DEF Sems, Tasks
  <1>1. \A q \in Seq(Tasks) : [f EXCEPT ![s] = q] \in [Sems -> Seq(Tasks)]
    BY Zenon
  <1>2. <<>> \in Seq(Tasks) /\ <<t>> \in Seq(Tasks)
    OBVIOUS
  <1> QED
    BY <1>1, <1>2

\* What waiting and being woken do to the event list of a single waiter.
LEMMA SingleWaiter ==
    ASSUME NEW t \in Tasks
    PROVE  /\ vListInsert(<<>>, t) = <<t>>
           /\ <<t>> # <<>>
           /\ Head(<<t>>) = t
           /\ Tail(<<t>>) = <<>>
  <1>1. \A n \in 0 .. Len(<<>>) : n = 0
    OBVIOUS
  <1>2. SubSeq(<<>>, 1, 0) = <<>>
    OBVIOUS
  <1>3. vListInsert(<<>>, t) = <<t>>
    <2> DEFINE P(i) == /\ \A j \in 1 .. i : uxPriority[<<>>[j]] >= uxPriority[t]
                       /\ i < Len(<<>>) => uxPriority[<<>>[i + 1]] < uxPriority[t]
               n == CHOOSE i \in 0 .. Len(<<>>) : P(i)
    <2>1. P(0)
      OBVIOUS
    <2>2. n = 0
      <3> HIDE DEF P
      <3> QED
        BY <1>1, <2>1
    <2>3. vListInsert(<<>>, t) =
              SubSeq(<<>>, 1, n) \o <<t>> \o SubSeq(<<>>, n + 1, Len(<<>>))
      BY DEF vListInsert
    <2>4. <<>> \o <<t>> \o <<>> = <<t>>
      OBVIOUS
    <2>5. SubSeq(<<>>, n + 1, Len(<<>>)) = <<>> /\ SubSeq(<<>>, 1, n) = <<>>
      BY <1>2, <2>2
    <2> QED
      BY <2>3, <2>4, <2>5, Zenon
  <1> QED
    BY <1>3

\* xSemaphoreGive leaves the most urgent ready task running, provided a holder
\* that loses a priority has woken a more urgent task, or nobody.
LEMMA GiveRunsHighest ==
    ASSUME KernelTypeOK, KernelTypeOK', RunsHighest,
           NEW t \in Tasks, NEW s \in Sems, pxCurrentTCB = t, GiveRoom(t, s),
           Waiting(s) # <<>> => Head(Waiting(s)) \in Tasks,
           Disinherits(t, s) /\ Waiting(s) # <<>> =>
               uxPriority'[Head(Waiting(s))] > uxPriority'[t]
    PROVE  RunsHighest'
  <1>1. CASE vTaskSwitchContext
    BY <1>1, SwitchContext
  <1>2. CASE ~vTaskSwitchContext
    <2>1. pxCurrentTCB' = t /\ ~Disinherits(t, s) /\ uxPriority' = uxPriority
      BY <1>2, Zenon DEF GiveRoom, xTaskPriorityDisinherit, Waiting
    <2>2. CASE Waiting(s) = <<>>
      BY <2>1, <2>2, Zenon DEF GiveRoom, Waiting, RunsHighest
    <2>3. CASE Waiting(s) # <<>>
      <3> DEFINE w == Head(Waiting(s))
      <3>1. ready' = ready \cup {w} /\ ~(uxPriority[w] > uxPriority[t])
        BY <1>2, <2>1, <2>3, Zenon DEF GiveRoom, Waiting
      <3>2. uxPriority[w] \in Nat /\ uxPriority[t] \in Nat
        BY <2>3, Zenon DEF KernelTypeOK
      <3> QED
        BY <2>1, <3>1, <3>2 DEF RunsHighest
    <2> QED
      BY <2>2, <2>3, Zenon
  <1> QED
    BY <1>1, <1>2

\* The semaphore each task starts a round with; the names are constants.
LEMMA TakesOf ==
    /\ Takes(A) = x /\ Takes(B) = y /\ Takes(C) = z
    /\ Takes(A)' = x /\ Takes(B)' = y /\ Takes(C)' = z
  BY DEF Takes

\* The statements of each loop, and the statement that follows each of them.
LEMMA LoopFacts ==
    /\ Loop(A) = LoopA /\ Loop(B) = LoopB /\ Loop(C) = LoopC
    /\ DOMAIN LoopA = Statement \ {"check", "process", "callback", "commands"}
    /\ DOMAIN LoopB = {"delay", "take", "print1", "check", "print2", "give"}
    /\ DOMAIN LoopC = {"take", "print1"}
    /\ LoopA["delay"] = "take" /\ LoopA["print1"] = "read" /\ LoopA["print2"] = "print3"
    /\ LoopA["print3"] = "print4" /\ LoopA["print4"] = "give" /\ LoopA["give"] = "delay"
    /\ LoopB["delay"] = "take" /\ LoopB["print1"] = "check" /\ LoopB["print2"] = "give"
    /\ LoopB["give"] = "delay" /\ LoopC["print1"] = "take"
  <1>1. Loop(A) = LoopA /\ Loop(B) = LoopB /\ Loop(C) = LoopC
    BY DEF Loop
  <1>2. DOMAIN LoopA = Statement \ {"check", "process", "callback", "commands"}
    BY DEF LoopA, Statement
  <1>3. /\ DOMAIN LoopB = {"delay", "take", "print1", "check", "print2", "give"}
        /\ DOMAIN LoopC = {"take", "print1"}
    BY DEF LoopB, LoopC
  <1>4. /\ LoopA["delay"] = "take" /\ LoopA["print1"] = "read" /\ LoopA["print2"] = "print3"
        /\ LoopA["print3"] = "print4" /\ LoopA["print4"] = "give" /\ LoopA["give"] = "delay"
    BY DEF LoopA
  <1>5. /\ LoopB["delay"] = "take" /\ LoopB["print1"] = "check" /\ LoopB["print2"] = "give"
        /\ LoopB["give"] = "delay" /\ LoopC["print1"] = "take"
    BY DEF LoopB, LoopC
  <1> QED
    BY <1>1, <1>2, <1>3, <1>4, <1>5, Zenon

\* A task that moves on to a statement of its loop keeps the program counters
\* well typed.
LEMMA PcMoves ==
    ASSUME PcTypeOK, NEW t \in {A, B, C, D}, NEW n \in Statement,
           t = A => n \in DOMAIN LoopA,
           t = B => n \in DOMAIN LoopB,
           t = C => n \in DOMAIN LoopC,
           t = D => n \in {"process", "callback", "commands"},
           pc' = [pc EXCEPT ![t] = n],
           stage' \in [{A, B, C} -> {"enter", "block", "send", "sending", "give"}],
           left' \in [{A, B, C, D} -> Nat]
    PROVE  PcTypeOK'
  <1>1. pc' \in [{A, B, C, D} -> Statement]
    BY Zenon DEF PcTypeOK
  <1>2. pc'[t] = n /\ \A u \in {A, B, C, D} \ {t} : pc'[u] = pc[u]
    BY Zenon DEF PcTypeOK
  <1>3. pc'[A] \in DOMAIN LoopA
    BY <1>2, Zenon DEF PcTypeOK
  <1>4. pc'[B] \in DOMAIN LoopB
    BY <1>2, Zenon DEF PcTypeOK
  <1>5. pc'[C] \in DOMAIN LoopC
    BY <1>2, Zenon DEF PcTypeOK
  <1>6. pc'[D] \in {"process", "callback", "commands"}
    BY <1>2, Zenon DEF PcTypeOK
  <1> QED
    BY <1>1, <1>3, <1>4, <1>5, <1>6, Zenon DEF PcTypeOK, LoopA, LoopB, LoopC

\* One character fewer, or one expiry fewer, to go.
LEMMA OneFewer ==
    ASSUME NEW f \in [{A, B, C, D} -> Nat], NEW t \in {A, B, C, D}, f[t] # 0
    PROVE  [f EXCEPT ![t] = f[t] - 1] \in [{A, B, C, D} -> Nat]
  <1>1. f[t] - 1 \in Nat
    <2>1. f[t] \in Nat
      BY Zenon
    <2> QED
      BY <2>1
  <1> QED
    BY <1>1, Zenon

\* Steps that leave the event lists, the semaphores and the priorities alone
\* keep WaitInv, if no waiting task moves or is made ready or delayed.
LEMMA WaitKept ==
    ASSUME WaitInv,
           UNCHANGED <<xTasksWaitingToReceive, uxMessagesWaiting, xMutexHolder,
                       uxPriority>>,
           C \in ready => C \in ready',
           ASSUME NEW u \in {A, B, C}, u \notin ready, stage[u] = "enter",
                  pc[u] \in {"take", "print1"}
           PROVE  /\ pc'[u] = pc[u] /\ stage'[u] = stage[u] /\ u \notin ready'
                  /\ u \notin delayed => u \notin delayed'
    PROVE  WaitInv'
  <1>1. \A s : Waiting(s)' = Waiting(s)
    BY Zenon DEF Waiting
  <1>2. \A u \in {A, B, C} : Takes(u)' = Takes(u)
    BY TakesOf, Zenon
  <1>3. ASSUME NEW u \in {A, B, C}, Waiting(Takes(u)) = <<u>>
        PROVE  /\ u \notin ready' \cup delayed'
               /\ pc'[u] = "take" /\ stage'[u] = "enter"
               /\ uxMessagesWaiting'[Takes(u)] = 0
    BY <1>3, Zenon DEF WaitInv
  <1>4. Waiting(m) = <<C>> => C \notin ready' /\ pc'[C] = "print1" /\ stage'[C] = "enter"
    BY Zenon DEF WaitInv
  <1> QED
    BY <1>1, <1>2, <1>3, <1>4, Zenon DEF WaitInv, Waiting

\* The step keeps u in or out of the mutex, at its statement and ready while it
\* holds it, with something left to send while it sends.
Stays(u) ==
    /\ Holding(u)' <=> Holding(u)
    /\ Holding(u) => pc'[u] = pc[u] /\ u \in ready'
    /\ stage'[u] = "block" => pc'[u] \in {"take"} \cup Printing
    /\ stage'[u] \in {"send", "sending"} => left'[u] > 0

\* So it does with a task it does not touch.
LEMMA StaysPut ==
    ASSUME MutexInv, NEW u \in {A, B, C},
           pc'[u] = pc[u], stage'[u] = stage[u], left'[u] = left[u],
           u \in ready => u \in ready'
    PROVE  Stays(u)
  BY Zenon DEF Stays, MutexInv, Holding

\* Steps that leave the mutex alone keep MutexInv, if its holder stays where it
\* is and ready.
LEMMA MutexKept ==
    ASSUME MutexInv, UNCHANGED <<xMutexHolder, uxMutexesHeld>>,
           uxMessagesWaiting'[m] = uxMessagesWaiting[m],
           \A s \in Sems : uxMessagesWaiting'[s] \in {0, 1},
           \A u \in {A, B, C} : Stays(u)
    PROVE  MutexInv'
  BY Zenon DEF MutexInv, Stays

\* Steps that leave the transmitter and the sending tasks alone keep what is
\* said of them.
LEMMA SendersKept ==
    ASSUME UartInv, WireInv, UNCHANGED <<IsTxBusy, wire>>,
           \A u \in {A, B, C} : stage[u] \in {"send", "sending"} =>
               stage'[u] = stage[u] /\ left'[u] = left[u]
    PROVE  UartInv' /\ WireInv'
  BY Zenon DEF UartInv, WireInv

\* What main() leaves behind when it starts the scheduler.
LEMMA InitIInv == Init => IInv
  <1> SUFFICES ASSUME Init PROVE IInv
    OBVIOUS
  <1> USE PriorityFacts, BoundAssumption DEF Init, InitialCount
  <1>1. TypeOK
    <2>1. KernelTypeOK
      BY DEF KernelTypeOK
    <2>2. PcTypeOK
      BY Zenon DEF PcTypeOK, Statement, LoopA, LoopB, LoopC
    <2>3. DataTypeOK
      BY DEF DataTypeOK
    <2>4. FlagTypeOK
      BY Zenon DEF FlagTypeOK
    <2> QED
      BY <2>1, <2>2, <2>3, <2>4, Zenon DEF TypeOK
  <1>2. WaitInv
    BY Zenon DEF WaitInv, Waiting, Takes
  <1>3. DelayInv
    BY Zenon DEF DelayInv
  <1>4. MutexInv
    BY Zenon DEF MutexInv, Holding
  <1>5. PriorityInv
    BY Zenon DEF PriorityInv
  <1>6. RunsHighest
    BY DEF RunsHighest
  <1>7. OneTurn
    BY DEF OneTurn, InTurn
  <1>8. UartInv /\ WireInv /\ DaemonInv
    BY DEF UartInv, WireInv, DaemonInv
  <1>9. ReadingInv /\ VerdictCurrent
    BY DEF ReadingInv, VerdictCurrent, InTurn
  <1> QED
    BY <1>1, <1>2, <1>3, <1>4, <1>5, <1>6, <1>7, <1>8, <1>9, Zenon DEF IInv

\* Motor_Sensor_ReadValue only moves ReadSpeedTask on.
LEMMA ReadValueIInv ==
    ASSUME IInv, ReadValue
    PROVE  IInv'
  <1> USE DEF IInv, TypeOK, ReadValue, Advance, kernelVars
  <1>0. /\ pc' = [pc EXCEPT ![A] = "store"]
        /\ stage' = [stage EXCEPT ![A] = "enter"]
        /\ pc[A] = "read"
    BY DEF PcTypeOK, Loop, LoopA
  <1>1. TypeOK'
    <2>1. KernelTypeOK'
      BY <1>0, Zenon DEF KernelTypeOK
    <2>2. PcTypeOK'
      BY <1>0 DEF PcTypeOK, Statement, LoopA, LoopB, LoopC
    <2>3. DataTypeOK'
      BY <1>0, Zenon DEF DataTypeOK
    <2>4. FlagTypeOK'
      BY <1>0, Zenon DEF FlagTypeOK
    <2> QED
      BY <2>1, <2>2, <2>3, <2>4, Zenon DEF TypeOK
  <1>2. WaitInv'
    BY <1>0 DEF WaitInv, Waiting, Takes, PcTypeOK
  <1>3. DelayInv'
    BY <1>0 DEF DelayInv, PcTypeOK
  <1>4. MutexInv'
    BY <1>0 DEF MutexInv, Holding, Printing, PcTypeOK
  <1>5. PriorityInv'
    BY <1>0, Zenon DEF PriorityInv
  <1>6. RunsHighest'
    BY <1>0, Zenon DEF RunsHighest
  <1>7. OneTurn'
    BY <1>0, Zenon DEF OneTurn, InTurn, PcTypeOK
  <1>8. UartInv' /\ WireInv' /\ DaemonInv'
    BY <1>0 DEF UartInv, WireInv, DaemonInv, DataTypeOK, PcTypeOK, MutexInv,
       Holding, Printing
  <1>9. ReadingInv' /\ VerdictCurrent'
    BY <1>0, Zenon DEF ReadingInv, VerdictCurrent, InTurn, PcTypeOK
  <1> QED
    BY <1>1, <1>2, <1>3, <1>4, <1>5, <1>6, <1>7, <1>8, <1>9, Zenon DEF IInv

\* The store happens in the turn of ReadSpeedTask, the last reading checked.
LEMMA StoreValueIInv ==
    ASSUME IInv, StoreValue
    PROVE  IInv'
  <1> USE DEF IInv, TypeOK, StoreValue, Advance, kernelVars
  <1>0. /\ pc' = [pc EXCEPT ![A] = "print2"]
        /\ stage' = [stage EXCEPT ![A] = "enter"]
        /\ pc[A] = "store"
        /\ pc[B] \in {"delay", "take"}
    BY DEF PcTypeOK, Loop, LoopA, OneTurn, InTurn
  <1>1. TypeOK'
    <2>1. KernelTypeOK'
      BY <1>0, Zenon DEF KernelTypeOK
    <2>2. PcTypeOK'
      BY <1>0 DEF PcTypeOK, Statement, LoopA, LoopB, LoopC
    <2>3. DataTypeOK'
      BY <1>0, Zenon DEF DataTypeOK
    <2>4. FlagTypeOK'
      BY <1>0, Zenon DEF FlagTypeOK
    <2> QED
      BY <2>1, <2>2, <2>3, <2>4, Zenon DEF TypeOK
  <1>2. WaitInv'
    BY <1>0 DEF WaitInv, Waiting, Takes, PcTypeOK
  <1>3. DelayInv'
    BY <1>0 DEF DelayInv, PcTypeOK
  <1>4. MutexInv'
    BY <1>0 DEF MutexInv, Holding, Printing, PcTypeOK
  <1>5. PriorityInv'
    BY <1>0, Zenon DEF PriorityInv
  <1>6. RunsHighest'
    BY <1>0, Zenon DEF RunsHighest
  <1>7. OneTurn'
    BY <1>0, Zenon DEF OneTurn, InTurn, PcTypeOK
  <1>8. UartInv' /\ WireInv' /\ DaemonInv'
    BY <1>0 DEF UartInv, WireInv, DaemonInv, DataTypeOK, PcTypeOK, MutexInv,
       Holding, Printing
  <1>9. ReadingInv' /\ VerdictCurrent'
    BY <1>0 DEF ReadingInv, VerdictCurrent, InTurn, OneTurn, PcTypeOK,
       MutexInv
  <1> QED
    BY <1>1, <1>2, <1>3, <1>4, <1>5, <1>6, <1>7, <1>8, <1>9, Zenon DEF IInv

\* The check happens in the turn of CheckSpeedTask.
LEMMA CheckValueIInv ==
    ASSUME IInv, CheckValue
    PROVE  IInv'
  <1> USE DEF IInv, TypeOK, CheckValue, Advance, kernelVars
  <1>0. /\ pc' = [pc EXCEPT ![B] = "print2"]
        /\ stage' = [stage EXCEPT ![B] = "enter"]
        /\ pc[B] = "check"
        /\ pc[A] \in {"delay", "take"}
    BY DEF PcTypeOK, Loop, LoopB, OneTurn, InTurn
  <1>1. TypeOK'
    <2>1. KernelTypeOK'
      BY <1>0, Zenon DEF KernelTypeOK
    <2>2. PcTypeOK'
      BY <1>0 DEF PcTypeOK, Statement, LoopA, LoopB, LoopC
    <2>3. DataTypeOK'
      BY <1>0, Zenon DEF DataTypeOK
    <2>4. FlagTypeOK'
      <3>1. (g_last_speed > HIGH_SPEED_THRESHOLD) \in BOOLEAN
        BY BoundAssumption DEF DataTypeOK
      <3>2. high' \in BOOLEAN
        BY <3>1, Zenon
      <3> QED
        BY <3>2, Zenon DEF FlagTypeOK
    <2> QED
      BY <2>1, <2>2, <2>3, <2>4, Zenon DEF TypeOK
  <1>2. WaitInv'
    BY <1>0 DEF WaitInv, Waiting, Takes, PcTypeOK
  <1>3. DelayInv'
    BY <1>0 DEF DelayInv, PcTypeOK
  <1>4. MutexInv'
    BY <1>0 DEF MutexInv, Holding, Printing, PcTypeOK
  <1>5. PriorityInv'
    BY <1>0, Zenon DEF PriorityInv
  <1>6. RunsHighest'
    BY <1>0, Zenon DEF RunsHighest
  <1>7. OneTurn'
    BY <1>0, Zenon DEF OneTurn, InTurn, PcTypeOK
  <1>8. UartInv' /\ WireInv' /\ DaemonInv'
    BY <1>0 DEF UartInv, WireInv, DaemonInv, DataTypeOK, PcTypeOK, MutexInv,
       Holding, Printing
  <1>9. ReadingInv' /\ VerdictCurrent'
    BY <1>0 DEF ReadingInv, VerdictCurrent, InTurn, OneTurn, PcTypeOK,
       MutexInv
  <1> QED
    BY <1>1, <1>2, <1>3, <1>4, <1>5, <1>6, <1>7, <1>8, <1>9, Zenon DEF IInv

\* SyncSend is entered by the holder of the mutex: the driver is idle.
LEMMA SendEnterIInv ==
    ASSUME NEW t \in {A, B, C}, IInv, SendEnter(t)
    PROVE  IInv'
  <1> USE DEF IInv, TypeOK, SendEnter, kernelVars
  <1>0. /\ ~IsTxBusy
        /\ IsTxBusy' = TRUE
        /\ stage' = [stage EXCEPT ![t] = "sending"]
        /\ left' = left
    BY Zenon DEF PcTypeOK, UartInv, MutexInv, Holding
  <1>1. TypeOK'
    <2>1. KernelTypeOK'
      BY <1>0, Zenon DEF KernelTypeOK
    <2>2. PcTypeOK'
      BY <1>0, Zenon DEF PcTypeOK, Statement, LoopA, LoopB, LoopC
    <2>3. DataTypeOK'
      BY <1>0, Zenon DEF DataTypeOK
    <2>4. FlagTypeOK'
      BY <1>0, Zenon DEF FlagTypeOK
    <2> QED
      BY <2>1, <2>2, <2>3, <2>4, Zenon DEF TypeOK
  <1>2. WaitInv'
    BY <1>0, Zenon DEF WaitInv, Waiting, Takes, PcTypeOK
  <1>3. DelayInv'
    BY <1>0, Zenon DEF DelayInv, PcTypeOK
  <1>4. MutexInv'
    BY <1>0 DEF MutexInv, Holding, Printing, PcTypeOK
  <1>5. PriorityInv'
    BY <1>0, Zenon DEF PriorityInv
  <1>6. RunsHighest'
    BY <1>0, Zenon DEF RunsHighest
  <1>7. OneTurn'
    BY <1>0, Zenon DEF OneTurn, InTurn, PcTypeOK
  <1>8. UartInv' /\ WireInv' /\ DaemonInv'
    BY <1>0, Zenon DEF UartInv, WireInv, DaemonInv, DataTypeOK, PcTypeOK, MutexInv,
       Holding, Printing
  <1>9. ReadingInv' /\ VerdictCurrent'
    BY <1>0, Zenon DEF ReadingInv, VerdictCurrent, InTurn, PcTypeOK
  <1> QED
    BY <1>1, <1>2, <1>3, <1>4, <1>5, <1>6, <1>7, <1>8, <1>9, Zenon DEF IInv

\* A character reaches the wire.
LEMMA SendLeaveIInv ==
    ASSUME NEW t \in {A, B, C}, IInv, SendLeave(t)
    PROVE  IInv'
  <1> USE DEF IInv, TypeOK, SendLeave, kernelVars
  <1>0. /\ left[t] \in Nat \ {0}
        /\ left' = [left EXCEPT ![t] = left[t] - 1]
        /\ stage' = [stage EXCEPT ![t] = IF left[t] = 1 THEN "give" ELSE "send"]
    BY DEF PcTypeOK, MutexInv, AfterChar
  <1>1. TypeOK'
    <2>1. KernelTypeOK'
      BY <1>0, Zenon DEF KernelTypeOK
    <2>2. PcTypeOK'
      <3>1. left' \in [{A, B, C, D} -> Nat]
        <4>1. left \in [{A, B, C, D} -> Nat] /\ t \in {A, B, C, D} /\ left[t] # 0
          BY <1>0, Zenon DEF PcTypeOK
        <4>2. [left EXCEPT ![t] = left[t] - 1] \in [{A, B, C, D} -> Nat]
          <5> HIDE DEF IInv, SendLeave
          <5> QED
            BY <4>1, OneFewer
        <4> QED
          BY <1>0, <4>2, Zenon
      <3>2. stage' \in [{A, B, C} -> {"enter", "block", "send", "sending", "give"}]
        BY <1>0, ZenonT(30) DEF PcTypeOK
      <3> QED
        BY <1>0, <3>1, <3>2, Zenon DEF PcTypeOK, LoopA, LoopB, LoopC
    <2>3. DataTypeOK'
      BY <1>0 DEF DataTypeOK
    <2>4. FlagTypeOK'
      BY <1>0, Zenon DEF FlagTypeOK
    <2> QED
      BY <2>1, <2>2, <2>3, <2>4, Zenon DEF TypeOK
  <1>2. WaitInv'
    BY <1>0 DEF WaitInv, Waiting, Takes, PcTypeOK
  <1>3. DelayInv'
    BY <1>0 DEF DelayInv, PcTypeOK
  <1>4. MutexInv'
    BY <1>0 DEF MutexInv, Holding, Printing, PcTypeOK
  <1>5. PriorityInv'
    BY <1>0, Zenon DEF PriorityInv
  <1>6. RunsHighest'
    BY <1>0, Zenon DEF RunsHighest
  <1>7. OneTurn'
    BY <1>0, Zenon DEF OneTurn, InTurn, PcTypeOK
  <1>8. UartInv' /\ WireInv' /\ DaemonInv'
    BY <1>0 DEF UartInv, WireInv, DaemonInv, DataTypeOK, PcTypeOK, MutexInv,
       Holding, Printing
  <1>9. ReadingInv' /\ VerdictCurrent'
    BY <1>0, Zenon DEF ReadingInv, VerdictCurrent, InTurn, PcTypeOK
  <1> QED
    BY <1>1, <1>2, <1>3, <1>4, <1>5, <1>6, <1>7, <1>8, <1>9, Zenon DEF IInv

\* vTaskDelayUntil is called between two turns.
LEMMA DelayIInv ==
    ASSUME NEW t \in {A, B, C}, IInv, Delay(t)
    PROVE  IInv'
  <1> USE DEF IInv, TypeOK, Delay, Advance
  <1>0. /\ t \in {A, B}
        /\ pc[t] = "delay" /\ stage[t] = "enter"
        /\ pc' = [pc EXCEPT ![t] = "take"]
        /\ stage' = [stage EXCEPT ![t] = "enter"]
        /\ uxPriority' = uxPriority
        /\ \/ ready' = ready /\ delayed' = delayed
           \/ ready' = ready \ {t} /\ delayed' = delayed \cup {t}
        /\ vTaskSwitchContext
        /\ UNCHANGED <<uxMutexesHeld, uxMessagesWaiting, xMutexHolder,
                       xTasksWaitingToReceive>>
    <2>1. /\ t \in {A, B}
          /\ pc[t] = "delay" /\ stage[t] = "enter"
      BY Zenon DEF PcTypeOK, LoopC, MutexInv, Holding, Printing
    <2>2. /\ pc' = [pc EXCEPT ![t] = "take"]
          /\ stage' = [stage EXCEPT ![t] = "enter"]
      <3>1. Loop(t)[pc[t]] = "take"
        BY <2>1 DEF Loop, LoopA, LoopB
      <3> QED
        BY <2>1, <3>1, Zenon DEF PcTypeOK
    <2> QED
      BY <2>1, <2>2, Zenon DEF xTaskDelayUntil, BlockOnDelayedList, Yield
  <1>1. TypeOK'
    <2>1. KernelTypeOK'
      BY <1>0, Zenon DEF KernelTypeOK, vTaskSwitchContext, HighestPriority
    <2>2. PcTypeOK'
      <3>1. stage' \in [{A, B, C} -> {"enter", "block", "send", "sending", "give"}]
        BY <1>0, ZenonT(30) DEF PcTypeOK
      <3>2. left' \in [{A, B, C, D} -> Nat]
        BY Zenon DEF PcTypeOK
      <3>3. "take" \in Statement /\ "take" \in DOMAIN LoopA /\ "take" \in DOMAIN LoopB
        BY LoopFacts, Zenon DEF Statement
      <3>4. t \in {A, B, C, D} /\ t # C /\ t # D
        BY <1>0, Zenon
      <3> QED
        BY <1>0, <3>1, <3>2, <3>3, <3>4, PcMoves, Zenon
    <2>3. DataTypeOK'
      BY <1>0, Zenon DEF DataTypeOK
    <2>4. FlagTypeOK'
      BY <1>0, Zenon DEF FlagTypeOK
    <2> QED
      BY <2>1, <2>2, <2>3, <2>4, Zenon DEF TypeOK
  <1>2. WaitInv'
    <2>1. \A u \in {A, B, C} \ {t} : pc'[u] = pc[u] /\ stage'[u] = stage[u]
      BY <1>0, Zenon DEF PcTypeOK
    <2> QED
      BY <1>0, <2>1, WaitKept, Zenon
  <1>3. DelayInv'
    <2>1. ASSUME ready' = ready, delayed' = delayed
          PROVE  DelayInv'
      BY <2>1, <1>0 DEF DelayInv, PcTypeOK
    <2>2. ASSUME ready' = ready \ {t}, delayed' = delayed \cup {t}
          PROVE  DelayInv'
      <3>1. Idle \in ready' /\ delayed' \subseteq {A, B, D} /\ delayed' \cap ready' = {}
        BY <1>0, <2>2, Zenon DEF DelayInv
      <3>2. \A u \in {A, B} \cap delayed' : pc'[u] = "take" /\ stage'[u] = "enter"
        BY <1>0, <2>2 DEF DelayInv, PcTypeOK
      <3> QED
        BY <3>1, <3>2, Zenon DEF DelayInv
    <2> QED
      BY <1>0, <2>1, <2>2, Zenon
  <1>4. MutexInv'
    BY <1>0 DEF MutexInv, Holding, Printing, PcTypeOK
  <1>5. PriorityInv'
    BY <1>0, Zenon DEF PriorityInv
  <1>6. RunsHighest'
    BY <1>0, <1>1, SwitchContext, Zenon DEF TypeOK
  <1>7. OneTurn'
    BY <1>0, Zenon DEF OneTurn, InTurn, PcTypeOK
  <1>8. UartInv' /\ WireInv' /\ DaemonInv'
    BY <1>0 DEF UartInv, WireInv, DaemonInv, DataTypeOK, PcTypeOK, MutexInv,
       Holding, Printing
  <1>9. ReadingInv' /\ VerdictCurrent'
    BY <1>0, Zenon DEF ReadingInv, VerdictCurrent, InTurn, PcTypeOK
  <1> QED
    BY <1>1, <1>2, <1>3, <1>4, <1>5, <1>6, <1>7, <1>8, <1>9, Zenon DEF IInv

\* While the timer daemon runs TaskCodeC waits for zSemaphore: it is more urgent,
\* and so is a task it would be waiting for in print().
LEMMA DaemonRuns ==
    ASSUME IInv, pxCurrentTCB = D
    PROVE  Waiting(z) = <<C>> /\ uxMessagesWaiting[z] = 0
  <1> USE DEF IInv, TypeOK
  <1>1. uxPriority[D] = Priority[D]
    BY Zenon DEF PriorityInv, MutexInv
  <1>2. \A t \in {A, B, C} : t \in ready => uxPriority[t] <= Priority[D]
    BY <1>1 DEF RunsHighest
  <1>3. \A t \in {A, B, C} : t \in ready => uxPriority[t] # Priority[C]
    BY <1>2, PriorityFacts
  <1>4. C \notin ready
    BY <1>3, Zenon DEF PriorityInv
  <1>5. Waiting(m) # <<C>>
    BY <1>3, Zenon DEF WaitInv, MutexInv
  <1>6. Waiting(z) = <<C>>
    BY <1>4, <1>5, Zenon DEF WaitInv
  <1> QED
    BY <1>6, Zenon DEF WaitInv, Takes

\* The start command only touches the timer.
LEMMA DaemonCommandsIInv ==
    ASSUME IInv, DaemonCommands
    PROVE  IInv'
  <1> USE DEF IInv, TypeOK, DaemonCommands, kernelVars
  <1>0. /\ pc[D] = "commands"
        /\ pc' = [pc EXCEPT ![D] = IF ~active /\ due > 0 THEN "callback" ELSE "process"]
        /\ left' = [left EXCEPT ![D] = IF ~active /\ due > 0 THEN due ELSE left[D]]
        /\ due \in Nat
        /\ due' \in {0, due}
    BY BoundAssumption DEF PcTypeOK, DataTypeOK
  <1>1. TypeOK'
    <2>1. KernelTypeOK'
      BY <1>0, Zenon DEF KernelTypeOK
    <2>2. PcTypeOK'
      BY <1>0, Zenon DEF PcTypeOK, Statement, LoopA, LoopB, LoopC
    <2>3. DataTypeOK'
      BY <1>0, BoundAssumption DEF DataTypeOK
    <2>4. FlagTypeOK'
      BY <1>0, Zenon DEF FlagTypeOK
    <2> QED
      BY <2>1, <2>2, <2>3, <2>4, Zenon DEF TypeOK
  <1>2. WaitInv'
    BY <1>0, Zenon DEF WaitInv, Waiting, Takes, PcTypeOK
  <1>3. DelayInv'
    BY <1>0, Zenon DEF DelayInv, PcTypeOK
  <1>4. MutexInv'
    BY <1>0 DEF MutexInv, Holding, Printing, PcTypeOK
  <1>5. PriorityInv'
    BY <1>0, Zenon DEF PriorityInv
  <1>6. RunsHighest'
    BY <1>0, Zenon DEF RunsHighest
  <1>7. OneTurn'
    BY <1>0, Zenon DEF OneTurn, InTurn, PcTypeOK
  <1>8. UartInv' /\ WireInv' /\ DaemonInv'
    BY <1>0, Zenon DEF UartInv, WireInv, DaemonInv, DataTypeOK, PcTypeOK, MutexInv,
       Holding, Printing
  <1>9. ReadingInv' /\ VerdictCurrent'
    BY <1>0, Zenon DEF ReadingInv, VerdictCurrent, InTurn, PcTypeOK
  <1> QED
    BY <1>1, <1>2, <1>3, <1>4, <1>5, <1>6, <1>7, <1>8, <1>9, Zenon DEF IInv

\* The daemon starts its callbacks or waits; it holds nothing.
LEMMA DaemonProcessIInv ==
    ASSUME IInv, DaemonProcess
    PROVE  IInv'
  <1> USE DEF IInv, TypeOK
  <1> DEFINE expired == active /\ due > 0
  <1>a. /\ pxCurrentTCB = D /\ pc[D] = "process"
        /\ UNCHANGED <<stage, received_value, g_last_speed, high, IsTxBusy,
                       active, wire, unchecked>>
    BY Zenon DEF DaemonProcess
  <1>b. due \in Nat
    BY DEF DataTypeOK
  <1>c. /\ pc' = [pc EXCEPT ![D] = IF expired THEN "callback" ELSE "commands"]
        /\ left' = [left EXCEPT ![D] = IF expired THEN due ELSE left[D]]
        /\ due' \in {0, due}
    BY Zenon DEF DaemonProcess, PcTypeOK
  <1>d. /\ UNCHANGED <<uxPriority, uxMutexesHeld, uxMessagesWaiting, xMutexHolder,
                       xTasksWaitingToReceive>>
        /\ \/ ready' = ready /\ delayed' = delayed
           \/ ready' = ready \ {D} /\ delayed' = delayed \cup {D}
        /\ (pxCurrentTCB' = pxCurrentTCB /\ ready' = ready) \/ vTaskSwitchContext
    BY Zenon DEF DaemonProcess, BlockOnDelayedList, Yield, kernelVars
  <1>0. /\ pxCurrentTCB = D /\ pc[D] = "process" /\ due \in Nat
        /\ pc' = [pc EXCEPT ![D] = IF expired THEN "callback" ELSE "commands"]
        /\ left' = [left EXCEPT ![D] = IF expired THEN due ELSE left[D]]
        /\ due' \in {0, due}
        /\ UNCHANGED <<uxPriority, uxMutexesHeld, uxMessagesWaiting, xMutexHolder,
                       xTasksWaitingToReceive>>
        /\ \/ ready' = ready /\ delayed' = delayed
           \/ ready' = ready \ {D} /\ delayed' = delayed \cup {D}
        /\ UNCHANGED <<stage, received_value, g_last_speed, high, IsTxBusy,
                       active, wire, unchecked>>
    BY <1>a, <1>b, <1>c, <1>d, Zenon
  <1>1. TypeOK'
    <2>1. KernelTypeOK'
      <3>1. ready' \in SUBSET Tasks /\ delayed' \in SUBSET Tasks
        BY <1>0, Zenon DEF KernelTypeOK
      <3>2. pxCurrentTCB' \in Tasks
        BY <1>a, <1>d, <3>1, Zenon DEF vTaskSwitchContext, HighestPriority
      <3> QED
        BY <1>0, <3>1, <3>2, Zenon DEF KernelTypeOK
    <2>2. PcTypeOK'
      BY <1>0, Zenon DEF PcTypeOK, Statement, LoopA, LoopB, LoopC
    <2>3. DataTypeOK'
      BY <1>0, BoundAssumption DEF DataTypeOK
    <2>4. FlagTypeOK'
      BY <1>0, Zenon DEF FlagTypeOK
    <2> QED
      BY <2>1, <2>2, <2>3, <2>4 DEF TypeOK
  <1>2. WaitInv'
    BY <1>0, Zenon DEF WaitInv, Waiting, Takes, PcTypeOK
  <1>3. DelayInv'
    <2>1. CASE ready' = ready /\ delayed' = delayed
      BY <1>0, <2>1, Zenon DEF DelayInv, PcTypeOK
    <2>2. CASE ready' = ready \ {D} /\ delayed' = delayed \cup {D}
      <3>1. Idle \in ready' /\ delayed' \subseteq {A, B, D} /\ delayed' \cap ready' = {}
        BY <2>2 DEF DelayInv
      <3>2. \A u \in {A, B} \cap delayed' : pc'[u] = "take" /\ stage'[u] = "enter"
        BY <1>0, <2>2, Zenon DEF DelayInv, PcTypeOK
      <3> QED
        BY <3>1, <3>2 DEF DelayInv
    <2> QED
      BY <1>0, <2>1, <2>2, Zenon
  <1>4. MutexInv'
    BY <1>0 DEF MutexInv, Holding, Printing, PcTypeOK
  <1>5. PriorityInv'
    BY <1>0, Zenon DEF PriorityInv
  <1>6. RunsHighest'
    <2>1. CASE pxCurrentTCB' = pxCurrentTCB /\ ready' = ready
      BY <1>0, <2>1, Zenon DEF RunsHighest
    <2>2. CASE vTaskSwitchContext
      BY <1>1, <2>2, SwitchContext DEF TypeOK
    <2> QED
      BY <1>d, <2>1, <2>2, Zenon
  <1>7. OneTurn'
    BY <1>0, Zenon DEF OneTurn, InTurn, PcTypeOK
  <1>8. UartInv' /\ WireInv' /\ DaemonInv'
    BY <1>0, Zenon DEF UartInv, WireInv, DaemonInv, DataTypeOK, PcTypeOK, MutexInv,
       Holding, Printing
  <1>9. ReadingInv' /\ VerdictCurrent'
    BY <1>0, Zenon DEF ReadingInv, VerdictCurrent, InTurn, PcTypeOK
  <1> QED
    BY <1>1, <1>2, <1>3, <1>4, <1>5, <1>6, <1>7, <1>8, <1>9, Zenon DEF IInv

\* A tick only moves delayed tasks to the ready list.
LEMMA TickIInv ==
    ASSUME IInv, Tick
    PROVE  IInv'
  <1> USE DEF IInv, TypeOK
  <1>a. PICK woken \in SUBSET delayed :
            /\ xTaskIncrementTick(woken)
            /\ due' = due \/ (due < MaxDue /\ due' = due + 1)
    <2>1. PICK w \in SUBSET (delayed \ {D}) :
              \/ xTaskIncrementTick(w) /\ due' = due
              \/ /\ xTaskIncrementTick(w \cup (delayed \cap {D}))
                 /\ due < MaxDue /\ due' = due + 1
      BY Zenon DEF Tick
    <2>2. w \in SUBSET delayed /\ w \cup (delayed \cap {D}) \in SUBSET delayed
      OBVIOUS
    <2>3. CASE xTaskIncrementTick(w) /\ due' = due
      BY <2>2, <2>3
    <2>4. CASE /\ xTaskIncrementTick(w \cup (delayed \cap {D}))
               /\ due < MaxDue /\ due' = due + 1
      BY <2>2, <2>4
    <2> QED
      BY <2>1, <2>3, <2>4, Zenon
  <1>0. /\ woken \subseteq delayed
        /\ delayed' = delayed \ woken
        /\ ready' = ready \cup woken
        /\ due' = due \/ (due < MaxDue /\ due' = due + 1)
        /\ UNCHANGED <<uxPriority, uxMutexesHeld, uxMessagesWaiting, xMutexHolder,
                       xTasksWaitingToReceive>>
        /\ UNCHANGED <<pc, stage, left, received_value, g_last_speed, high,
                       IsTxBusy, active, wire, unchecked>>
    BY <1>a, Zenon DEF xTaskIncrementTick, Tick
  <1>k. /\ pxCurrentTCB' = pxCurrentTCB \/ vTaskSwitchContext
        /\ xSwitchRequired(woken) => vTaskSwitchContext
    BY <1>a, Zenon DEF xTaskIncrementTick
  <1>1. TypeOK'
    <2>1. KernelTypeOK'
      <3>1. ready' \in SUBSET Tasks /\ delayed' \in SUBSET Tasks
        BY <1>0, Zenon DEF KernelTypeOK
      <3>2. pxCurrentTCB' \in Tasks
        BY <1>k, <3>1, Zenon DEF vTaskSwitchContext, HighestPriority, KernelTypeOK
      <3> QED
        BY <1>0, <3>1, <3>2, Zenon DEF KernelTypeOK
    <2>2. PcTypeOK'
      BY <1>0, Zenon DEF PcTypeOK, Statement, LoopA, LoopB, LoopC
    <2>3. DataTypeOK'
      BY <1>0, BoundAssumption DEF DataTypeOK
    <2>4. FlagTypeOK'
      BY <1>0, Zenon DEF FlagTypeOK
    <2> QED
      BY <2>1, <2>2, <2>3, <2>4 DEF TypeOK
  <1>2. WaitInv'
    <2>1. C \in ready' <=> C \in ready
      BY <1>0, Zenon DEF DelayInv
    <2>2. \A t \in {A, B, C} : t \notin ready \cup delayed => t \notin ready' \cup delayed'
      BY <1>0, Zenon
    <2>3. Takes(A)' = x /\ Takes(B)' = y /\ Takes(C)' = z
      BY DEF Takes
    <2> QED
      BY <1>0, <2>1, <2>2, <2>3, Zenon DEF WaitInv, Waiting, Takes
  <1>3. DelayInv'
    BY <1>0, Zenon DEF DelayInv, PcTypeOK
  <1>4. MutexInv'
    BY <1>0 DEF MutexInv, Holding, Printing, PcTypeOK
  <1>5. PriorityInv'
    BY <1>0, Zenon DEF PriorityInv
  <1>6. RunsHighest'
    <2>1. CASE vTaskSwitchContext
      BY <1>1, <2>1, SwitchContext DEF TypeOK
    <2>2. CASE ~vTaskSwitchContext
      <3>1. pxCurrentTCB' = pxCurrentTCB /\ ~xSwitchRequired(woken)
        BY <1>k, <2>2
      <3>2. \A t \in woken : uxPriority[t] <= uxPriority[pxCurrentTCB]
        <4>1. \A t \in woken : ~(uxPriority[t] > uxPriority[pxCurrentTCB])
          BY <3>1 DEF xSwitchRequired
        <4>2. \A t \in Tasks : uxPriority[t] \in Nat
          BY Zenon DEF KernelTypeOK
        <4>3. woken \subseteq Tasks /\ pxCurrentTCB \in Tasks
          BY <1>0, Zenon DEF KernelTypeOK
        <4> HIDE DEF IInv
        <4> QED
          BY <4>1, <4>2, <4>3
      <3> QED
        BY <1>0, <3>1, <3>2, Zenon DEF RunsHighest
    <2> QED
      BY <2>1, <2>2
  <1>7. OneTurn'
    BY <1>0, Zenon DEF OneTurn, InTurn, PcTypeOK
  <1>8. UartInv' /\ WireInv' /\ DaemonInv'
    BY <1>0, Zenon DEF UartInv, WireInv, DaemonInv, DataTypeOK, PcTypeOK, MutexInv,
       Holding, Printing
  <1>9. ReadingInv' /\ VerdictCurrent'
    BY <1>0, Zenon DEF ReadingInv, VerdictCurrent, InTurn, PcTypeOK
  <1> QED
    BY <1>1, <1>2, <1>3, <1>4, <1>5, <1>6, <1>7, <1>8, <1>9, Zenon DEF IInv

-----------------------------------------------------------------------------
(* The theorems. *)

-----------------------------------------------------------------------------
(* xSemaphoreTake.                                                         *)

\* A task takes the semaphore it starts a round with.
LEMMA TakeTurnIInv ==
    ASSUME NEW t \in {A, B, C}, IInv, TakeFirst(t), pc[t] = "take",
           uxMessagesWaiting[Takes(t)] # 0
    PROVE  IInv'
  <1> USE DEF IInv, TypeOK
  <1>0. /\ pxCurrentTCB = t /\ t \in ready
        /\ pc' = [pc EXCEPT ![t] = "print1"]
        /\ stage' = [stage EXCEPT ![t] = "enter"]
        /\ uxMessagesWaiting[Takes(t)] = 1 /\ Takes(t) \in {x, y, z}
        /\ uxMessagesWaiting' = [uxMessagesWaiting EXCEPT ![Takes(t)] = 0]
        /\ UNCHANGED <<pxCurrentTCB, ready, delayed, uxPriority, uxMutexesHeld,
                       xMutexHolder, xTasksWaitingToReceive>>
        /\ UNCHANGED <<left, received_value, g_last_speed, high, IsTxBusy,
                       active, due, wire, unchecked>>
    <2>1. Wanted(t) = Takes(t) /\ Takes(t) \in {x, y, z}
      BY DEF Wanted, Takes
    <2>2. Loop(t)[pc[t]] = "print1"
      BY DEF Loop, LoopA, LoopB, LoopC
    <2>3. uxMessagesWaiting[Takes(t)] = 1
      BY <2>1, Zenon DEF MutexInv
    <2>4. /\ TakeAvailable(t, Takes(t)) /\ Advance(t) /\ pxCurrentTCB = t
          /\ UNCHANGED <<left, received_value, g_last_speed, high, IsTxBusy,
                         active, due, wire, unchecked>>
      BY <2>1, Zenon DEF TakeFirst
    <2>5. /\ pc' = [pc EXCEPT ![t] = "print1"]
          /\ stage' = [stage EXCEPT ![t] = "enter"]
      BY <2>2, <2>4, Zenon DEF Advance, PcTypeOK
    <2>6. uxMessagesWaiting' = [uxMessagesWaiting EXCEPT ![Takes(t)] = 0]
      BY <2>1, <2>3, <2>4 DEF TakeAvailable, KernelTypeOK
    <2>7. UNCHANGED <<pxCurrentTCB, ready, delayed, uxPriority, uxMutexesHeld,
                      xMutexHolder, xTasksWaitingToReceive>>
      BY <2>1, <2>4, Zenon DEF TakeAvailable
    <2> QED
      BY <2>1, <2>3, <2>4, <2>5, <2>6, <2>7, Zenon DEF RunsHighest
  <1>1. TypeOK'
    <2>1. KernelTypeOK'
      BY <1>0, Zenon DEF KernelTypeOK
    <2>2. PcTypeOK'
      BY <1>0, Zenon DEF PcTypeOK, Statement, LoopA, LoopB, LoopC
    <2>3. DataTypeOK'
      BY <1>0, Zenon DEF DataTypeOK
    <2>4. FlagTypeOK'
      BY <1>0, Zenon DEF FlagTypeOK
    <2> QED
      BY <2>1, <2>2, <2>3, <2>4 DEF TypeOK
  <1>2. WaitInv'
    BY <1>0, ZenonT(30) DEF WaitInv, Waiting, Takes, PcTypeOK, KernelTypeOK
  <1>3. DelayInv'
    BY <1>0 DEF DelayInv, PcTypeOK
  <1>4. MutexInv'
    <2>1. \A s \in Sems : uxMessagesWaiting'[s] \in {0, 1}
      BY <1>0, Zenon DEF MutexInv, KernelTypeOK
    <2>2. uxMessagesWaiting'[m] = uxMessagesWaiting[m]
      BY <1>0, Zenon DEF KernelTypeOK, Takes
    <2>3. \A v \in {A, B, C} :
              /\ stage'[v] = stage[v]
              /\ Holding(v) \/ stage[v] = "block" => pc'[v] = pc[v]
      <3>1. stage[t] = "enter"
        BY Zenon DEF TakeFirst
      <3> QED
        BY <1>0, <3>1, Zenon DEF PcTypeOK, Holding
    <2>4. UNCHANGED <<ready, left, xMutexHolder, uxMutexesHeld>>
      BY <1>0, Zenon
    <2> HIDE DEF IInv
    <2> QED
      BY <2>1, <2>2, <2>3, <2>4 DEF MutexInv, Holding, IInv
  <1>5. PriorityInv'
    BY <1>0, Zenon DEF PriorityInv
  <1>6. RunsHighest'
    BY <1>0, Zenon DEF RunsHighest
  <1>7. OneTurn'
    <2>1. CASE t = A
      <3>1. ~InTurn(A) /\ ~InTurn(B) /\ uxMessagesWaiting[y] = 0
        BY <1>0, <2>1 DEF OneTurn, Takes, MutexInv
      <3>2. uxMessagesWaiting'[x] = 0 /\ uxMessagesWaiting'[y] = 0
        BY <1>0, <2>1, <3>1, Zenon DEF Takes, KernelTypeOK
      <3> QED
        BY <1>0, <2>1, <3>1, <3>2, SMTT(30) DEF OneTurn, InTurn, PcTypeOK
    <2>2. CASE t = B
      <3>1. ~InTurn(A) /\ ~InTurn(B) /\ uxMessagesWaiting[x] = 0
        BY <1>0, <2>2 DEF OneTurn, Takes, MutexInv
      <3>2. uxMessagesWaiting'[x] = 0 /\ uxMessagesWaiting'[y] = 0
        BY <1>0, <2>2, <3>1, Zenon DEF Takes, KernelTypeOK
      <3> QED
        BY <1>0, <2>2, <3>1, <3>2, SMTT(30) DEF OneTurn, InTurn, PcTypeOK
    <2>3. CASE t = C
      BY <1>0, <2>3, Zenon DEF OneTurn, InTurn, PcTypeOK, KernelTypeOK, Takes
    <2> QED
      BY <2>1, <2>2, <2>3
  <1>8. UartInv' /\ WireInv' /\ DaemonInv'
    BY <1>0, ZenonT(30) DEF UartInv, WireInv, DaemonInv, DataTypeOK, PcTypeOK, MutexInv,
       Holding, Printing
  <1>9. ReadingInv' /\ VerdictCurrent'
    BY <1>0, Zenon DEF ReadingInv, VerdictCurrent, InTurn, OneTurn, PcTypeOK,
       KernelTypeOK, Takes, MutexInv
  <1> QED
    BY <1>1, <1>2, <1>3, <1>4, <1>5, <1>6, <1>7, <1>8, <1>9, Zenon DEF IInv

\* A task enters print(): nobody else is in it.
LEMMA TakeMutexIInv ==
    ASSUME NEW t \in {A, B, C}, IInv, TakeFirst(t), pc[t] \in Printing,
           uxMessagesWaiting[m] # 0
    PROVE  IInv'
  <1> USE DEF IInv, TypeOK
  <1>0. /\ pxCurrentTCB = t /\ t \in ready /\ pc[t] \in Printing /\ stage[t] = "enter"
        /\ stage' = [stage EXCEPT ![t] = "send"]
        /\ uxMessagesWaiting[m] = 1 /\ xMutexHolder[m] = NoOne
        /\ uxMessagesWaiting' = [uxMessagesWaiting EXCEPT ![m] = 0]
        /\ xMutexHolder' = [xMutexHolder EXCEPT ![m] = t]
        /\ uxMutexesHeld' = [uxMutexesHeld EXCEPT ![t] = uxMutexesHeld[t] + 1]
        /\ \E n \in Nat \ {0} : left' = [left EXCEPT ![t] = n]
        /\ UNCHANGED <<pxCurrentTCB, ready, delayed, uxPriority,
                       xTasksWaitingToReceive>>
        /\ UNCHANGED <<pc, received_value, g_last_speed, high, IsTxBusy, active,
                       due, wire, unchecked>>
    <2>1. Wanted(t) = m /\ pc[t] # "take"
      BY DEF Wanted, Printing
    <2>2. uxMessagesWaiting[m] = 1 /\ xMutexHolder[m] = NoOne
      BY <2>1, Zenon DEF MutexInv
    <2>3. 1 .. MaxLen \subseteq Nat \ {0}
      BY BoundAssumption
    <2>4. /\ TakeAvailable(t, m) /\ pxCurrentTCB = t /\ stage[t] = "enter"
          /\ stage' = [stage EXCEPT ![t] = "send"]
          /\ \E n \in 1 .. MaxLen : left' = [left EXCEPT ![t] = n]
          /\ UNCHANGED <<pc, received_value, g_last_speed, high, IsTxBusy,
                         active, due, wire, unchecked>>
      BY <2>1, Zenon DEF TakeFirst
    <2>5. /\ uxMessagesWaiting' = [uxMessagesWaiting EXCEPT ![m] = 0]
          /\ xMutexHolder' = [xMutexHolder EXCEPT ![m] = t]
          /\ uxMutexesHeld' = [uxMutexesHeld EXCEPT ![t] = uxMutexesHeld[t] + 1]
          /\ UNCHANGED <<pxCurrentTCB, ready, delayed, uxPriority,
                         xTasksWaitingToReceive>>
      <3>1. m \in {m}
        OBVIOUS
      <3>2. uxMessagesWaiting[m] - 1 = 0
        BY <2>2
      <3> QED
        BY <2>4, <3>1, <3>2, Zenon DEF TakeAvailable
    <2>6. \E n \in Nat \ {0} : left' = [left EXCEPT ![t] = n]
      BY <2>3, <2>4, Zenon
    <2> QED
      BY <2>2, <2>4, <2>5, <2>6, Zenon DEF RunsHighest
  <1>1. TypeOK'
    <2>1. KernelTypeOK'
      <3>1. uxMutexesHeld' \in [Tasks -> Nat]
        <4>1. uxMutexesHeld \in [Tasks -> Nat]
          BY Zenon DEF KernelTypeOK
        <4>2. uxMutexesHeld' = [uxMutexesHeld EXCEPT ![t] = uxMutexesHeld[t] + 1]
          BY <1>0, Zenon
        <4> HIDE DEF IInv
        <4> QED
          BY <4>1, <4>2
      <3>2. xMutexHolder' \in [Sems -> Tasks \cup {NoOne}]
        BY <1>0, Zenon DEF KernelTypeOK
      <3>3. uxMessagesWaiting' \in [Sems -> Nat]
        BY <1>0, Zenon DEF KernelTypeOK
      <3> QED
        BY <1>0, <3>1, <3>2, <3>3, Zenon DEF KernelTypeOK
    <2>2. PcTypeOK'
      <3>1. stage' \in [{A, B, C} -> {"enter", "block", "send", "sending", "give"}]
        BY <1>0, Zenon DEF PcTypeOK
      <3>2. left' \in [{A, B, C, D} -> Nat]
        BY <1>0, Zenon DEF PcTypeOK
      <3> QED
        BY <1>0, <3>1, <3>2, Zenon DEF PcTypeOK, LoopA, LoopB, LoopC
    <2>3. DataTypeOK'
      BY <1>0, Zenon DEF DataTypeOK
    <2>4. FlagTypeOK'
      BY <1>0, Zenon DEF FlagTypeOK
    <2> QED
      BY <2>1, <2>2, <2>3, <2>4 DEF TypeOK
  <1>2. WaitInv'
    BY <1>0, ZenonT(30) DEF WaitInv, Waiting, Takes, PcTypeOK, KernelTypeOK, Printing
  <1>3. DelayInv'
    BY <1>0 DEF DelayInv, PcTypeOK
  <1>4. MutexInv'
    <2>1. /\ t \in Tasks /\ m \in Sems
          /\ uxMessagesWaiting \in [Sems -> Nat] /\ uxMutexesHeld \in [Tasks -> Nat]
          /\ stage \in [{A, B, C} -> {"enter", "block", "send", "sending", "give"}]
          /\ left \in [{A, B, C, D} -> Nat]
      BY Zenon DEF KernelTypeOK, PcTypeOK
    <2>2. xMutexHolder'[m] = t /\ uxMessagesWaiting'[m] = 0
      BY <1>0, <2>1, Zenon DEF KernelTypeOK
    <2>3. \A s \in Sems : uxMessagesWaiting'[s] \in {0, 1}
      BY <1>0, <2>1, Zenon DEF MutexInv
    <2>4. ASSUME NEW u \in {A, B, C}
          PROVE  /\ xMutexHolder'[m] = u <=> Holding(u)'
                 /\ Holding(u)' => pc'[u] \in Printing /\ u \in ready'
                 /\ stage'[u] = "block" => pc'[u] \in {"take"} \cup Printing
                 /\ stage'[u] \in {"send", "sending"} => left'[u] > 0
      <3>1. stage'[t] = "send" /\ left'[t] \in Nat \ {0}
        BY <1>0, <2>1, Zenon
      <3>2. u # t => /\ stage'[u] = stage[u] /\ left'[u] = left[u]
                     /\ ~Holding(u) /\ ~Holding(u)'
        BY <1>0, <2>1, Zenon DEF MutexInv, Holding
      <3>3. left'[t] > 0
        <4> HIDE DEF IInv
        <4> QED
          BY <3>1
      <3>4. CASE u = t
        BY <1>0, <2>2, <3>1, <3>3, <3>4, Zenon DEF Holding
      <3>5. CASE u # t
        BY <1>0, <2>2, <3>2, <3>5, Zenon DEF MutexInv
      <3> QED
        BY <3>4, <3>5, Zenon
    <2>5. \A u \in Tasks : uxMutexesHeld'[u] = IF xMutexHolder'[m] = u THEN 1 ELSE 0
      BY <1>0, <2>1, <2>2 DEF MutexInv
    <2> QED
      BY <2>2, <2>3, <2>4, <2>5, Zenon DEF MutexInv
  <1>5. PriorityInv'
    BY <1>0, Zenon DEF PriorityInv
  <1>6. RunsHighest'
    BY <1>0, Zenon DEF RunsHighest
  <1>7. OneTurn'
    BY <1>0, Zenon DEF OneTurn, InTurn, PcTypeOK, KernelTypeOK, MutexInv
  <1>8. UartInv' /\ WireInv' /\ DaemonInv'
    BY <1>0, Zenon DEF UartInv, WireInv, DaemonInv, DataTypeOK, PcTypeOK, MutexInv,
       Holding, Printing
  <1>9. ReadingInv' /\ VerdictCurrent'
    BY <1>0, Zenon DEF ReadingInv, VerdictCurrent, InTurn, PcTypeOK, KernelTypeOK,
       MutexInv
  <1> QED
    BY <1>1, <1>2, <1>3, <1>4, <1>5, <1>6, <1>7, <1>8, <1>9, Zenon DEF IInv

\* The semaphore is empty: the task goes on to block.
LEMMA TakeEmptyIInv ==
    ASSUME NEW t \in {A, B, C}, IInv, TakeFirst(t), uxMessagesWaiting[Wanted(t)] = 0
    PROVE  IInv'
  <1> USE DEF IInv, TypeOK, kernelVars
  <1>0. /\ pxCurrentTCB = t /\ t \in ready /\ pc[t] \in {"take"} \cup Printing
        /\ stage[t] = "enter"
        /\ stage' = [stage EXCEPT ![t] = "block"]
        /\ UNCHANGED <<kernelVars, pc, left, received_value, g_last_speed, high,
                       IsTxBusy, active, due, wire, unchecked>>
    BY DEF TakeFirst, TakeAvailable, RunsHighest
  <1>1. TypeOK'
    <2>1. KernelTypeOK'
      BY <1>0, Zenon DEF KernelTypeOK
    <2>2. PcTypeOK'
      BY <1>0, Zenon DEF PcTypeOK, Statement, LoopA, LoopB, LoopC
    <2>3. DataTypeOK'
      BY <1>0, Zenon DEF DataTypeOK
    <2>4. FlagTypeOK'
      BY <1>0, Zenon DEF FlagTypeOK
    <2> QED
      BY <2>1, <2>2, <2>3, <2>4 DEF TypeOK
  <1>2. WaitInv'
    <2>1. \A u \in {A, B, C} \ {t} : stage'[u] = stage[u]
      BY <1>0, Zenon DEF PcTypeOK
    <2> QED
      BY <1>0, <2>1, WaitKept, Zenon
  <1>3. DelayInv'
    BY <1>0 DEF DelayInv, PcTypeOK
  <1>4. MutexInv'
    <2>1. stage'[t] = "block" /\ \A u \in {A, B, C} \ {t} : stage'[u] = stage[u]
      BY <1>0, Zenon DEF PcTypeOK
    <2>2. Stays(t)
      BY <1>0, <2>1, Zenon DEF Stays, MutexInv, Holding
    <2>3. ASSUME NEW u \in {A, B, C}, u # t PROVE Stays(u)
      <3>1. pc'[u] = pc[u] /\ stage'[u] = stage[u] /\ left'[u] = left[u]
        BY <1>0, <2>1, <2>3, Zenon
      <3>2. u \in ready => u \in ready'
        BY <1>0, <2>3, Zenon
      <3> QED
        BY <3>1, <3>2, StaysPut, Zenon
    <2>4. \A s \in Sems : uxMessagesWaiting'[s] \in {0, 1}
      BY <1>0, Zenon DEF MutexInv
    <2> QED
      BY <1>0, <2>2, <2>3, <2>4, MutexKept, Zenon
  <1>5. PriorityInv'
    BY <1>0, Zenon DEF PriorityInv
  <1>6. RunsHighest'
    BY <1>0, Zenon DEF RunsHighest
  <1>7. OneTurn'
    BY <1>0, Zenon DEF OneTurn, InTurn, PcTypeOK
  <1>8. UartInv' /\ WireInv' /\ DaemonInv'
    <2>1. UartInv' /\ WireInv'
      BY <1>0, SendersKept, Zenon DEF PcTypeOK
    <2>2. DaemonInv'
      BY <1>0, Zenon DEF DaemonInv, PcTypeOK
    <2> QED
      BY <2>1, <2>2, Zenon
  <1>9. ReadingInv' /\ VerdictCurrent'
    BY <1>0, Zenon DEF ReadingInv, VerdictCurrent, InTurn, PcTypeOK
  <1> QED
    BY <1>1, <1>2, <1>3, <1>4, <1>5, <1>6, <1>7, <1>8, <1>9, Zenon DEF IInv

\* A unit arrived before the task blocked: it tries again.
LEMMA TakeRetryIInv ==
    ASSUME NEW t \in {A, B, C}, IInv, TakeSecond(t), UNCHANGED kernelVars
    PROVE  IInv'
  <1> USE DEF IInv, TypeOK, kernelVars
  <1>0. /\ pxCurrentTCB = t /\ t \in ready /\ pc[t] \in {"take"} \cup Printing
        /\ stage[t] = "block"
        /\ stage' = [stage EXCEPT ![t] = "enter"]
        /\ UNCHANGED <<kernelVars, pc, left, received_value, g_last_speed, high,
                       IsTxBusy, active, due, wire, unchecked>>
    BY Zenon DEF TakeSecond, RunsHighest
  <1>1. TypeOK'
    <2>1. KernelTypeOK'
      BY <1>0, Zenon DEF KernelTypeOK
    <2>2. PcTypeOK'
      BY <1>0, Zenon DEF PcTypeOK, Statement, LoopA, LoopB, LoopC
    <2>3. DataTypeOK'
      BY <1>0, Zenon DEF DataTypeOK
    <2>4. FlagTypeOK'
      BY <1>0, Zenon DEF FlagTypeOK
    <2> QED
      BY <2>1, <2>2, <2>3, <2>4, Zenon DEF TypeOK
  <1>2. WaitInv'
    <2>1. \A u \in {A, B, C} \ {t} : stage'[u] = stage[u]
      BY <1>0, Zenon DEF PcTypeOK
    <2> QED
      BY <1>0, <2>1, WaitKept, Zenon
  <1>3. DelayInv'
    BY <1>0, Zenon DEF DelayInv, PcTypeOK
  <1>4. MutexInv'
    <2>1. stage'[t] = "enter" /\ \A u \in {A, B, C} \ {t} : stage'[u] = stage[u]
      BY <1>0, Zenon DEF PcTypeOK
    <2>2. Stays(t)
      BY <1>0, <2>1, Zenon DEF Stays, MutexInv, Holding
    <2>3. ASSUME NEW u \in {A, B, C}, u # t PROVE Stays(u)
      <3>1. pc'[u] = pc[u] /\ stage'[u] = stage[u] /\ left'[u] = left[u]
        BY <1>0, <2>1, <2>3, Zenon
      <3>2. u \in ready => u \in ready'
        BY <1>0, <2>3, Zenon
      <3> QED
        BY <3>1, <3>2, StaysPut, Zenon
    <2>4. \A s \in Sems : uxMessagesWaiting'[s] \in {0, 1}
      BY <1>0, Zenon DEF MutexInv
    <2> QED
      BY <1>0, <2>2, <2>3, <2>4, MutexKept, Zenon
  <1>5. PriorityInv'
    BY <1>0, Zenon DEF PriorityInv
  <1>6. RunsHighest'
    BY <1>0, Zenon DEF RunsHighest
  <1>7. OneTurn'
    BY <1>0, Zenon DEF OneTurn, InTurn, PcTypeOK
  <1>8. UartInv' /\ WireInv' /\ DaemonInv'
    <2>1. UartInv' /\ WireInv'
      BY <1>0, SendersKept, Zenon DEF PcTypeOK
    <2>2. DaemonInv'
      BY <1>0, Zenon DEF DaemonInv, PcTypeOK
    <2> QED
      BY <2>1, <2>2, Zenon
  <1>9. ReadingInv' /\ VerdictCurrent'
    BY <1>0, Zenon DEF ReadingInv, VerdictCurrent, InTurn, PcTypeOK
  <1> QED
    BY <1>1, <1>2, <1>3, <1>4, <1>5, <1>6, <1>7, <1>8, <1>9, Zenon DEF IInv

\* The task waits for the semaphore it starts a round with.
LEMMA WaitTurnIInv ==
    ASSUME NEW t \in {A, B, C}, IInv, TakeSecond(t), TakeBlocks(t, Takes(t)), pc[t] = "take"
    PROVE  IInv'
  <1> USE DEF IInv, TypeOK
  <1>0. /\ pxCurrentTCB = t /\ t \in ready /\ stage[t] = "block"
        /\ Takes(t) \in {x, y, z} /\ uxMessagesWaiting[Takes(t)] = 0
        /\ xTasksWaitingToReceive' = [xTasksWaitingToReceive EXCEPT ![Takes(t)] = <<t>>]
        /\ ready' = ready \ {t}
        /\ vTaskSwitchContext
        /\ stage' = [stage EXCEPT ![t] = "enter"]
        /\ UNCHANGED <<delayed, uxPriority, uxMutexesHeld, uxMessagesWaiting,
                       xMutexHolder>>
        /\ UNCHANGED <<pc, left, received_value, g_last_speed, high, IsTxBusy,
                       active, due, wire, unchecked>>
    <2>1. Takes(t) \in {x, y, z}
      BY DEF Takes
    <2>2. pxCurrentTCB = t /\ t \in ready /\ stage[t] = "block"
      BY Zenon DEF TakeSecond, RunsHighest
    <2>3. vListInsert(xTasksWaitingToReceive[Takes(t)], t) = <<t>>
      <3>1. xTasksWaitingToReceive[Takes(t)] = <<>>
        BY <2>2, Zenon DEF WaitInv, Waiting
      <3> QED
        BY <3>1, SingleWaiter
    <2>4. uxPriority' = uxPriority
      BY <2>1, Zenon DEF TakeBlocks, xTaskPriorityInherit
    <2>5. xTasksWaitingToReceive' = [xTasksWaitingToReceive EXCEPT ![Takes(t)] = <<t>>]
      BY <2>3, Zenon DEF TakeBlocks
    <2>6. /\ uxMessagesWaiting[Takes(t)] = 0 /\ ready' = ready \ {t}
          /\ vTaskSwitchContext
          /\ UNCHANGED <<delayed, uxMutexesHeld, uxMessagesWaiting, xMutexHolder>>
      BY Zenon DEF TakeBlocks
    <2>7. /\ stage' = [stage EXCEPT ![t] = "enter"]
          /\ UNCHANGED <<pc, left, received_value, g_last_speed, high, IsTxBusy,
                         active, due, wire, unchecked>>
      BY Zenon DEF TakeSecond
    <2> QED
      BY <2>1, <2>2, <2>4, <2>5, <2>6, <2>7, Zenon
  <1>1. TypeOK'
    <2>1. KernelTypeOK'
      <3>1. xTasksWaitingToReceive' \in [Sems -> Seq(Tasks)]
        <4>1. xTasksWaitingToReceive \in [Sems -> Seq(Tasks)]
          BY Zenon DEF KernelTypeOK
        <4> QED
          BY <1>0, <4>1, EventLists, Zenon
      <3> QED
        BY <1>0, <3>1, Zenon DEF KernelTypeOK, vTaskSwitchContext, HighestPriority
    <2>2. PcTypeOK'
      BY <1>0, Zenon DEF PcTypeOK, Statement, LoopA, LoopB, LoopC
    <2>3. DataTypeOK'
      BY <1>0, Zenon DEF DataTypeOK
    <2>4. FlagTypeOK'
      BY <1>0, Zenon DEF FlagTypeOK
    <2> QED
      BY <2>1, <2>2, <2>3, <2>4 DEF TypeOK
  <1>2. WaitInv'
    <2>1. \A u \in {A, B, C} : Waiting(Takes(u))' = IF u = t THEN <<t>> ELSE Waiting(Takes(u))
      BY <1>0, Zenon DEF Waiting, Takes, KernelTypeOK
    <2>2. Waiting(m)' = Waiting(m)
      BY <1>0, Zenon DEF Waiting, KernelTypeOK
    <2>3. t \notin delayed
      BY <1>0, Zenon DEF DelayInv
    <2>4. \A u \in {A, B, C} : Waiting(Takes(u))' \in {<<>>, <<u>>}
      BY <2>1, Zenon DEF WaitInv
    <2>5. ASSUME NEW u \in {A, B, C}, Waiting(Takes(u))' = <<u>>
          PROVE  /\ u \notin ready' \cup delayed'
                 /\ pc'[u] = "take" /\ stage'[u] = "enter"
                 /\ uxMessagesWaiting'[Takes(u)] = 0
      <3>1. CASE u = t
        BY <1>0, <2>3, <3>1, Zenon DEF PcTypeOK
      <3>2. CASE u # t
        BY <1>0, <2>1, <2>5, <3>2, Zenon DEF WaitInv, PcTypeOK
      <3> QED
        BY <3>1, <3>2, Zenon
    <2>6. Waiting(m)' = <<C>> =>
              /\ C \notin ready'
              /\ pc'[C] = "print1" /\ stage'[C] = "enter"
              /\ uxMessagesWaiting'[m] = 0
              /\ xMutexHolder'[m] \in {A, B}
              /\ uxPriority'[xMutexHolder'[m]] = Priority[C]
      BY <1>0, <2>2, Zenon DEF WaitInv, PcTypeOK
    <2>7. C \notin ready' => Waiting(z)' = <<C>> \/ Waiting(m)' = <<C>>
      BY <1>0, <2>1, <2>2, Zenon DEF WaitInv, Takes
    <2>8. Waiting(m)' \in {<<>>, <<C>>}
      BY <2>2, Zenon DEF WaitInv
    <2>9. \A u \in {A, B, C} : Takes(u)' = Takes(u)
      BY DEF Takes
    <2> QED
      BY <2>4, <2>5, <2>6, <2>7, <2>8, <2>9, Zenon DEF WaitInv, Waiting
  <1>3. DelayInv'
    BY <1>0, Zenon DEF DelayInv, PcTypeOK, KernelTypeOK
  <1>4. MutexInv'
    <2>1. stage'[t] = "enter" /\ \A u \in {A, B, C} \ {t} : stage'[u] = stage[u]
      BY <1>0, Zenon DEF PcTypeOK
    <2>2. Stays(t)
      BY <1>0, <2>1, Zenon DEF Stays, MutexInv, Holding
    <2>3. ASSUME NEW u \in {A, B, C}, u # t PROVE Stays(u)
      <3>1. pc'[u] = pc[u] /\ stage'[u] = stage[u] /\ left'[u] = left[u]
        BY <1>0, <2>1, <2>3, Zenon
      <3>2. u \in ready => u \in ready'
        BY <1>0, <2>3, Zenon
      <3> QED
        BY <3>1, <3>2, StaysPut, Zenon
    <2>4. \A s \in Sems : uxMessagesWaiting'[s] \in {0, 1}
      BY <1>0, Zenon DEF MutexInv
    <2> QED
      BY <1>0, <2>2, <2>3, <2>4, MutexKept, Zenon
  <1>5. PriorityInv'
    BY <1>0, Zenon DEF PriorityInv
  <1>6. RunsHighest'
    BY <1>0, <1>1, SwitchContext, Zenon DEF TypeOK
  <1>7. OneTurn'
    BY <1>0, Zenon DEF OneTurn, InTurn, PcTypeOK
  <1>8. UartInv' /\ WireInv' /\ DaemonInv'
    <2>1. UartInv' /\ WireInv'
      BY <1>0, SendersKept, Zenon DEF PcTypeOK
    <2>2. DaemonInv'
      BY <1>0, Zenon DEF DaemonInv, PcTypeOK
    <2> QED
      BY <2>1, <2>2, Zenon
  <1>9. ReadingInv' /\ VerdictCurrent'
    BY <1>0, Zenon DEF ReadingInv, VerdictCurrent, InTurn, PcTypeOK
  <1> QED
    BY <1>1, <1>2, <1>3, <1>4, <1>5, <1>6, <1>7, <1>8, <1>9, Zenon DEF IInv

\* Only TaskCodeC ever waits for the UART, and its holder then has its priority.
LEMMA WaitMutexIInv ==
    ASSUME NEW t \in {A, B, C}, IInv, TakeSecond(t), TakeBlocks(t, m), pc[t] \in Printing
    PROVE  IInv'
  <1> USE DEF IInv, TypeOK
  <1> DEFINE h == xMutexHolder[m]
  <1>a. pxCurrentTCB = t /\ t \in ready /\ stage[t] = "block" /\ uxMessagesWaiting[m] = 0
    BY Zenon DEF TakeSecond, TakeBlocks, RunsHighest
  <1>b. h \in {A, B, C} /\ h # t /\ h \in ready /\ pc[h] \in Printing
    BY <1>a DEF MutexInv, Holding
  <1>c. uxPriority[t] = Priority[t]
    BY <1>b, Zenon DEF PriorityInv
  <1>d. t = C /\ h \in {A, B}
    <2>1. h = C => uxPriority[C] = Priority[C]
      BY DEF PriorityInv
    <2>2. h = C => t = C
      <3>1. h = C => Priority[C] <= Priority[t]
        BY <1>a, <1>b, <1>c, <2>1, Zenon DEF RunsHighest
      <3>2. t # C => Priority[C] > Priority[t]
        BY PriorityFacts
      <3> QED
        BY <3>1, <3>2, PriorityFacts
    <2>3. ~(t \in {A, B} /\ h \in {A, B})
      BY <1>b, Zenon DEF OneTurn, InTurn, Printing
    <2> QED
      BY <1>b, <2>2, <2>3, Zenon
  <1>e. uxPriority' = [uxPriority EXCEPT ![h] = Priority[C]]
    <2>1. /\ uxPriority' = xTaskPriorityInherit(t, m)
          /\ h # NoOne
          /\ uxPriority[h] \in {Priority[h], Priority[C]}
      BY <1>d, Zenon DEF TakeBlocks, PriorityInv
    <2>2. CASE uxPriority[h] < uxPriority[t]
      BY <1>c, <1>d, <2>1, <2>2, Zenon DEF xTaskPriorityInherit
    <2>3. CASE ~(uxPriority[h] < uxPriority[t])
      <3>1. uxPriority[h] = Priority[C]
        BY <1>c, <1>d, <2>1, <2>3, PriorityFacts, Zenon
      <3>2. uxPriority' = uxPriority
        BY <2>1, <2>3, Zenon DEF xTaskPriorityInherit
      <3> QED
        BY <1>d, <3>1, <3>2, Zenon DEF KernelTypeOK
    <2> QED
      BY <2>2, <2>3, Zenon
  <1>f. xTasksWaitingToReceive' = [xTasksWaitingToReceive EXCEPT ![m] = <<C>>]
    <2>1. xTasksWaitingToReceive[m] = <<>>
      BY <1>a, <1>d, Zenon DEF WaitInv, Waiting
    <2>2. vListInsert(xTasksWaitingToReceive[m], t) = <<C>>
      BY <1>d, <2>1, SingleWaiter
    <2> QED
      BY <2>2, Zenon DEF TakeBlocks
  <1>g. /\ ready' = ready \ {t}
        /\ vTaskSwitchContext
        /\ UNCHANGED <<delayed, uxMutexesHeld, uxMessagesWaiting, xMutexHolder>>
    BY Zenon DEF TakeBlocks
  <1>h. pc[C] = "print1"
    BY <1>d, Zenon DEF PcTypeOK, LoopC, Printing
  <1>i. /\ stage' = [stage EXCEPT ![t] = "enter"]
        /\ UNCHANGED <<pc, left, received_value, g_last_speed, high, IsTxBusy,
                       active, due, wire, unchecked>>
    BY Zenon DEF TakeSecond
  <1>0. /\ t = C /\ t \in ready /\ pc[C] = "print1" /\ stage[t] = "block"
        /\ h \in {A, B} /\ uxMessagesWaiting[m] = 0
        /\ uxPriority' = [uxPriority EXCEPT ![h] = Priority[C]]
        /\ xTasksWaitingToReceive' = [xTasksWaitingToReceive EXCEPT ![m] = <<C>>]
        /\ ready' = ready \ {C}
        /\ vTaskSwitchContext
        /\ stage' = [stage EXCEPT ![C] = "enter"]
        /\ UNCHANGED <<delayed, uxMutexesHeld, uxMessagesWaiting, xMutexHolder>>
        /\ UNCHANGED <<pc, left, received_value, g_last_speed, high, IsTxBusy,
                       active, due, wire, unchecked>>
    BY <1>a, <1>d, <1>e, <1>f, <1>g, <1>h, <1>i, Zenon
  <1>1. TypeOK'
    <2>1. KernelTypeOK'
      <3>1. xTasksWaitingToReceive' \in [Sems -> Seq(Tasks)]
        <4>1. xTasksWaitingToReceive \in [Sems -> Seq(Tasks)]
          BY Zenon DEF KernelTypeOK
        <4> QED
          BY <1>0, <4>1, EventLists, Zenon
      <3>2. uxPriority' \in [Tasks -> Nat]
        BY <1>0, PriorityFacts, Zenon DEF KernelTypeOK
      <3> QED
        BY <1>0, <3>1, <3>2, Zenon DEF KernelTypeOK, vTaskSwitchContext, HighestPriority
    <2>2. PcTypeOK'
      BY <1>0, Zenon DEF PcTypeOK, Statement, LoopA, LoopB, LoopC
    <2>3. DataTypeOK'
      BY <1>0, Zenon DEF DataTypeOK
    <2>4. FlagTypeOK'
      BY <1>0, Zenon DEF FlagTypeOK
    <2> QED
      BY <2>1, <2>2, <2>3, <2>4 DEF TypeOK
  <1>2. WaitInv'
    <2>1. \A u \in {A, B, C} : Waiting(Takes(u))' = Waiting(Takes(u))
      BY <1>0, Zenon DEF Waiting, Takes, KernelTypeOK
    <2>2. Waiting(m)' = <<C>>
      BY <1>0, Zenon DEF Waiting, KernelTypeOK
    <2>4. \A u \in {A, B, C} : Waiting(Takes(u))' \in {<<>>, <<u>>}
      BY <2>1, Zenon DEF WaitInv
    <2>5. ASSUME NEW u \in {A, B, C}, Waiting(Takes(u))' = <<u>>
          PROVE  /\ u \notin ready' \cup delayed'
                 /\ pc'[u] = "take" /\ stage'[u] = "enter"
                 /\ uxMessagesWaiting'[Takes(u)] = 0
      BY <1>0, <2>1, <2>5, Zenon DEF WaitInv, PcTypeOK
    <2>6. Waiting(m)' = <<C>> =>
              /\ C \notin ready'
              /\ pc'[C] = "print1" /\ stage'[C] = "enter"
              /\ uxMessagesWaiting'[m] = 0
              /\ xMutexHolder'[m] \in {A, B}
              /\ uxPriority'[xMutexHolder'[m]] = Priority[C]
      BY <1>0, Zenon DEF PcTypeOK, KernelTypeOK
    <2>7. Takes(A)' = x /\ Takes(B)' = y /\ Takes(C)' = z
      BY DEF Takes
    <2> QED
      BY <2>2, <2>4, <2>5, <2>6, <2>7, Zenon DEF WaitInv, Waiting, Takes
  <1>3. DelayInv'
    BY <1>0, Zenon DEF DelayInv, PcTypeOK, KernelTypeOK
  <1>4. MutexInv'
    <2>1. stage'[t] = "enter" /\ \A u \in {A, B, C} \ {t} : stage'[u] = stage[u]
      BY <1>0, Zenon DEF PcTypeOK
    <2>2. Stays(t)
      BY <1>0, <2>1, Zenon DEF Stays, MutexInv, Holding
    <2>3. ASSUME NEW u \in {A, B, C}, u # t PROVE Stays(u)
      <3>1. pc'[u] = pc[u] /\ stage'[u] = stage[u] /\ left'[u] = left[u]
        BY <1>0, <2>1, <2>3, Zenon
      <3>2. u \in ready => u \in ready'
        BY <1>0, <2>3, Zenon
      <3> QED
        BY <3>1, <3>2, StaysPut, Zenon
    <2>4. \A s \in Sems : uxMessagesWaiting'[s] \in {0, 1}
      BY <1>0, Zenon DEF MutexInv
    <2> QED
      BY <1>0, <2>2, <2>3, <2>4, MutexKept, Zenon
  <1>5. PriorityInv'
    BY <1>0, Zenon DEF PriorityInv, KernelTypeOK
  <1>6. RunsHighest'
    BY <1>0, <1>1, SwitchContext, Zenon DEF TypeOK
  <1>7. OneTurn'
    BY <1>0, Zenon DEF OneTurn, InTurn, PcTypeOK
  <1>8. UartInv' /\ WireInv' /\ DaemonInv'
    <2>1. UartInv' /\ WireInv'
      BY <1>0, SendersKept, Zenon DEF PcTypeOK
    <2>2. DaemonInv'
      BY <1>0, Zenon DEF DaemonInv, PcTypeOK
    <2> QED
      BY <2>1, <2>2, Zenon
  <1>9. ReadingInv' /\ VerdictCurrent'
    BY <1>0, Zenon DEF ReadingInv, VerdictCurrent, InTurn, PcTypeOK
  <1> QED
    BY <1>1, <1>2, <1>3, <1>4, <1>5, <1>6, <1>7, <1>8, <1>9, Zenon DEF IInv

-----------------------------------------------------------------------------
(* xSemaphoreGive. *)

\* A speed task hands the turn to the other one.
LEMMA GiveIInv ==
    ASSUME NEW t \in {A, B, C}, IInv, Give(t)
    PROVE  IInv'
  <1> USE DEF IInv, TypeOK
  <1> DEFINE g == Gives(t)
            o == IF t = A THEN B ELSE A
  <1>a. /\ t \in {A, B} /\ pxCurrentTCB = t /\ t \in ready
        /\ pc[t] = "give" /\ stage[t] = "enter"
    BY Zenon DEF Give, PcTypeOK, LoopC, MutexInv, Holding, Printing, RunsHighest
  <1>b. g \in {x, y} /\ g = Takes(o) /\ o \in {A, B} /\ o # t
    BY <1>a DEF Gives, Takes
  <1>c. uxMessagesWaiting[g] = 0
    BY <1>a, <1>b DEF OneTurn, InTurn, MutexInv
  <1>d. GiveRoom(t, g)
    BY <1>b, <1>c DEF Give, xSemaphoreGive
  <1>e. ~Disinherits(t, g)
    BY <1>b DEF Disinherits
  <1>f. Waiting(g) \in {<<>>, <<o>>}
    BY <1>b, Zenon DEF WaitInv
  <1>g. /\ xTasksWaitingToReceive' = [xTasksWaitingToReceive EXCEPT ![g] = <<>>]
        /\ ready' = ready \cup (IF Waiting(g) = <<>> THEN {} ELSE {o})
    <2>1. CASE Waiting(g) = <<>>
      BY <1>b, <1>d, <2>1, SMTT(30) DEF GiveRoom, Waiting, KernelTypeOK
    <2>2. CASE Waiting(g) = <<o>>
      BY <1>b, <1>d, <2>2, SingleWaiter DEF GiveRoom, Waiting
    <2> QED
      BY <1>f, <2>1, <2>2, Zenon
  <1>h. /\ uxMessagesWaiting' = [uxMessagesWaiting EXCEPT ![g] = 1]
        /\ UNCHANGED <<delayed, uxPriority, uxMutexesHeld, xMutexHolder>>
    BY <1>b, <1>c, <1>d, <1>e DEF GiveRoom, xTaskPriorityDisinherit
  <1>i. pc' = [pc EXCEPT ![t] = "delay"]
    <2>1. Loop(t)[pc[t]] = "delay"
      BY <1>a, LoopFacts, Zenon
    <2> QED
      BY <1>a, <2>1, Zenon DEF Give, Advance, PcTypeOK
  <1>j. /\ stage' = [stage EXCEPT ![t] = "enter"]
        /\ UNCHANGED <<left, received_value, g_last_speed, high, IsTxBusy,
                       active, due, wire, unchecked>>
    BY Zenon DEF Give, Advance
  <1>k. pxCurrentTCB' = t \/ vTaskSwitchContext
    BY <1>a, <1>d, Zenon DEF GiveRoom
  <1>0. /\ t \in {A, B} /\ t \in ready /\ pc[t] = "give" /\ stage[t] = "enter"
        /\ g \in {x, y} /\ g = Takes(o) /\ o \in {A, B} /\ o # t
        /\ uxMessagesWaiting[g] = 0 /\ Waiting(g) \in {<<>>, <<o>>}
        /\ xTasksWaitingToReceive' = [xTasksWaitingToReceive EXCEPT ![g] = <<>>]
        /\ ready' = ready \cup (IF Waiting(g) = <<>> THEN {} ELSE {o})
        /\ uxMessagesWaiting' = [uxMessagesWaiting EXCEPT ![g] = 1]
        /\ pc' = [pc EXCEPT ![t] = "delay"]
        /\ stage' = [stage EXCEPT ![t] = "enter"]
        /\ UNCHANGED <<delayed, uxPriority, uxMutexesHeld, xMutexHolder>>
        /\ UNCHANGED <<left, received_value, g_last_speed, high, IsTxBusy,
                       active, due, wire, unchecked>>
    BY <1>a, <1>b, <1>c, <1>f, <1>g, <1>h, <1>i, <1>j, Zenon
  <1> HIDE DEF g, o
  <1>1. TypeOK'
    <2>1. KernelTypeOK'
      <3>1. xTasksWaitingToReceive' \in [Sems -> Seq(Tasks)]
        <4>1. xTasksWaitingToReceive \in [Sems -> Seq(Tasks)]
          BY Zenon DEF KernelTypeOK
        <4> QED
          BY <1>0, <4>1, EventLists, Zenon
      <3>2. uxMessagesWaiting' \in [Sems -> Nat]
        BY <1>0, Zenon DEF KernelTypeOK
      <3>3. ready' \in SUBSET Tasks
        BY <1>0, Zenon DEF KernelTypeOK
      <3>4. pxCurrentTCB' \in Tasks
        BY <1>a, <1>k, <3>3, Zenon DEF vTaskSwitchContext, HighestPriority
      <3> QED
        BY <1>0, <3>1, <3>2, <3>3, <3>4, Zenon DEF KernelTypeOK
    <2>2. PcTypeOK'
      BY <1>0, Zenon DEF PcTypeOK, Statement, LoopA, LoopB, LoopC
    <2>3. DataTypeOK'
      BY <1>0, Zenon DEF DataTypeOK
    <2>4. FlagTypeOK'
      BY <1>0, Zenon DEF FlagTypeOK
    <2> QED
      BY <2>1, <2>2, <2>3, <2>4 DEF TypeOK
  <1>2. WaitInv'
    <2>1. \A u \in {A, B, C} : Waiting(Takes(u))' = IF Takes(u) = g THEN <<>> ELSE Waiting(Takes(u))
      BY <1>0, Zenon DEF Waiting, Takes, KernelTypeOK
    <2>2. Waiting(m)' = Waiting(m)
      BY <1>0, Zenon DEF Waiting, KernelTypeOK
    <2>3. \A u \in {A, B, C} : Waiting(Takes(u))' \in {<<>>, <<u>>}
      BY <2>1, Zenon DEF WaitInv
    <2>4. ASSUME NEW u \in {A, B, C}, Waiting(Takes(u))' = <<u>>
          PROVE  /\ u \notin ready' \cup delayed'
                 /\ pc'[u] = "take" /\ stage'[u] = "enter"
                 /\ uxMessagesWaiting'[Takes(u)] = 0
      <3>1. Takes(u) # g /\ Waiting(Takes(u)) = <<u>>
        BY <2>1, <2>4, SingleWaiter
      <3> QED
        BY <1>0, <3>1, Zenon DEF WaitInv, PcTypeOK, Takes, Gives, KernelTypeOK
    <2>5. Waiting(m)' = <<C>> =>
              /\ C \notin ready'
              /\ pc'[C] = "print1" /\ stage'[C] = "enter"
              /\ uxMessagesWaiting'[m] = 0
              /\ xMutexHolder'[m] \in {A, B}
              /\ uxPriority'[xMutexHolder'[m]] = Priority[C]
      BY <1>0, <2>2, Zenon DEF WaitInv, PcTypeOK, KernelTypeOK
    <2>6. C \notin ready' => Waiting(z)' = <<C>> \/ Waiting(m)' = <<C>>
      BY <1>0, <2>1, <2>2, Zenon DEF WaitInv, Takes, Gives
    <2>7. Takes(A)' = x /\ Takes(B)' = y /\ Takes(C)' = z
      BY DEF Takes
    <2> QED
      BY <2>2, <2>3, <2>4, <2>5, <2>6, <2>7, Zenon DEF WaitInv, Waiting, Takes
  <1>3. DelayInv'
    <2>1. Waiting(g) = <<o>> => o \notin delayed
      BY <1>0, ZenonT(30) DEF WaitInv
    <2> QED
      BY <1>0, <2>1 DEF DelayInv, PcTypeOK
  <1>4. MutexInv'
    <2>1. \A s \in Sems : uxMessagesWaiting'[s] \in {0, 1}
      BY <1>0, Zenon DEF MutexInv, KernelTypeOK
    <2>2. uxMessagesWaiting'[m] = uxMessagesWaiting[m] /\ ready \subseteq ready'
      BY <1>0, Zenon DEF KernelTypeOK
    <2>3. \A v \in {A, B, C} : stage'[v] = stage[v]
      BY <1>0, Zenon DEF PcTypeOK
    <2>4. \A v \in {A, B, C} : Holding(v) => pc'[v] = pc[v]
      BY <1>0, Zenon DEF PcTypeOK, Holding
    <2>5. \A v \in {A, B, C} : stage[v] = "block" => pc'[v] = pc[v]
      BY <1>0, Zenon DEF PcTypeOK
    <2>6. ASSUME NEW v \in {A, B, C} PROVE Stays(v)
      <3>1. Holding(v)' <=> Holding(v)
        BY <2>3, Zenon DEF Holding
      <3>2. Holding(v) => pc'[v] = pc[v] /\ v \in ready'
        BY <2>2, <2>4, Zenon DEF MutexInv
      <3>3. stage'[v] = "block" => pc'[v] \in {"take"} \cup Printing
        BY <2>3, <2>5, Zenon DEF MutexInv
      <3>4. stage'[v] \in {"send", "sending"} => left'[v] > 0
        BY <1>0, <2>3, Zenon DEF MutexInv
      <3> QED
        BY <3>1, <3>2, <3>3, <3>4, Zenon DEF Stays
    <2> QED
      BY <1>0, <2>1, <2>2, <2>6, MutexKept, Zenon
  <1>5. PriorityInv'
    BY <1>0, Zenon DEF PriorityInv
  <1>6. RunsHighest'
    BY <1>0, <1>1, <1>a, <1>d, <1>e, GiveRunsHighest, SingleWaiter, Zenon DEF TypeOK
  <1>7. OneTurn'
    <2>1. ~InTurn(o) /\ \A v \in {x, y} : uxMessagesWaiting[v] = 0
      <3>1. InTurn(t) /\ ~InTurn(o)
        BY <1>0, Zenon DEF OneTurn, InTurn
      <3>2. uxMessagesWaiting[x] + uxMessagesWaiting[y] = 0
        BY <1>0, <3>1, Zenon DEF OneTurn
      <3>3. uxMessagesWaiting[x] \in {0, 1} /\ uxMessagesWaiting[y] \in {0, 1}
        BY Zenon DEF MutexInv
      <3>4. uxMessagesWaiting[x] = 0 /\ uxMessagesWaiting[y] = 0
        <4> HIDE DEF IInv
        <4> QED
          BY <3>2, <3>3
      <3> QED
        BY <3>1, <3>4, Zenon
    <2>2. ~InTurn(A)' /\ ~InTurn(B)'
      BY <1>0, <2>1, Zenon DEF InTurn, PcTypeOK
    <2>3. uxMessagesWaiting'[x] + uxMessagesWaiting'[y] = 1
      <3>1. \/ uxMessagesWaiting'[x] = 1 /\ uxMessagesWaiting'[y] = 0
            \/ uxMessagesWaiting'[x] = 0 /\ uxMessagesWaiting'[y] = 1
        BY <1>0, <2>1, Zenon DEF KernelTypeOK
      <3> HIDE DEF IInv
      <3> QED
        BY <3>1
    <2> QED
      BY <2>2, <2>3 DEF OneTurn
  <1>8. UartInv' /\ WireInv' /\ DaemonInv'
    <2>1. UartInv' /\ WireInv'
      BY <1>0, SendersKept, Zenon DEF PcTypeOK
    <2>2. DaemonInv'
      BY <1>0, Zenon DEF DaemonInv, PcTypeOK
    <2> QED
      BY <2>1, <2>2, Zenon
  <1>9. ReadingInv' /\ VerdictCurrent'
    <2>1. CASE t = A
      BY <1>0, <2>1, Zenon DEF ReadingInv, VerdictCurrent, OneTurn, InTurn, PcTypeOK, KernelTypeOK, Takes, MutexInv, o
    <2>2. CASE t = B
      BY <1>0, <2>2, Zenon DEF ReadingInv, VerdictCurrent, OneTurn, InTurn, PcTypeOK, KernelTypeOK, Takes, MutexInv, o
    <2> QED
      BY <1>0, <2>1, <2>2, Zenon
  <1> QED
    BY <1>1, <1>2, <1>3, <1>4, <1>5, <1>6, <1>7, <1>8, <1>9, Zenon DEF IInv

\* A task leaves print(): the mutex is free, its inherited priority given back.
LEMMA PrintReturnIInv ==
    ASSUME NEW t \in {A, B, C}, IInv, PrintReturn(t)
    PROVE  IInv'
  <1> USE DEF IInv, TypeOK
  <1>a. /\ pxCurrentTCB = t /\ pc[t] \in Printing /\ stage[t] = "give"
        /\ xSemaphoreGive(t, m) /\ Advance(t)
        /\ UNCHANGED <<left, received_value, g_last_speed, high, IsTxBusy,
                       active, due, wire, unchecked>>
    BY Zenon DEF PrintReturn
  <1>b. /\ xMutexHolder[m] = t /\ uxMessagesWaiting[m] = 0
        /\ uxMutexesHeld[t] = 1 /\ t \in ready
    BY <1>a, Zenon DEF MutexInv, Holding
  <1>c. GiveRoom(t, m)
    BY <1>a, <1>b DEF xSemaphoreGive
  <1>d. uxPriority' = [uxPriority EXCEPT ![t] = Priority[t]]
    <2>1. CASE Disinherits(t, m)
      BY <1>c, <2>1, Zenon DEF GiveRoom, xTaskPriorityDisinherit
    <2>2. CASE ~Disinherits(t, m)
      <3>1. uxPriority[t] = Priority[t]
        BY <1>b, <2>2 DEF Disinherits
      <3>2. uxPriority' = uxPriority
        BY <1>c, <2>2, Zenon DEF GiveRoom, xTaskPriorityDisinherit
      <3> QED
        BY <3>1, <3>2, Zenon DEF KernelTypeOK
    <2> QED
      BY <2>1, <2>2
  <1>e. Waiting(m) \in {<<>>, <<C>>} /\ (Waiting(m) = <<C>> => t # C)
    BY <1>b, Zenon DEF WaitInv
  <1>f. /\ xTasksWaitingToReceive' = [xTasksWaitingToReceive EXCEPT ![m] = <<>>]
        /\ ready' = ready \cup (IF Waiting(m) = <<>> THEN {} ELSE {C})
    <2>1. CASE Waiting(m) = <<>>
      BY <1>c, <2>1 DEF GiveRoom, Waiting, KernelTypeOK
    <2>2. CASE Waiting(m) = <<C>>
      BY <1>c, <2>2, SingleWaiter DEF GiveRoom, Waiting
    <2> QED
      BY <1>e, <2>1, <2>2, Zenon
  <1>g. /\ uxMessagesWaiting' = [uxMessagesWaiting EXCEPT ![m] = 1]
        /\ xMutexHolder' = [xMutexHolder EXCEPT ![m] = NoOne]
        /\ uxMutexesHeld' = [uxMutexesHeld EXCEPT ![t] = 0]
        /\ delayed' = delayed
    BY <1>b, <1>c DEF GiveRoom
  <1> DEFINE n == Loop(t)[pc[t]]
  <1>h. /\ pc' = [pc EXCEPT ![t] = n]
        /\ stage' = [stage EXCEPT ![t] = "enter"]
    BY <1>a, ZenonT(30) DEF Advance, PcTypeOK
  <1>i. /\ t = A => n \in {"read", "print3", "print4", "give"} /\
                    (n = "read" <=> pc[A] = "print1")
        /\ t = B => \/ pc[B] = "print1" /\ n = "check"
                    \/ pc[B] = "print2" /\ n = "give"
        /\ t = C => n = "take"
    <2>1. ASSUME t = A
          PROVE  n \in {"read", "print3", "print4", "give"} /\ (n = "read" <=> pc[A] = "print1")
      <3>1. pc[A] \in {"print1", "print2", "print3", "print4"} /\ n = LoopA[pc[A]]
        BY <1>a, <2>1, LoopFacts, Zenon DEF Printing
      <3> HIDE DEF IInv, n
      <3> QED
        BY <3>1, LoopFacts, Zenon
    <2>2. ASSUME t = B
          PROVE  \/ pc[B] = "print1" /\ n = "check"
                 \/ pc[B] = "print2" /\ n = "give"
      <3>1. pc[B] \in {"print1", "print2"} /\ n = LoopB[pc[B]]
        BY <1>a, <2>2, LoopFacts, Zenon DEF PcTypeOK, Printing
      <3> HIDE DEF IInv, n
      <3> QED
        BY <3>1, LoopFacts, Zenon
    <2>3. ASSUME t = C
          PROVE  n = "take"
      <3>1. pc[C] = "print1" /\ n = LoopC[pc[C]]
        BY <1>a, <2>3, LoopFacts, Zenon DEF PcTypeOK, Printing
      <3> HIDE DEF IInv, n
      <3> QED
        BY <3>1, LoopFacts, Zenon
    <2> HIDE DEF n
    <2> QED
      BY <2>1, <2>2, <2>3, Zenon
  <1>k. pxCurrentTCB' = t \/ vTaskSwitchContext
    BY <1>a, <1>c, Zenon DEF GiveRoom
  <1>0. /\ t \in ready /\ pc[t] \in Printing /\ stage[t] = "give"
        /\ xMutexHolder[m] = t /\ uxMessagesWaiting[m] = 0 /\ uxMutexesHeld[t] = 1
        /\ uxPriority' = [uxPriority EXCEPT ![t] = Priority[t]]
        /\ Waiting(m) \in {<<>>, <<C>>} /\ (Waiting(m) = <<C>> => t # C)
        /\ xTasksWaitingToReceive' = [xTasksWaitingToReceive EXCEPT ![m] = <<>>]
        /\ ready' = ready \cup (IF Waiting(m) = <<>> THEN {} ELSE {C})
        /\ uxMessagesWaiting' = [uxMessagesWaiting EXCEPT ![m] = 1]
        /\ xMutexHolder' = [xMutexHolder EXCEPT ![m] = NoOne]
        /\ uxMutexesHeld' = [uxMutexesHeld EXCEPT ![t] = 0]
        /\ delayed' = delayed
        /\ pc' = [pc EXCEPT ![t] = n]
        /\ stage' = [stage EXCEPT ![t] = "enter"]
        /\ UNCHANGED <<left, received_value, g_last_speed, high, IsTxBusy,
                       active, due, wire, unchecked>>
    BY <1>a, <1>b, <1>d, <1>e, <1>f, <1>g, <1>h, Zenon
  <1> HIDE DEF n
  <1>1. TypeOK'
    <2>1. KernelTypeOK'
      <3>1. xTasksWaitingToReceive' \in [Sems -> Seq(Tasks)]
        <4>1. xTasksWaitingToReceive \in [Sems -> Seq(Tasks)]
          BY Zenon DEF KernelTypeOK
        <4> QED
          BY <1>0, <4>1, EventLists, Zenon
      <3>2. uxMessagesWaiting' \in [Sems -> Nat] /\ uxMutexesHeld' \in [Tasks -> Nat]
        BY <1>0, Zenon DEF KernelTypeOK
      <3>3. ready' \in SUBSET Tasks
        BY <1>0, Zenon DEF KernelTypeOK
      <3>4. pxCurrentTCB' \in Tasks
        BY <1>k, <3>3, Zenon DEF vTaskSwitchContext, HighestPriority
      <3>5. uxPriority' \in [Tasks -> Nat]
        BY <1>0, PriorityFacts, ZenonT(30) DEF KernelTypeOK
      <3>6. xMutexHolder' \in [Sems -> Tasks \cup {NoOne}]
        BY <1>0, Zenon DEF KernelTypeOK
      <3> QED
        BY <1>0, <3>1, <3>2, <3>3, <3>4, <3>5, <3>6, Zenon DEF KernelTypeOK
    <2>2. PcTypeOK'
      BY <1>0, <1>i, Zenon DEF PcTypeOK, Statement, LoopA, LoopB, LoopC
    <2>3. DataTypeOK'
      BY <1>0, Zenon DEF DataTypeOK
    <2>4. FlagTypeOK'
      BY <1>0, Zenon DEF FlagTypeOK
    <2> QED
      BY <2>1, <2>2, <2>3, <2>4, Zenon DEF TypeOK
  <1>2. WaitInv'
    <2>1. \A u \in {A, B, C} : Waiting(Takes(u))' = Waiting(Takes(u))
      BY <1>0, Zenon DEF Waiting, Takes, KernelTypeOK
    <2>2. Waiting(m)' = <<>>
      BY <1>0, Zenon DEF Waiting, KernelTypeOK
    <2>3. \A u \in {A, B, C} : Waiting(Takes(u))' \in {<<>>, <<u>>}
      BY <2>1, Zenon DEF WaitInv
    <2>4. ASSUME NEW u \in {A, B, C}, Waiting(Takes(u))' = <<u>>
          PROVE  /\ u \notin ready' \cup delayed'
                 /\ pc'[u] = "take" /\ stage'[u] = "enter"
                 /\ uxMessagesWaiting'[Takes(u)] = 0
      <3>1. Waiting(Takes(u)) = <<u>> /\ pc[u] = "take" /\ u # t
        BY <1>0, <2>1, <2>4, Zenon DEF WaitInv, Printing
      <3>2. Waiting(m) = <<C>> => u # C
        BY <3>1, Zenon DEF WaitInv
      <3>3. u \notin ready' \cup delayed'
        BY <1>0, <3>1, <3>2, Zenon DEF WaitInv
      <3> QED
        BY <1>0, <3>1, <3>3, Zenon DEF WaitInv, PcTypeOK, Takes, KernelTypeOK
    <2>5. C \notin ready' => Waiting(z)' = <<C>>
      BY <1>0, <2>1, Zenon DEF WaitInv, Takes
    <2>6. Takes(A)' = x /\ Takes(B)' = y /\ Takes(C)' = z
      BY DEF Takes
    <2> QED
      BY <2>2, <2>3, <2>4, <2>5, <2>6, SingleWaiter, Zenon DEF WaitInv, Waiting, Takes
  <1>3. DelayInv'
    <2>1. t \notin delayed
      BY <1>0, Zenon DEF DelayInv
    <2> QED
      BY <1>0, <2>1, Zenon DEF DelayInv, PcTypeOK
  <1>4. MutexInv'
    <2>1. \A s \in Sems : uxMessagesWaiting'[s] \in {0, 1}
      BY <1>0, Zenon DEF MutexInv, KernelTypeOK
    <2>2. uxMessagesWaiting'[m] = 1 /\ xMutexHolder'[m] = NoOne
      BY <1>0, Zenon DEF KernelTypeOK
    <2>3. \A u \in Tasks : uxMutexesHeld'[u] = 0
      BY <1>0, Zenon DEF MutexInv, KernelTypeOK
    <2>4. \A u \in {A, B, C} : ~Holding(u)'
      BY <1>0, Zenon DEF MutexInv, Holding, PcTypeOK
    <2>5. \A u \in {A, B, C} : stage'[u] = "block" => pc'[u] \in {"take"} \cup Printing
      BY <1>0, Zenon DEF MutexInv, PcTypeOK
    <2> QED
      BY <2>1, <2>2, <2>3, <2>4, <2>5, Zenon DEF MutexInv, Holding
  <1>5. PriorityInv'
    BY <1>0, Zenon DEF PriorityInv, KernelTypeOK
  <1>6. RunsHighest'
    <2>1. Waiting(m) # <<>> => Waiting(m) = <<C>> /\ Head(Waiting(m)) = C
      BY <1>0, SingleWaiter, Zenon
    <2>2. Waiting(m) = <<C>> => uxPriority'[C] > uxPriority'[t]
      <3>1. Waiting(m) = <<C>> => uxPriority'[C] = Priority[C]
        BY <1>0, Zenon DEF PriorityInv, KernelTypeOK
      <3>2. uxPriority'[t] = Priority[t]
        BY <1>0, Zenon DEF KernelTypeOK
      <3> QED
        BY <1>0, <3>1, <3>2, PriorityFacts, Zenon
    <2> QED
      BY <1>1, <1>a, <1>c, <2>1, <2>2, GiveRunsHighest, Zenon DEF TypeOK
  <1>7. OneTurn'
    <2>1. InTurn(A)' = InTurn(A) /\ InTurn(B)' = InTurn(B)
      BY <1>0, <1>i, Zenon DEF InTurn, PcTypeOK, Printing
    <2>2. uxMessagesWaiting'[x] = uxMessagesWaiting[x] /\ uxMessagesWaiting'[y] = uxMessagesWaiting[y]
      BY <1>0, Zenon DEF KernelTypeOK
    <2> QED
      BY <2>1, <2>2 DEF OneTurn
  <1>8. UartInv' /\ WireInv' /\ DaemonInv'
    <2>1. \A u \in {A, B, C} : stage[u] \notin {"send", "sending"}
      BY <1>0, Zenon DEF MutexInv, Holding
    <2>2. ~IsTxBusy /\ ~(wire.left > 0)
      BY <2>1 DEF UartInv, WireInv
    <2> QED
      BY <1>0, <2>2, Zenon DEF UartInv, WireInv, DaemonInv, PcTypeOK
  <1>9. ReadingInv' /\ VerdictCurrent'
    <2>1. uxMessagesWaiting'[x] = uxMessagesWaiting[x] /\ uxMessagesWaiting'[y] = uxMessagesWaiting[y]
      BY <1>0, Zenon DEF KernelTypeOK
    <2>2. CASE t = A
      BY <1>0, <1>i, <2>1, <2>2, Zenon DEF ReadingInv, VerdictCurrent, InTurn, PcTypeOK, Printing
    <2>3. CASE t = B
      BY <1>0, <1>i, <2>1, <2>3, Zenon DEF ReadingInv, VerdictCurrent, InTurn, PcTypeOK, Printing
    <2>4. CASE t = C
      BY <1>0, <1>i, <2>1, <2>4, Zenon DEF ReadingInv, VerdictCurrent, InTurn, PcTypeOK
    <2> QED
      BY <2>2, <2>3, <2>4
  <1> QED
    BY <1>1, <1>2, <1>3, <1>4, <1>5, <1>6, <1>7, <1>8, <1>9, Zenon DEF IInv

\* The callback wakes TaskCodeC.
LEMMA DaemonCallbackIInv ==
    ASSUME IInv, DaemonCallback
    PROVE  IInv'
  <1> USE DEF IInv, TypeOK
  <1>a. /\ pxCurrentTCB = D /\ pc[D] = "callback" /\ xSemaphoreGive(D, z)
        /\ left' = [left EXCEPT ![D] = left[D] - 1]
        /\ pc' = [pc EXCEPT ![D] = IF left[D] = 1 THEN "commands" ELSE pc[D]]
        /\ UNCHANGED <<stage, received_value, g_last_speed, high, IsTxBusy,
                       active, due, wire, unchecked>>
    BY Zenon DEF DaemonCallback
  <1>b. Waiting(z) = <<C>> /\ uxMessagesWaiting[z] = 0
    BY <1>a, DaemonRuns, Zenon
  <1>c. GiveRoom(D, z)
    BY <1>a, <1>b DEF xSemaphoreGive
  <1>d. ~Disinherits(D, z)
    BY DEF Disinherits
  <1>e. /\ xTasksWaitingToReceive' = [xTasksWaitingToReceive EXCEPT ![z] = <<>>]
        /\ ready' = ready \cup {C}
    BY <1>b, <1>c, SingleWaiter, Zenon DEF GiveRoom, Waiting
  <1>f. /\ uxMessagesWaiting' = [uxMessagesWaiting EXCEPT ![z] = 1]
        /\ UNCHANGED <<delayed, uxPriority, uxMutexesHeld, xMutexHolder>>
    BY <1>b, <1>c, <1>d DEF GiveRoom, xTaskPriorityDisinherit
  <1>g. left[D] \in Nat \ {0}
    BY <1>a DEF DaemonInv, PcTypeOK
  <1>k. pxCurrentTCB' = D \/ vTaskSwitchContext
    BY <1>a, <1>c, Zenon DEF GiveRoom
  <1>0. /\ pc[D] = "callback" /\ left[D] \in Nat \ {0}
        /\ Waiting(z) = <<C>> /\ uxMessagesWaiting[z] = 0
        /\ xTasksWaitingToReceive' = [xTasksWaitingToReceive EXCEPT ![z] = <<>>]
        /\ ready' = ready \cup {C}
        /\ uxMessagesWaiting' = [uxMessagesWaiting EXCEPT ![z] = 1]
        /\ UNCHANGED <<delayed, uxPriority, uxMutexesHeld, xMutexHolder>>
        /\ left' = [left EXCEPT ![D] = left[D] - 1]
        /\ pc' = [pc EXCEPT ![D] = IF left[D] = 1 THEN "commands" ELSE pc[D]]
        /\ UNCHANGED <<stage, received_value, g_last_speed, high, IsTxBusy,
                       active, due, wire, unchecked>>
    BY <1>a, <1>b, <1>e, <1>f, <1>g, Zenon
  <1>1. TypeOK'
    <2>1. KernelTypeOK'
      <3>1. xTasksWaitingToReceive' \in [Sems -> Seq(Tasks)]
        <4>1. xTasksWaitingToReceive \in [Sems -> Seq(Tasks)]
          BY Zenon DEF KernelTypeOK
        <4> QED
          BY <1>0, <4>1, EventLists, Zenon
      <3>2. uxMessagesWaiting' \in [Sems -> Nat]
        BY <1>0, Zenon DEF KernelTypeOK
      <3>3. ready' \in SUBSET Tasks
        BY <1>0, Zenon DEF KernelTypeOK
      <3>4. pxCurrentTCB' \in Tasks
        BY <1>k, <3>3, ZenonT(30) DEF vTaskSwitchContext, HighestPriority
      <3> QED
        BY <1>0, <3>1, <3>2, <3>3, <3>4, Zenon DEF KernelTypeOK
    <2>2. PcTypeOK'
      <3>1. left' \in [{A, B, C, D} -> Nat]
        <4>1. left \in [{A, B, C, D} -> Nat] /\ left[D] # 0
          BY <1>0, Zenon DEF PcTypeOK
        <4>2. [left EXCEPT ![D] = left[D] - 1] \in [{A, B, C, D} -> Nat]
          <5> HIDE DEF IInv
          <5> QED
            BY <4>1, OneFewer
        <4> QED
          BY <1>0, <4>2, Zenon
      <3>2. PICK n : n = IF left[D] = 1 THEN "commands" ELSE pc[D]
        BY Zenon
      <3>3. n \in {"commands", "callback"} /\ pc' = [pc EXCEPT ![D] = n]
        BY <1>0, <3>2, Zenon
      <3>4. n \in Statement /\ n \in {"process", "callback", "commands"}
        BY <3>3, Zenon DEF Statement
      <3>5. stage' \in [{A, B, C} -> {"enter", "block", "send", "sending", "give"}]
        BY <1>0, Zenon DEF PcTypeOK
      <3>6. D \in {A, B, C, D} /\ D # A /\ D # B /\ D # C
        BY Zenon
      <3> QED
        BY <3>1, <3>3, <3>4, <3>5, <3>6, PcMoves, Zenon
    <2>3. DataTypeOK'
      BY <1>0, Zenon DEF DataTypeOK
    <2>4. FlagTypeOK'
      BY <1>0, ZenonT(30) DEF FlagTypeOK
    <2> QED
      BY <2>1, <2>2, <2>3, <2>4 DEF TypeOK
  <1>2. WaitInv'
    <2>1. Waiting(x)' = Waiting(x) /\ Waiting(y)' = Waiting(y) /\ Waiting(z)' = <<>>
      BY <1>0, Zenon DEF Waiting, KernelTypeOK
    <2>2. Waiting(m) = <<>> /\ Waiting(m)' = <<>>
      <3>1. Waiting(m) # <<C>>
        BY <1>0, Zenon DEF WaitInv, Takes
      <3> QED
        BY <1>0, <3>1, Zenon DEF Waiting, WaitInv, KernelTypeOK
    <2>3. \A t \in {A, B} : Waiting(Takes(t)) = <<t>> =>
              /\ t \notin ready' \cup delayed'
              /\ pc'[t] = "take" /\ stage'[t] = "enter"
              /\ uxMessagesWaiting'[Takes(t)] = 0
      BY <1>0, Zenon DEF WaitInv, PcTypeOK, KernelTypeOK, Takes
    <2>4. \A t \in {A, B} : Waiting(Takes(t))' = Waiting(Takes(t))
      BY <2>1, TakesOf, Zenon
    <2>5. Waiting(Takes(C))' = <<>> /\ <<>> # <<C>>
      BY <2>1, TakesOf, SingleWaiter, Zenon
    <2>6. \A t \in {A, B, C} : Takes(t)' = Takes(t)
      BY TakesOf, Zenon
    <2>7. C \in ready'
      BY <1>0, Zenon
    <2>8. \A t \in {A, B, C} : Waiting(Takes(t))' \in {<<>>, <<t>>}
      BY <2>4, <2>5, Zenon DEF WaitInv
    <2>9. ASSUME NEW t \in {A, B, C}, Waiting(Takes(t))' = <<t>>
          PROVE  /\ t \notin ready' \cup delayed'
                 /\ pc'[t] = "take" /\ stage'[t] = "enter"
                 /\ uxMessagesWaiting'[Takes(t)] = 0
      <3>1. t \in {A, B}
        BY <2>5, <2>9, Zenon
      <3> QED
        BY <2>3, <2>4, <2>9, <3>1, Zenon
    <2> HIDE DEF IInv
    <2> QED
      BY <2>2, <2>5, <2>6, <2>7, <2>8, <2>9, ZenonT(30) DEF WaitInv, Waiting
  <1>3. DelayInv'
    <2>1. \A t \in {A, B, C} : pc'[t] = pc[t]
      BY <1>0, Zenon DEF PcTypeOK
    <2> QED
      BY <1>0, <2>1, Zenon DEF DelayInv
  <1>4. MutexInv'
    <2>1. \A s \in Sems : uxMessagesWaiting'[s] \in {0, 1}
      BY <1>0, Zenon DEF MutexInv, KernelTypeOK
    <2>2. uxMessagesWaiting'[m] = uxMessagesWaiting[m] /\ ready \subseteq ready'
      BY <1>0, Zenon DEF KernelTypeOK
    <2>3. \A v \in {A, B, C} : pc'[v] = pc[v] /\ left'[v] = left[v]
      BY <1>0, Zenon DEF PcTypeOK
    <2>4. ASSUME NEW v \in {A, B, C} PROVE Stays(v)
      BY <1>0, <2>2, <2>3, StaysPut, Zenon
    <2> QED
      BY <1>0, <2>1, <2>2, <2>4, MutexKept, Zenon
  <1>5. PriorityInv'
    BY <1>0, Zenon DEF PriorityInv
  <1>6. RunsHighest'
    BY <1>0, <1>1, <1>a, <1>c, <1>d, GiveRunsHighest, SingleWaiter, Zenon DEF TypeOK
  <1>7. OneTurn'
    BY <1>0, ZenonT(30) DEF OneTurn, InTurn, PcTypeOK, KernelTypeOK
  <1>8. UartInv' /\ WireInv' /\ DaemonInv'
    <2>1. \A v \in {A, B, C} : left'[v] = left[v]
      BY <1>0, Zenon DEF PcTypeOK
    <2>2. UartInv' /\ WireInv'
      BY <1>0, <2>1, SendersKept, Zenon
    <2>3. pc'[D] = "callback" => left[D] # 1
      BY <1>0, Zenon DEF PcTypeOK
    <2>4. left[D] \in Nat \ {0} /\ left'[D] = left[D] - 1
      BY <1>0, Zenon DEF PcTypeOK
    <2>5. left[D] # 1 => left'[D] > 0
      <3> HIDE DEF IInv
      <3> QED
        BY <2>4
    <2> QED
      BY <2>2, <2>3, <2>5, Zenon DEF DaemonInv
  <1>9. ReadingInv' /\ VerdictCurrent'
    BY <1>0, Zenon DEF ReadingInv, VerdictCurrent, InTurn, PcTypeOK, KernelTypeOK
  <1> QED
    BY <1>1, <1>2, <1>3, <1>4, <1>5, <1>6, <1>7, <1>8, <1>9, Zenon DEF IInv

\* IInv is inductive.
LEMMA NextIInv == IInv /\ [Next]_vars => IInv'
  <1> SUFFICES ASSUME IInv, [Next]_vars PROVE IInv'
    OBVIOUS
  <1>1. ASSUME NEW t \in {A, B, C}, TakeFirst(t) PROVE IInv'
    <2>1. pc[t] = "take" => Wanted(t) = Takes(t)
      BY DEF Wanted
    <2>2. pc[t] # "take" => Wanted(t) = m /\ pc[t] \in Printing
      BY <1>1, Zenon DEF Wanted, TakeFirst
    <2> QED
      BY <1>1, <2>1, <2>2, TakeTurnIInv, TakeMutexIInv, TakeEmptyIInv, Zenon
  <1>2. ASSUME NEW t \in {A, B, C}, TakeSecond(t) PROVE IInv'
    <2>1. pc[t] = "take" => Wanted(t) = Takes(t)
      BY DEF Wanted
    <2>2. pc[t] # "take" => Wanted(t) = m /\ pc[t] \in Printing
      BY <1>2, Zenon DEF Wanted, TakeSecond
    <2>3. TakeBlocks(t, Wanted(t)) \/ UNCHANGED kernelVars
      BY <1>2 DEF TakeSecond
    <2> QED
      BY <1>2, <2>1, <2>2, <2>3, TakeRetryIInv, WaitTurnIInv, WaitMutexIInv, Zenon
  <1>3. ASSUME NEW t \in {A, B, C}, TaskStep(t) PROVE IInv'
    BY Zenon, <1>1, <1>2, <1>3, DelayIInv, GiveIInv, SendEnterIInv, SendLeaveIInv,
       PrintReturnIInv DEF TaskStep
  <1>4. CASE StepA
    BY <1>3, <1>4, ReadValueIInv, StoreValueIInv DEF StepA
  <1>5. CASE StepB
    BY <1>3, <1>5, CheckValueIInv DEF StepB
  <1>6. CASE StepC
    BY <1>3, <1>6 DEF StepC
  <1>7. CASE StepD
    BY <1>7, DaemonProcessIInv, DaemonCommandsIInv, DaemonCallbackIInv DEF StepD
  <1>8. CASE UNCHANGED vars
    <2> USE DEF vars, kernelVars, appVars
    <2>1. TypeOK'
      <3>1. KernelTypeOK'
        BY <1>8, Zenon DEF IInv, TypeOK, KernelTypeOK
      <3>2. PcTypeOK'
        BY <1>8, Zenon DEF IInv, TypeOK, PcTypeOK
      <3>3. DataTypeOK'
        BY <1>8, Zenon DEF IInv, TypeOK, DataTypeOK
      <3>4. FlagTypeOK'
        BY <1>8, Zenon DEF IInv, TypeOK, FlagTypeOK
      <3> QED
        BY <3>1, <3>2, <3>3, <3>4 DEF TypeOK
    <2>2. WaitInv' /\ DelayInv' /\ MutexInv'
      <3>1. WaitInv'
        BY <1>8, Zenon DEF IInv, WaitInv, Waiting, Takes
      <3>2. DelayInv'
        BY <1>8, Zenon DEF IInv, DelayInv
      <3>3. MutexInv'
        BY <1>8, Zenon DEF IInv, MutexInv, Holding
      <3> QED
        BY <3>1, <3>2, <3>3, Zenon
    <2>3. PriorityInv' /\ RunsHighest' /\ OneTurn'
      BY <1>8, Zenon DEF IInv, PriorityInv, RunsHighest, OneTurn, InTurn
    <2>4. UartInv' /\ WireInv' /\ DaemonInv'
      BY <1>8, Zenon DEF IInv, UartInv, WireInv, DaemonInv
    <2>5. ReadingInv' /\ VerdictCurrent'
      BY <1>8, Zenon DEF IInv, ReadingInv, VerdictCurrent, InTurn
    <2> QED
      BY <2>1, <2>2, <2>3, <2>4, <2>5, Zenon DEF IInv
  <1> QED
    BY <1>4, <1>5, <1>6, <1>7, <1>8, TickIInv DEF Next

\* The inductive invariant holds in every reachable state of the firmware.
THEOREM Invariance == Spec => []IInv
  <1> QED
    BY InitIInv, NextIInv, PTL DEF Spec

\* Every variable of the firmware keeps its type, for every priority assignment
\* that keeps the order of main.c and for strings of any length.
THEOREM TypeCorrect == Spec => []TypeOK
  <1>1. IInv => TypeOK
    BY DEF IInv
  <1> QED
    BY <1>1, Invariance, PTL

\* xSemaphore and ySemaphore pass one turn between the two speed tasks.
THEOREM TurnsExclusive == Spec => []OneTurn
  <1>1. IInv => OneTurn
    BY DEF IInv
  <1> QED
    BY <1>1, Invariance, PTL

\* The kernel calls of the firmware never leave a more urgent task waiting for
\* the processor.
THEOREM Preemption == Spec => []RunsHighest
  <1>1. IInv => RunsHighest
    BY DEF IInv
  <1> QED
    BY <1>1, Invariance, PTL

\* No give is dropped, although main.c ignores the results of xSemaphoreGive.
THEOREM GivesKept == Spec => []NoGiveDropped
  <1>1. IInv => NoGiveDropped
    <2> SUFFICES ASSUME IInv PROVE NoGiveDropped
      OBVIOUS
    <2>1. \A t \in {A, B} : pc[t] = "give" => uxMessagesWaiting[Gives(t)] = 0
      BY DEF IInv, OneTurn, InTurn, MutexInv, Gives
    <2> QED
      BY <2>1, DaemonRuns DEF NoGiveDropped
  <1> QED
    BY <1>1, Invariance, PTL

\* Priority inheritance bounds how long TaskCodeC waits for the UART.
THEOREM InversionBounded == Spec => []BoundedInversion
  <1>1. IInv => BoundedInversion
    <2> SUFFICES ASSUME IInv PROVE BoundedInversion
      OBVIOUS
    <2> USE DEF IInv, TypeOK
    <2>1. \A t \in Tasks : uxPriority[t] # Priority[t] => xMutexHolder[m] = t
      BY DEF PriorityInv
    <2>2. ASSUME C \in Range(xTasksWaitingToReceive[m])
          PROVE  pxCurrentTCB = xMutexHolder[m]
      <3> DEFINE h == xMutexHolder[m]
      <3>1. Waiting(m) = <<C>>
        BY <2>2 DEF WaitInv, Waiting, Range
      <3>2. /\ C \notin ready /\ h \in {A, B} /\ h \in ready
            /\ uxPriority[h] = Priority[C]
        BY <3>1, Zenon DEF WaitInv, MutexInv, Holding
      <3>3. uxPriority[pxCurrentTCB] >= Priority[C]
        BY <3>2, PriorityFacts, Zenon DEF RunsHighest, KernelTypeOK
      <3>4. \A t \in Tasks \ {C, h} : uxPriority[t] = Priority[t]
        BY DEF PriorityInv
      <3>5. \A t \in Tasks \ {C, h} : uxPriority[t] < Priority[C]
        BY <3>4, PriorityFacts
      <3>6. ~(uxPriority[pxCurrentTCB] < Priority[C])
        <4>1. Priority[C] \in Nat /\ uxPriority[pxCurrentTCB] \in Nat
          BY PriorityFacts, Zenon DEF KernelTypeOK
        <4> HIDE DEF IInv
        <4> QED
          BY <3>3, <4>1
      <3>7. pxCurrentTCB \in ready /\ pxCurrentTCB \in Tasks
        BY Zenon DEF RunsHighest, KernelTypeOK
      <3> QED
        BY <3>2, <3>5, <3>6, <3>7, Zenon
    <2> QED
      BY <2>1, <2>2, Zenon DEF BoundedInversion
  <1> QED
    BY <1>1, Invariance, PTL

\* The UART driver is never entered while it is busy: no character is dropped.
THEOREM CharactersKept == Spec => []UartNeverBusy
  <1>1. IInv => UartNeverBusy
    BY Zenon DEF IInv, UartNeverBusy, UartInv, MutexInv, Holding
  <1> QED
    BY <1>1, Invariance, PTL

\* CheckSpeedTask prints its verdict on the speed that is still stored.
THEOREM VerdictOnStoredSpeed == Spec => []VerdictCurrent
  <1>1. IInv => VerdictCurrent
    BY DEF IInv
  <1> QED
    BY <1>1, Invariance, PTL

\* Only SyncSend writes to the wire.
LEMMA WireWriters ==
    ASSUME TypeOK, [Next]_vars, wire' # wire
    PROVE  \E t \in {A, B, C} : SendLeave(t)
  <1>1. ASSUME NEW t \in {A, B, C}, TaskStep(t) PROVE SendLeave(t)
    BY <1>1, Zenon DEF TaskStep, Delay, TakeFirst, TakeSecond, Give, SendEnter, PrintReturn
  <1>2. ~Tick /\ ~StepD /\ ~(UNCHANGED vars)
    BY Zenon DEF Tick, StepD, DaemonProcess, DaemonCommands, DaemonCallback, vars, appVars
  <1>3. ~ReadValue /\ ~StoreValue /\ ~CheckValue
    BY Zenon DEF ReadValue, StoreValue, CheckValue
  <1>4. \E t \in {A, B, C} : TaskStep(t)
    BY <1>2, <1>3 DEF Next, StepA, StepB, StepC
  <1> QED
    BY <1>1, <1>4

\* Strings of different tasks never mix on the UART, whatever their length.
THEOREM StringsPrintedWhole == Spec => StringsWhole
  <1>1. ASSUME IInv, [Next]_vars, wire' # wire, wire.left # 0
        PROVE  wire'.by = wire.by /\ wire'.left = wire.left - 1
    <2> USE DEF IInv
    <2>1. PICK t \in {A, B, C} : SendLeave(t)
      BY <1>1, WireWriters
    <2>2. wire' = [by |-> t, left |-> left[t] - 1] /\ stage[t] = "sending"
      BY <2>1, Zenon DEF SendLeave
    <2>3. wire.left > 0
      BY <1>1 DEF TypeOK, DataTypeOK
    <2>4. /\ wire.by \in {A, B, C} /\ left[wire.by] = wire.left
          /\ stage[wire.by] \in {"send", "sending"}
      BY <1>1, <2>3, Zenon DEF WireInv
    <2>5. xMutexHolder[m] = wire.by /\ xMutexHolder[m] = t
      BY <1>1, <2>2, <2>4, Zenon DEF MutexInv, Holding
    <2> QED
      BY <2>2, <2>4, <2>5
  <1>2. IInv /\ [Next]_vars =>
            [wire' # wire => \/ wire.left = 0
                             \/ wire'.by = wire.by /\ wire'.left = wire.left - 1]_vars
    BY <1>1
  <1> QED
    BY <1>2, Invariance, PTL DEF Spec, StringsWhole

\* Readings and judgements alternate, each judgement on the latest reading: the
\* firmware implements the abstract hand-off.
THEOREM RefinesHandoff == Spec => ImplementsHandoff
  <1>1. Init => H!Init
    BY Zenon DEF Init, H!Init
  <1>2. IInv /\ [Next]_vars => [H!Next]_(H!vars)
    <2> SUFFICES ASSUME IInv, [Next]_vars PROVE [H!Next]_(H!vars)
      OBVIOUS
    <2> USE DEF H!vars
    <2>1. CASE StoreValue
      <3>1. ~unchecked
        BY <2>1, Zenon DEF StoreValue, IInv, ReadingInv, InTurn
      <3> QED
        BY <2>1, <3>1, Zenon DEF StoreValue, H!Next, H!Publish, IInv, TypeOK, DataTypeOK
    <2>2. CASE CheckValue
      <3>1. unchecked
        BY <2>2, Zenon DEF CheckValue, IInv, ReadingInv, InTurn
      <3> QED
        BY <2>2, <3>1, Zenon DEF CheckValue, H!Next, H!Judge
    <2>3. ASSUME NEW t \in {A, B, C}, TaskStep(t)
          PROVE  UNCHANGED <<g_last_speed, unchecked, high>>
      BY <2>3, Zenon DEF TaskStep, Delay, TakeFirst, TakeSecond, Give, SendEnter,
                  SendLeave, PrintReturn
    <2>4. ASSUME Tick \/ StepD \/ UNCHANGED vars \/ ReadValue
          PROVE  UNCHANGED <<g_last_speed, unchecked, high>>
      BY <2>4, Zenon DEF Tick, StepD, DaemonProcess, DaemonCommands, DaemonCallback,
                  ReadValue, vars, appVars
    <2> QED
      BY <2>1, <2>2, <2>3, <2>4 DEF Next, StepA, StepB, StepC
  <1> QED
    BY <1>1, <1>2, Invariance, PTL DEF Spec, ImplementsHandoff, H!Spec

=============================================================================
