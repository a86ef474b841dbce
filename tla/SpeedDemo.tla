------------------------------ MODULE SpeedDemo ------------------------------
(***************************************************************************)
(* The firmware of Demo_FreeRTOS/src/main.c on the FreeRTOS kernel:        *)
(* ReadSpeedTask reads the motor speed over SPI, CheckSpeedTask judges it, *)
(* TaskCodeC reports the software timer, the timer daemon of timers.c runs *)
(* its callback.  xSemaphore and ySemaphore hand the turn back and forth,  *)
(* zSemaphore carries timer expiries, xMutex guards the UART in print().   *)
(*                                                                         *)
(* A statement of a task is a value of pc; stage is the place inside a     *)
(* kernel call or print().  Only the running task takes its steps, one     *)
(* critical section or one UART driver section at a time.                  *)
(***************************************************************************)
EXTENDS Naturals, Sequences, Functions

CONSTANTS configMAX_PRIORITIES,
          configTIMER_TASK_PRIORITY,
          HIGH_SPEED_THRESHOLD,
          Speed,      \* the answers of the motor sensor
          MaxLen,     \* bound on the length of a printed string
          MaxDue      \* bound on the timer expiries not yet processed

ASSUME PriorityAssumption ==
    /\ configMAX_PRIORITIES \in Nat
    /\ configTIMER_TASK_PRIORITY \in Nat \ {0}
    /\ configTIMER_TASK_PRIORITY + 2 <= configMAX_PRIORITIES

ASSUME BoundAssumption ==
    /\ Speed \subseteq Nat
    /\ HIGH_SPEED_THRESHOLD \in Nat
    /\ MaxLen \in Nat \ {0}
    /\ MaxDue \in Nat \ {0}

A == "ReadSpeedTask"
B == "CheckSpeedTask"
C == "TaskCodeC"
D == "TimerDaemon"
Idle == "Idle"
Tasks == {A, B, C, D, Idle}

x == "xSemaphore"
y == "ySemaphore"
z == "zSemaphore"
m == "xMutex"
Sems == {x, y, z, m}

NoOne == "none"

\* Mutated: the timer daemon as urgent as TaskCodeC.
PriorityOfUrgentDaemon == [t \in Tasks |->
    IF t \in {A, B} THEN configMAX_PRIORITIES - 2
    ELSE IF t \in {C, D} THEN configMAX_PRIORITIES - 1
    ELSE 0]

\* xTaskCreate in main, xTimerCreateTimerTask, the idle task.
Priority == [t \in Tasks |->
    IF t \in {A, B} THEN configMAX_PRIORITIES - 2
    ELSE IF t = C THEN configMAX_PRIORITIES - 1
    ELSE IF t = D THEN configTIMER_TASK_PRIORITY
    ELSE 0]

VARIABLES pxCurrentTCB, ready, delayed, uxPriority, uxMutexesHeld,
          uxMessagesWaiting, xMutexHolder, xTasksWaitingToReceive

INSTANCE Kernel WITH
    Task <- Tasks, Sem <- Sems, Mutex <- {m}, uxLength <- [s \in Sems |-> 1],
    uxBasePriority <- Priority, NoTask <- NoOne

VARIABLES
    pc,              \* statement each task is at
    stage,           \* place inside that statement
    left,            \* characters, or timer callbacks, still to go
    received_value,  \* local of ReadSpeedTask
    g_last_speed,    \* shared by ReadSpeedTask and CheckSpeedTask
    high,            \* branch CheckSpeedTask has taken
    IsTxBusy,        \* Lpuart_Uart_Ip state of channel 3
    active,          \* the timer is in the active list
    due,             \* periods of the timer elapsed and not processed
    wire,            \* the last character on the UART: its task, characters left
    unchecked        \* g_last_speed holds a reading CheckSpeedTask has not seen

kernelVars == <<pxCurrentTCB, ready, delayed, uxPriority, uxMutexesHeld,
                uxMessagesWaiting, xMutexHolder, xTasksWaitingToReceive>>
appVars == <<pc, stage, left, received_value, g_last_speed, high, IsTxBusy,
             active, due, wire, unchecked>>
vars == <<kernelVars, appVars>>

-----------------------------------------------------------------------------
(* Program text. *)

\* The task loops: the statement that follows each statement.
LoopA == [delay  |-> "take",   take   |-> "print1", print1 |-> "read",
          read   |-> "store",  store  |-> "print2", print2 |-> "print3",
          print3 |-> "print4", print4 |-> "give",   give   |-> "delay"]
LoopB == [delay  |-> "take",   take   |-> "print1", print1 |-> "check",
          check  |-> "print2", print2 |-> "give",   give   |-> "delay"]
LoopC == [take   |-> "print1", print1 |-> "take"]

Loop(t) == IF t = A THEN LoopA ELSE IF t = B THEN LoopB ELSE LoopC

\* The calls of print().
Printing == {"print1", "print2", "print3", "print4"}

\* Mutated: ReadSpeedTask hands the turn back to itself.
GivesItself(t) == x

\* Semaphore each task takes, and the one it gives.
Takes(t) == IF t = A THEN x ELSE IF t = B THEN y ELSE z
Gives(t) == IF t = A THEN y ELSE x

\* Semaphore a pending xSemaphoreTake is about.
Wanted(t) == IF pc[t] = "take" THEN Takes(t) ELSE m

\* t moves on to its next statement.
Advance(t) ==
    /\ pc' = [pc EXCEPT ![t] = Loop(t)[@]]
    /\ stage' = [stage EXCEPT ![t] = "enter"]

-----------------------------------------------------------------------------
(* main() up to vTaskStartScheduler: semaphores, tasks, the start command   *)
(* of the timer in the daemon's queue.                                     *)

\* Mutated: ySemaphore is created full as well; xMutex lets two tasks in.
InitialTwoTurns(s) == IF s = z THEN 0 ELSE 1
InitialTwoHolders(s) == IF s = m THEN 2 ELSE IF s = x THEN 1 ELSE 0

\* xSemaphoreCreateMutex, xSemaphoreCreateCounting(1, ...).
InitialCount(s) == IF s \in {x, m} THEN 1 ELSE 0

Init ==
    /\ pxCurrentTCB = C
    /\ ready = Tasks
    /\ delayed = {}
    /\ uxPriority = Priority
    /\ uxMutexesHeld = [t \in Tasks |-> 0]
    /\ uxMessagesWaiting = [s \in Sems |-> InitialCount(s)]
    /\ xMutexHolder = [s \in Sems |-> NoOne]
    /\ xTasksWaitingToReceive = [s \in Sems |-> <<>>]
    /\ pc = [t \in {A, B, C, D} |->
                 IF t \in {A, B} THEN "delay" ELSE IF t = C THEN "take" ELSE "process"]
    /\ stage = [t \in {A, B, C} |-> "enter"]
    /\ left = [t \in {A, B, C, D} |-> 0]
    /\ received_value \in Speed      \* uninitialised local
    /\ g_last_speed = 0
    /\ high = FALSE
    /\ IsTxBusy = FALSE
    /\ active = FALSE
    /\ due = 0
    /\ wire = [by |-> NoOne, left |-> 0]
    /\ unchecked = FALSE

-----------------------------------------------------------------------------
(* Steps of the running task. *)

\* vTaskDelayUntil.
Delay(t) ==
    /\ pxCurrentTCB = t
    /\ pc[t] = "delay"
    /\ xTaskDelayUntil(t)
    /\ Advance(t)
    /\ UNCHANGED <<left, received_value, g_last_speed, high, IsTxBusy,
                   active, due, wire, unchecked>>

\* xSemaphoreTake: the semaphore is there, or go on to block.
TakeFirst(t) ==
    /\ pxCurrentTCB = t
    /\ pc[t] \in {"take"} \cup Printing
    /\ stage[t] = "enter"
    /\ \/ /\ TakeAvailable(t, Wanted(t))
          /\ IF pc[t] = "take"
             THEN Advance(t) /\ UNCHANGED left
             ELSE /\ stage' = [stage EXCEPT ![t] = "send"]
                  /\ \E n \in 1 .. MaxLen : left' = [left EXCEPT ![t] = n]
                  /\ UNCHANGED pc
       \/ /\ uxMessagesWaiting[Wanted(t)] = 0
          /\ stage' = [stage EXCEPT ![t] = "block"]
          /\ UNCHANGED <<kernelVars, pc, left>>
    /\ UNCHANGED <<received_value, g_last_speed, high, IsTxBusy, active, due,
                   wire, unchecked>>

\* xSemaphoreTake: under the suspended scheduler, wait unless a unit arrived
\* meanwhile; either way the loop then tries again.
TakeSecond(t) ==
    /\ pxCurrentTCB = t
    /\ pc[t] \in {"take"} \cup Printing
    /\ stage[t] = "block"
    /\ \/ TakeBlocks(t, Wanted(t))
       \/ uxMessagesWaiting[Wanted(t)] > 0 /\ UNCHANGED kernelVars
    /\ stage' = [stage EXCEPT ![t] = "enter"]
    /\ UNCHANGED <<pc, left, received_value, g_last_speed, high, IsTxBusy,
                   active, due, wire, unchecked>>

\* xSemaphoreGive of the task loops.
Give(t) ==
    /\ pxCurrentTCB = t
    /\ pc[t] = "give"
    /\ xSemaphoreGive(t, Gives(t))
    /\ Advance(t)
    /\ UNCHANGED <<left, received_value, g_last_speed, high, IsTxBusy,
                   active, due, wire, unchecked>>

\* Mutated: the end of the string is seen one character late.
AfterCharLate(t) == IF left[t] = 0 THEN "give" ELSE "send"

\* print(): the loop test after a character.
AfterChar(t) == IF left[t] = 1 THEN "give" ELSE "send"

\* print(): Lpuart_Uart_Ip_SyncSend enters, or returns BUSY and the character
\* is lost, UART_send_byte ignoring the status.
SendEnter(t) ==
    /\ pxCurrentTCB = t
    /\ pc[t] \in Printing
    /\ stage[t] = "send"
    /\ IsTxBusy' = TRUE
    /\ IF IsTxBusy
       THEN /\ left' = [left EXCEPT ![t] = @ - 1]
            /\ stage' = [stage EXCEPT ![t] = AfterChar(t)]
       ELSE /\ stage' = [stage EXCEPT ![t] = "sending"]
            /\ UNCHANGED left
    /\ UNCHANGED <<kernelVars, pc, received_value, g_last_speed, high, active,
                   due, wire, unchecked>>

\* print(): the rest of SyncSend puts the character on the wire.
SendLeave(t) ==
    /\ pxCurrentTCB = t
    /\ pc[t] \in Printing
    /\ stage[t] = "sending"
    /\ wire' = [by |-> t, left |-> left[t] - 1]
    /\ IsTxBusy' = FALSE
    /\ left' = [left EXCEPT ![t] = @ - 1]
    /\ stage' = [stage EXCEPT ![t] = AfterChar(t)]
    /\ UNCHANGED <<kernelVars, pc, received_value, g_last_speed, high, active,
                   due, unchecked>>

\* print(): xSemaphoreGive(xMutex) and return.
PrintReturn(t) ==
    /\ pxCurrentTCB = t
    /\ pc[t] \in Printing
    /\ stage[t] = "give"
    /\ xSemaphoreGive(t, m)
    /\ Advance(t)
    /\ UNCHANGED <<left, received_value, g_last_speed, high, IsTxBusy,
                   active, due, wire, unchecked>>

\* Motor_Sensor_ReadValue.
ReadValue ==
    /\ pxCurrentTCB = A
    /\ pc[A] = "read"
    /\ received_value' \in Speed
    /\ Advance(A)
    /\ UNCHANGED <<kernelVars, left, g_last_speed, high, IsTxBusy, active,
                   due, wire, unchecked>>

\* g_last_speed = received_value.
StoreValue ==
    /\ pxCurrentTCB = A
    /\ pc[A] = "store"
    /\ g_last_speed' = received_value
    /\ unchecked' = TRUE
    /\ Advance(A)
    /\ UNCHANGED <<kernelVars, left, received_value, high, IsTxBusy, active,
                   due, wire>>

\* if (g_last_speed > HIGH_SPEED_THRESHOLD).
CheckValue ==
    /\ pxCurrentTCB = B
    /\ pc[B] = "check"
    /\ high' = (g_last_speed > HIGH_SPEED_THRESHOLD)
    /\ unchecked' = FALSE
    /\ Advance(B)
    /\ UNCHANGED <<kernelVars, left, received_value, g_last_speed, IsTxBusy,
                   active, due, wire>>

-----------------------------------------------------------------------------
(* The timer daemon. *)

\* prvProcessTimerOrBlockTask: run the callback once per elapsed period, or
\* wait for the next expiry; a command in the queue keeps it from waiting.
DaemonProcess ==
    /\ pxCurrentTCB = D
    /\ pc[D] = "process"
    /\ IF active /\ due > 0
       THEN /\ pc' = [pc EXCEPT ![D] = "callback"]
            /\ left' = [left EXCEPT ![D] = due]
            /\ due' = 0
            /\ UNCHANGED kernelVars
       ELSE /\ pc' = [pc EXCEPT ![D] = "commands"]
            /\ IF active THEN BlockOnDelayedList(D) ELSE Yield
            /\ UNCHANGED <<left, due>>
    /\ UNCHANGED <<stage, received_value, g_last_speed, high, IsTxBusy, active,
                   wire, unchecked>>

\* Mutated: the start command was lost, its result ignored.
DaemonCommandsLost ==
    /\ pxCurrentTCB = D
    /\ pc[D] = "commands"
    /\ pc' = [pc EXCEPT ![D] = "process"]
    /\ UNCHANGED <<kernelVars, stage, left, received_value, g_last_speed, high,
                   IsTxBusy, active, due, wire, unchecked>>

\* prvProcessReceivedCommands: the start command xTimerStart queued before the
\* scheduler ran; a timer that has expired meanwhile is processed at once.
DaemonCommands ==
    /\ pxCurrentTCB = D
    /\ pc[D] = "commands"
    /\ active' = TRUE
    /\ IF ~active /\ due > 0
       THEN /\ pc' = [pc EXCEPT ![D] = "callback"]
            /\ left' = [left EXCEPT ![D] = due]
            /\ due' = 0
       ELSE /\ pc' = [pc EXCEPT ![D] = "process"]
            /\ UNCHANGED <<left, due>>
    /\ UNCHANGED <<kernelVars, stage, received_value, g_last_speed, high,
                   IsTxBusy, wire, unchecked>>

\* vTimerCallback: xSemaphoreGive(zSemaphore), its result ignored.
DaemonCallback ==
    /\ pxCurrentTCB = D
    /\ pc[D] = "callback"
    /\ xSemaphoreGive(D, z)
    /\ left' = [left EXCEPT ![D] = @ - 1]
    /\ pc' = [pc EXCEPT ![D] = IF left[D] = 1 THEN "commands" ELSE @]
    /\ UNCHANGED <<stage, received_value, g_last_speed, high, IsTxBusy, active,
                   due, wire, unchecked>>

-----------------------------------------------------------------------------
(* Time: a tick that ends some delays, that may complete a timer period     *)
(* (and so end the daemon's wait), and that may share the processor.       *)

Tick ==
    /\ \E woken \in SUBSET (delayed \ {D}) :
           \/ /\ xTaskIncrementTick(woken)
              /\ UNCHANGED due
           \/ /\ due < MaxDue
              /\ due' = due + 1
              /\ xTaskIncrementTick(woken \cup (delayed \cap {D}))
    /\ UNCHANGED <<pc, stage, left, received_value, g_last_speed, high,
                   IsTxBusy, active, wire, unchecked>>

TaskStep(t) ==
    \/ Delay(t)
    \/ TakeFirst(t)
    \/ TakeSecond(t)
    \/ Give(t)
    \/ SendEnter(t)
    \/ SendLeave(t)
    \/ PrintReturn(t)

StepA == TaskStep(A) \/ ReadValue \/ StoreValue
StepB == TaskStep(B) \/ CheckValue
StepC == TaskStep(C)
StepD == DaemonProcess \/ DaemonCommands \/ DaemonCallback

Next == StepA \/ StepB \/ StepC \/ StepD \/ Tick

Spec == Init /\ [][Next]_vars

\* A task given the processor executes; the tick timer keeps running.
Fairness ==
    /\ SF_vars(StepA)
    /\ SF_vars(StepB)
    /\ SF_vars(StepC)
    /\ SF_vars(StepD)
    /\ \A t \in {A, B} : WF_vars(Tick /\ t \in delayed /\ t \notin delayed')
    /\ WF_vars(Tick /\ due' > due)

FairSpec == Spec /\ Fairness

-----------------------------------------------------------------------------
(* Properties. *)

Statement == {"delay", "take", "print1", "read", "store", "check", "print2",
              "print3", "print4", "give", "process", "callback", "commands"}

PcTypeOK ==
    /\ pc \in [{A, B, C, D} -> Statement]
    /\ pc[A] \in DOMAIN LoopA
    /\ pc[B] \in DOMAIN LoopB
    /\ pc[C] \in DOMAIN LoopC
    /\ pc[D] \in {"process", "callback", "commands"}
    /\ stage \in [{A, B, C} -> {"enter", "block", "send", "sending", "give"}]
    /\ left \in [{A, B, C, D} -> Nat]

DataTypeOK ==
    /\ received_value \in Speed
    /\ g_last_speed \in Speed \cup {0}
    /\ due \in 0 .. MaxDue
    /\ wire \in [by : {A, B, C, NoOne}, left : Nat]

FlagTypeOK ==
    /\ high \in BOOLEAN
    /\ IsTxBusy \in BOOLEAN
    /\ active \in BOOLEAN
    /\ unchecked \in BOOLEAN

\* Every variable keeps its type, every task stays in its own program text.
TypeOK == KernelTypeOK /\ PcTypeOK /\ DataTypeOK /\ FlagTypeOK

InTurn(t) == pc[t] \notin {"delay", "take"}

\* The turn is never duplicated or lost: exactly one of xSemaphore, ySemaphore,
\* the body of ReadSpeedTask and the body of CheckSpeedTask has it.
OneTurn ==
    /\ ~(InTurn(A) /\ InTurn(B))
    /\ uxMessagesWaiting[x] + uxMessagesWaiting[y] =
           IF InTurn(A) \/ InTurn(B) THEN 0 ELSE 1

\* The results of xSemaphoreGive main.c ignores are never errQUEUE_FULL: no
\* turn and, TaskCodeC being more urgent than the daemon, no expiry is dropped.
NoGiveDropped ==
    /\ \A t \in {A, B} : pc[t] = "give" => uxMessagesWaiting[Gives(t)] = 0
    /\ pxCurrentTCB = D /\ pc[D] = "callback" => uxMessagesWaiting[z] = 0

\* No preemption is missed by the yield conditions of the kernel: the running
\* task has the highest priority of the ready tasks.
RunsHighest ==
    /\ pxCurrentTCB \in ready
    /\ \A t \in ready : uxPriority[t] <= uxPriority[pxCurrentTCB]

\* Priority inheritance bounds the inversion: while the most urgent task waits
\* for the UART nobody but the task holding the UART runs, and the inherited
\* priority is kept no longer than the mutex.
BoundedInversion ==
    /\ C \in Range(xTasksWaitingToReceive[m]) => pxCurrentTCB = xMutexHolder[m]
    /\ \A t \in Tasks :
           uxPriority[t] # Priority[t] => xMutexHolder[m] = t

\* SyncSend, whose status UART_send_byte ignores, is never called while it is
\* busy: no character of a string is dropped.
UartNeverBusy ==
    \A t \in {A, B, C} : pc[t] \in Printing /\ stage[t] = "send" => ~IsTxBusy

\* Strings are printed whole: a character on the wire follows the previous
\* character of its own string, or the last one of another string.
StringsWhole ==
    [][wire' # wire =>
           \/ wire.left = 0
           \/ wire'.by = wire.by /\ wire'.left = wire.left - 1]_vars

\* CheckSpeedTask reports on the speed it was handed: while it prints, the
\* speed its branch was taken for has not changed.
VerdictCurrent ==
    pc[B] \in {"print2", "give"} => high = (g_last_speed > HIGH_SPEED_THRESHOLD)

H == INSTANCE Handoff WITH value <- g_last_speed, pending <- unchecked,
                           verdict <- high

\* The two speed tasks implement the alternation of readings and judgements.
ImplementsHandoff == H!Spec

\* ... and, the processor being shared, it never stops.
ImplementsFairHandoff == H!FairSpec

\* An elapsed timer period is followed by a print of TaskCodeC, provided the speed
\* tasks do not overrun their periods for ever: the daemon has a lower priority
\* than both.  That none of a backlog of periods is lost is NoGiveDropped.
ExpiryReported ==
    []<>(ready \cap {A, B} = {}) => (due > 0 ~> pc[C] = "print1")

-----------------------------------------------------------------------------
(* The inductive invariant behind the safety properties. *)

Holding(t) == stage[t] \in {"send", "sending", "give"}

Waiting(s) == xTasksWaitingToReceive[s]

\* Only its taker ever waits for a semaphore, and only TaskCodeC for the mutex;
\* a waiter is neither ready nor delayed and its semaphore is empty.
WaitInv ==
    /\ \A t \in {A, B, C} : Waiting(Takes(t)) \in {<<>>, <<t>>}
    /\ Waiting(m) \in {<<>>, <<C>>}
    /\ \A t \in {A, B, C} : Waiting(Takes(t)) = <<t>> =>
           /\ t \notin ready \cup delayed
           /\ pc[t] = "take" /\ stage[t] = "enter"
           /\ uxMessagesWaiting[Takes(t)] = 0
    /\ Waiting(m) = <<C>> =>
           /\ C \notin ready
           /\ pc[C] = "print1" /\ stage[C] = "enter"
           /\ uxMessagesWaiting[m] = 0
           /\ xMutexHolder[m] \in {A, B}
           /\ uxPriority[xMutexHolder[m]] = Priority[C]
    /\ C \notin ready => Waiting(z) = <<C>> \/ Waiting(m) = <<C>>

\* Where delayed tasks are; the idle task is always ready.
DelayInv ==
    /\ Idle \in ready
    /\ delayed \subseteq {A, B, D}
    /\ delayed \cap ready = {}
    /\ \A t \in {A, B} \cap delayed : pc[t] = "take" /\ stage[t] = "enter"

\* The mutex: its holder is the task inside print(), and stays ready.
MutexInv ==
    /\ \A s \in Sems : uxMessagesWaiting[s] \in {0, 1}
    /\ xMutexHolder[m] \in {A, B, C, NoOne}
    /\ uxMessagesWaiting[m] = 1 <=> xMutexHolder[m] = NoOne
    /\ \A t \in {A, B, C} :
           /\ xMutexHolder[m] = t <=> Holding(t)
           /\ Holding(t) => pc[t] \in Printing /\ t \in ready
           /\ stage[t] = "block" => pc[t] \in {"take"} \cup Printing
           /\ stage[t] \in {"send", "sending"} => left[t] > 0
    /\ \A t \in Tasks : uxMutexesHeld[t] = IF xMutexHolder[m] = t THEN 1 ELSE 0

\* Priorities are the base ones, save for a holder that serves TaskCodeC.
PriorityInv ==
    \A t \in Tasks :
        \/ uxPriority[t] = Priority[t]
        \/ xMutexHolder[m] = t /\ uxPriority[t] = Priority[C]

UartInv == IsTxBusy => \E t \in {A, B, C} : stage[t] = "sending"

WireInv ==
    wire.left > 0 =>
        /\ wire.by \in {A, B, C}
        /\ left[wire.by] = wire.left
        /\ stage[wire.by] \in {"send", "sending"}

\* A reading is unchecked from its store to its check.
ReadingInv ==
    /\ uxMessagesWaiting[x] = 1 => ~unchecked
    /\ uxMessagesWaiting[y] = 1 => unchecked
    /\ InTurn(A) => (unchecked <=> pc[A] \in {"print2", "print3", "print4", "give"})
    /\ InTurn(B) => (unchecked <=> pc[B] \in {"print1", "check"})

\* The daemon has a callback to run while it is in its callback loop.
DaemonInv == pc[D] = "callback" => left[D] > 0

IInv ==
    /\ TypeOK
    /\ WaitInv
    /\ DelayInv
    /\ MutexInv
    /\ PriorityInv
    /\ RunsHighest
    /\ OneTurn
    /\ UartInv
    /\ WireInv
    /\ DaemonInv
    /\ ReadingInv
    /\ VerdictCurrent

=============================================================================
