------------------------------ MODULE LpspiSync ------------------------------
(***************************************************************************)
(* Lpspi_Ip_SyncTransmit of Demo_FreeRTOS/RTD/src/Lpspi_Ip.c, the polling  *)
(* transfer of the firmware, on the LPSPI controller of QEMU (module       *)
(* Lpspi).  Tasks call it concurrently; a step is one register access or   *)
(* one exclusive area of the caller, and the other tasks may run between.  *)
(*                                                                         *)
(* The transfers are full duplex with both buffers given, in master mode,  *)
(* the driver initialised.  A byte of a transfer is named by the transfer  *)
(* and its position, and the slave's answer to a word by the word, so that *)
(* answers of other words or other transfers are told apart.               *)
(***************************************************************************)
EXTENDS Naturals, Sequences

CONSTANTS Caller,     \* the tasks
          Frames,     \* numbers of frames of a transfer
          FrameSize,  \* frame sizes of the external devices
          TimeOut,    \* timeouts, in OSIF_COUNTER_DUMMY ticks
          LPSPI_IP_FIFO_SIZE_U8

ASSUME SyncAssumption ==
    /\ Frames \subseteq Nat \ {0}
    /\ FrameSize \subseteq {8, 16, 32}
    /\ TimeOut \subseteq Nat \ {0}
    /\ LPSPI_IP_FIFO_SIZE_U8 \in Nat \ {0, 1}

VARIABLES
    dev,       \* the controller
    Status,    \* State->Status
    State,     \* the other fields of the state structure in use, and
               \* the driver's CONT bit of TCR
    pc,        \* place of each caller
    todo,      \* frames left in the present for statement
    Elapsed,   \* ElapsedTicks
    job,       \* arguments of the present transfer
    result     \* what the last call of each caller returned

vars == <<dev, Status, State, pc, todo, Elapsed, job, result>>

\* Bytes of word i of a transfer.
Word(j, i) == [k \in 1 .. (j.framesz \div 8) |-> <<j.by, j.turn, i, k>>]

\* The words the slave may answer to w: it answers with a word of its own.
Slave(w) == {w}

Dev == INSTANCE Lpspi WITH
           s <- dev, LPSPI_FIFO_BYTE_CAPACITY <- 4 * LPSPI_IP_FIFO_SIZE_U8,
           Byte <- {}, Answer <- Slave, Watermark <- {0},
           SrWrite <- {}, IerWrite <- {}

\* The command of MASTER_EXTERNAL_DEVICE as the controller understands it: bits
\* 30 and 31, CPHA and CPOL to the driver, are CONT and CONTC to the device.
TransferCommand(framesz) ==
    [framesz |-> framesz, cont |-> TRUE, rxmsk |-> FALSE]

LeastOf(a, b) == IF a < b THEN a ELSE b

-----------------------------------------------------------------------------

\* Lpspi_Ip_Init on a controller out of reset: CR, CFGR1 and FCR.
Lpspi_Ip_Init(d) ==
    Dev!write_FCR(Dev!write_CFGR1(Dev!write_CR(d, FALSE, FALSE, FALSE), FALSE),
                  LPSPI_IP_FIFO_SIZE_U8 - 2, 0)

Init ==
    /\ dev = Lpspi_Ip_Init(Dev!nxps32k358_lpspi_do_reset)
    /\ Status = "IDLE"
    /\ State = [CurrentTxFifoSlot |-> 0, TxIndex |-> 0, RxIndex |-> 0,
                RxBuffer |-> <<>>, CONT |-> FALSE]
    /\ pc = [c \in Caller |-> "idle"]
    /\ todo = 0
    /\ Elapsed = 0
    /\ job \in [by : Caller, turn : {0}, frames : {0}, framesz : {8}, timeout : {1}]
    /\ result = [c \in Caller |-> "none"]

\* Mutated: the hardware status is not looked at.
AnyTime(c) == TRUE

\* Whether the hardware is free for c.
NotBusy(c) == Status # "BUSY"

\* SyncTransmit up to the end of exclusive area 08.
Call(c) ==
    /\ pc[c] = "idle"
    /\ IF NotBusy(c)
       THEN /\ Status' = "BUSY"
            /\ job' \in [by : {c}, turn : {1 - job.turn}, frames : Frames,
                         framesz : FrameSize, timeout : TimeOut]
            /\ pc' = [pc EXCEPT ![c] = "begin"]
            /\ UNCHANGED result
       ELSE /\ result' = [result EXCEPT ![c] = "FAIL"]
            /\ UNCHANGED <<Status, job, pc>>
    /\ UNCHANGED <<dev, State, todo, Elapsed>>

\* Interrupts and DMA requests off; all FIFO slots are free.
Begin(c) ==
    /\ pc[c] = "begin"
    /\ dev' = Dev!write_IER(dev, {})
    /\ State' = [State EXCEPT !.CurrentTxFifoSlot = LPSPI_IP_FIFO_SIZE_U8]
    /\ pc' = [pc EXCEPT ![c] = "setup"]
    /\ UNCHANGED <<Status, todo, Elapsed, job, result>>

\* Mutated: the FIFOs are not reset before a transfer.
KeepFifos(d) == d

\* Lpspi_ErrataHandle: reset the controller, keep CFGR1.
Lpspi_ErrataHandle(d) ==
    Dev!write_CFGR1(Dev!write_CR(Dev!nxps32k358_lpspi_do_reset,
                                 FALSE, FALSE, FALSE),
                    d.loopback)

\* Lpspi_TransmitTxInit, exclusive area 11: module off, FIFOs reset, flags
\* cleared, module on.
Setup(c) ==
    LET off == Dev!write_CR(dev, FALSE, FALSE, FALSE)
        fresh == Lpspi_ErrataHandle(off)
    IN  /\ pc[c] = "setup"
        /\ dev' = Dev!write_CR(Dev!write_SR(fresh, fresh.sr), TRUE, FALSE, FALSE)
        /\ pc' = [pc EXCEPT ![c] = "command"]
        /\ UNCHANGED <<Status, State, todo, Elapsed, job, result>>

\* Its rest, and Lpspi_TransmitRxInit: the command takes a slot of the FIFO.
Command(c) ==
    /\ pc[c] = "command"
    /\ dev' \in Dev!write_TCR(dev, TransferCommand(job.framesz))
    /\ State' = [CurrentTxFifoSlot |-> State.CurrentTxFifoSlot - 1,
                 TxIndex |-> 0, RxIndex |-> 0, RxBuffer |-> <<>>, CONT |-> TRUE]
    /\ Elapsed' = 0
    /\ pc' = [pc EXCEPT ![c] = "loop"]
    /\ UNCHANGED <<Status, todo, job, result>>

\* Mutated: a slot for the command is given back with every batch of frames.
CommandSlotAgain(n) == IF n # 0 THEN 1 ELSE 0

\* The slot of the command, given back with the first frames received.
CommandSlot(n) == IF n # 0 /\ State.RxIndex = 0 THEN 1 ELSE 0

\* Mutated: frames received do not count as progress.
ElapsedKept(n) == Elapsed

\* The time without progress starts anew with n frames received.
ElapsedAfter(n) == IF n # 0 THEN 0 ELSE Elapsed

\* The test of the loop, then the count of frames in the RX FIFO.
LoopTest(c) ==
    LET n == LeastOf(dev.fsr.rx, job.frames - State.RxIndex)
    IN  /\ pc[c] = "loop"
        /\ IF State.RxIndex = job.frames
           THEN /\ Status' = "IDLE"
                /\ result' = [result EXCEPT ![c] = "SUCCESS"]
                /\ pc' = [pc EXCEPT ![c] = "idle"]
                /\ UNCHANGED <<dev, State, todo, Elapsed>>
           ELSE /\ dev' = Dev!lpspi_update_status(dev)
                /\ State' = [State EXCEPT !.CurrentTxFifoSlot = @ + CommandSlot(n)]
                /\ todo' = n
                /\ Elapsed' = ElapsedAfter(n)
                /\ pc' = [pc EXCEPT ![c] = "receive"]
                /\ UNCHANGED <<Status, result>>
        /\ UNCHANGED job

\* Lpspi_Ip_ReadDataFromFifo, a frame at a time; then what there is to send.
Receive(c) ==
    /\ pc[c] = "receive"
    /\ IF todo > 0
       THEN /\ dev' = Dev!read_RDR(dev)
            /\ State' = [State EXCEPT !.RxBuffer = @ \o Dev!RDR(dev),
                                      !.RxIndex = @ + 1,
                                      !.CurrentTxFifoSlot = @ + 1]
            /\ todo' = todo - 1
            /\ UNCHANGED pc
       ELSE /\ todo' = LeastOf(State.CurrentTxFifoSlot, job.frames - State.TxIndex)
            /\ pc' = [pc EXCEPT ![c] =
                          IF State.CurrentTxFifoSlot = 0 THEN "elapse"
                          ELSE IF State.TxIndex = job.frames THEN "clear" ELSE "send"]
            /\ UNCHANGED <<dev, State>>
    /\ UNCHANGED <<Status, Elapsed, job, result>>

\* Lpspi_Ip_PushDataToFifo, a frame at a time.
Send(c) ==
    /\ pc[c] = "send"
    /\ IF todo > 0
       THEN /\ dev' \in Dev!write_TDR(dev, Word(job, State.TxIndex))
            /\ State' = [State EXCEPT !.TxIndex = @ + 1,
                                      !.CurrentTxFifoSlot = @ - 1]
            /\ todo' = todo - 1
            /\ Elapsed' = 0
            /\ UNCHANGED pc
       ELSE /\ pc' = [pc EXCEPT ![c] = "elapse"]
            /\ UNCHANGED <<dev, State, todo, Elapsed>>
    /\ UNCHANGED <<Status, job, result>>

\* "Clear CS", once: a write of TCR without the driver's CONT and CONTC bits,
\* which the device stores and gives no meaning.
ClearCs(c) ==
    /\ pc[c] = "clear"
    /\ dev' \in IF State.CONT THEN Dev!write_TCR(dev, dev.tcr) ELSE {dev}
    /\ State' = [State EXCEPT !.CONT = FALSE]
    /\ pc' = [pc EXCEPT ![c] = "elapse"]
    /\ UNCHANGED <<Status, todo, Elapsed, job, result>>

\* OsIf_GetElapsed counts the turns of the loop.
Elapse(c) ==
    /\ pc[c] = "elapse"
    /\ Elapsed' = Elapsed + 1
    /\ IF Elapsed' >= job.timeout
       THEN /\ Status' = "FAULT"
            /\ result' = [result EXCEPT ![c] = "TIMEOUT"]
            /\ pc' = [pc EXCEPT ![c] = "idle"]
       ELSE /\ pc' = [pc EXCEPT ![c] = "loop"]
            /\ UNCHANGED <<Status, result>>
    /\ UNCHANGED <<dev, State, todo, job>>

Next == \E c \in Caller :
    \/ Call(c)
    \/ Begin(c)
    \/ Setup(c)
    \/ Command(c)
    \/ LoopTest(c)
    \/ Receive(c)
    \/ Send(c)
    \/ ClearCs(c)
    \/ Elapse(c)

Spec == Init /\ [][Next]_vars

-----------------------------------------------------------------------------
(* Properties. *)

\* The bytes of a transfer.
Sent(j) ==
    LET w == j.framesz \div 8
    IN  [n \in 1 .. j.frames * w |->
             <<j.by, j.turn, (n - 1) \div w, ((n - 1) % w) + 1>>]

Exchanging == {"loop", "receive", "send", "clear", "elapse"}

\* A caller only ever receives the answers to its own words, in their order,
\* also after a transfer that timed out with frames left in the FIFOs; and all
\* of them when SyncTransmit returns success.
AnswersInOrder ==
    /\ (\E c \in Caller : pc[c] \in Exchanging) =>
           State.RxBuffer = SubSeq(Sent(job), 1, Len(State.RxBuffer))
    /\ Status = "IDLE" /\ job.frames > 0 => State.RxBuffer = Sent(job)

\* The frames on their way never exceed the FIFOs: every word is exchanged as it
\* is written, so that the driver never depends on the controller to go on with
\* a waiting frame when the RX FIFO is read, and no error flag is raised.
NothingWaits ==
    (\E c \in Caller : pc[c] \in Exchanging) =>
        dev.tx_fifo = <<>> /\ dev.sr \cap {"TEF", "REF"} = {}

\* A timeout of at least two turns of the loop never strikes.
TimeoutNeverStrikes ==
    Status = "FAULT" => job.timeout = 1

\* One task at a time uses the controller: the status is BUSY while, and only
\* while, a task is inside SyncTransmit.
OneTransfer ==
    /\ \A c, d \in Caller : pc[c] # "idle" /\ pc[d] # "idle" => c = d
    /\ Status = "BUSY" <=> \E c \in Caller : pc[c] # "idle"

\* Comment in SyncTransmit: the chip select is cleared at the end.
SelectCleared == Status = "IDLE" => ~dev.cs

=============================================================================
