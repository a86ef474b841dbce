# TLA+ models of the S32K358 speed demo, its kernel and its emulated devices

This directory holds the formal models of this repository: the FreeRTOS speed
demo (`Demo_FreeRTOS/`), the parts of the kernel and the drivers it runs on, and
the LPSPI and LPUART devices added to QEMU so that it runs without a board
(`qemu/hw/`). TLC checks the models on small instances. TLAPS proves every safety
property for all values of the constants. `PROJECT.json` lists the runs, the
source lines behind each definition, the hazards, the mutants and the theorems.

## The system

The demo has three tasks. `ReadSpeedTask` asks the motor sensor for a speed over
SPI, stores it in `g_last_speed` and prints it. `CheckSpeedTask` compares it with
the threshold and prints a verdict. `TaskCodeC` prints whenever the 10 s
auto-reload timer fires. The kernel adds the timer daemon and the idle task.

| Source | What it does | Module |
|---|---|---|
| `Demo_FreeRTOS/src/main.c`, `Lpuart_Uart_Ip.c` | tasks, `print()`, timer callback, `SyncSend` | SpeedDemo, Handoff |
| FreeRTOS `queue.c`, `tasks.c` as the demo uses them | semaphores, mutexes, scheduling, inheritance | Kernel |
| FreeRTOS `tasks.c`, `list.c` | tick count, delayed lists, suspension, timeouts | TickTime |
| FreeRTOS `queue.c` | queues with data, event lists, locks, calls from interrupts | Queue, Fifo |
| FreeRTOS `timers.c` | daemon, timer lists, commands | Timers |
| `Lpspi_Ip.c` | `Lpspi_Ip_Init`, `Lpspi_Ip_SyncTransmit` | LpspiSync |
| `nxps32k358_lpspi.c` | registers, FIFOs, interrupt line, chip select | Lpspi |
| `nxps32k358_lpuart.c`, `chardev/char-mux.c`, `char-io.c`, `char-fd.c` | receive path from the terminal | Lpuart |

What makes it hard: two tasks of equal priority share a variable without a lock;
all results of gives, sends and transfers are ignored; one UART is shared
character by character; the timer daemon is less urgent than the tasks it serves;
the tick count wraps and ticks are pended; interrupts work on a queue between any
two critical sections of a task; the SPI driver counts FIFO slots by hand on a
device that acts only inside register accesses; and QEMU's main loop asks whether
a character may be delivered in one step and delivers it in another.

## Modules

**Kernel** is the part of FreeRTOS the demo uses. Each operator is one critical
section, or one section under a suspended scheduler, of the function it is named
after: `TakeAvailable` and `TakeBlocks` are the two halves of
`xQueueSemaphoreTake`, between which other tasks run. Ready tasks of equal
priority are picked in any order, which covers the round robin of the ready list.
A delay ends on some later tick.

**SpeedDemo** puts the tasks of `main.c` and the daemon of `timers.c` on the
kernel. `pc` is the statement a task is at and `stage` the place inside a kernel
call or `print()`. Only `pxCurrentTCB` takes steps. `SendEnter` and `SendLeave` are
the two parts of `Lpuart_Uart_Ip_SyncSend` around the busy flag; a character met
with BUSY is lost, because `UART_send_byte` ignores the status. The emulated UART
sets TDRE in the very write of DATA, and the timeout of 100 counts turns of the
polling loops, so that it cannot strike on one character and is left out. `due`
counts timer periods that have elapsed and are unprocessed. `wire` and
`unchecked` are history variables.

**Handoff** is the abstract specification of the two speed tasks: publish a
reading, judge it, in strict alternation.

**TickTime** is time in the kernel. A delayed list is the set of its tasks with
their item values; the two lists change places when the count wraps. `Wrap` stands
for 2^32. Which ready task runs is left open, except that a task which suspended
the scheduler is the one that runs. Absolute time (`era`, `due`, `release`,
`deadline`) is history: the code never reads it, the properties compare with it.
`xTaskDelayUntil` and `xTaskCheckForTimeOut` carry a premise of the code itself
(`Punctual`, `Prompt`): the caller returns to them within one wrap of the count.

**Queue** is a queue with data. Each call is a path through the critical sections
of `xQueueGenericSend`, `xQueueReceive` or `xQueuePeek`, including the lock, the
test and the placement on an event list as separate steps. The interrupt handler
may act between any two of them. Tasks have no priorities: any ready task may run
and any waiting task may be the head of an event list, which covers every choice
of priorities. **Fifo** is what it implements, a bounded sequence.

**Timers** is the timer service. The daemon's steps are the critical sections and
calls of `prvTimerTask`; ticks, commands and interrupts come between any two of
them, also while it is inside a callback. True time is kept relative to the
present tick, so that no bound on time is needed. `Punctual` is what the
design of `timers.c` rests on: while a timer is active the daemon reads the tick
count at least once per round, and a command is handled within a round.

**Lpspi** is the SPI controller. The state is the record `s`; the helpers keep
the names of the C functions and map a state to a changed state, or to a set of
states when the slave answers. Each register access of
`nxps32k358_lpspi_read` and `nxps32k358_lpspi_write` is one action, the trailing
status and interrupt update included. FIFOs are sequences of bytes. The byte order
bit and the clock configuration are left out, and the guest keeps to chip select 0,
active low, as its driver does.

**LpspiSync** composes `Lpspi_Ip_SyncTransmit` with that device, taken in by
`INSTANCE Lpspi WITH s <- dev`. One step is one register access or one exclusive
area. The bytes of a transfer carry the caller, the transfer and their position,
so that a stale or misplaced answer shows. It follows the build in
`Demo_FreeRTOS/DEBUG_QEMU`: the macro `ERR_IPV_LPSPIV2_0001` is on without its
second solution, and the timeout counter is `OSIF_COUNTER_DUMMY`, one tick per
turn of the loop. TCR bit positions differ between driver and device:
`TransferCommand` is the driver's command read with the device's bits.

**Lpuart** is the UART device with the path of a typed character: the poll of the
main loop (`Poll`), the delivery (`fd_chr_read`), the ring of the multiplexer, the
device. Characters are numbered in the order they are typed.

The modules whose names begin with `MC` instantiate these for TLC. Those whose
names end in `Proofs`, and **QueueControl**, hold the theorems.

## Runs

| Run | Bounds | States | Shows |
|---|---|---|---|
| `speed_safety` | priorities of `FreeRTOSConfig.h` (5 levels, daemon 2), strings of 1–2 characters, 2 periods overdue | 41,892 | no dropped give, no missed preemption, verdict on the stored speed, refinement of Handoff with its liveness, an elapsed period is followed by a report |
| `speed_contended` | daemon at priority 3, 1 period overdue | 65,990 | with real contention for the mutex: bounded inversion, no lost character, strings whole |
| `tick_time` | 2 tasks, count wraps at 4, 6 tick interrupts | 656,319 | no lost tick, no oversleeping, wake-ups and timeouts at their tick |
| `queue_fifo` | 1 task and an interrupt handler, 2 items, lengths 1–3 | 64,288 | the ring implements a bounded sequence |
| `queue_live` | 2 tasks and a handler, 1 item, lengths 1–2 | 333,558 | nobody sleeps on an item or a free place |
| `timers` | 2 timers, count wraps at 3, command queue of 1 | 1,626,185 | lists tell the true time, no early callback, no sleep past an expiry, active timers are listed, freed ones are not |
| `lpspi_safety` | FIFOs of 5 bytes, 8- and 32-bit frames, watermark 1, TDF or RDF enabled with flags that raise no interrupt | 176,832 | FIFOs bounded, no lost answer, flags miss no event and outlive one only across the watermark, no lost interrupt and a spurious one only after a read, chip select never taken from a frame sequence |
| `spi_sync` | 2 tasks, 1, 5 or 13 frames of 8, 16 or 32 bits, timeouts of 1 and 2 turns, FIFO of 4 words | 26,521 | answers in order, nothing waits in the TX FIFO, timeout only when it is a single turn, one transfer at a time |
| `lpuart_input` | ring of 2, 4 characters | 58,686 | no overrun, typed order, no lost interrupt, all input arrives unless the guest strands it |

Bounds. Two characters distinguish the first and the last of a string; two overdue
periods make the callback loop repeat; a speed on each side of the threshold
covers the branch. At the configured priorities the UART mutex is never
contended, since the turn separates the speed tasks and the daemon that wakes
`TaskCodeC` runs only when neither is ready. The properties of the mutex are
therefore checked with the daemon raised to the priority of the speed tasks. A
wrap at 4 within 6 ticks gives delays that stay below, meet and cross the wrap. A
FIFO of 5 bytes holds one 32-bit frame and part of a second. 13 frames make the
driver refill the FIFO after the command's slot has been given back. A ring of 2
fills, wraps and drains with 4 characters. The proofs below remove the bounds for
all safety properties.

`tick_time` switches the deadlock check off because the model stops at `Horizon`;
its `VIEW` leaves out item values and due times of tasks that are in no list,
which nothing reads before they are assigned. Tasks, timers and items are
interchangeable where a configuration declares symmetry, and no run with
symmetry checks liveness.

Each property of a passing run has a mutant in `PROJECT.json`: a plausible fault
of the code that makes TLC find the property violated.

### Disagreements between code and documentation

Three runs end in a violation. Each states what a document or comment says.

- `lpspi_framesize`: the 8-bit count of bytes per frame is zero for frames of
  2041–2048 and 4089–4096 bits, sizes documented as supported, and is divided by.
- `spi_select`: the driver's "Clear CS" does not clear the chip select, because
  driver and device place CONT and CONTC at different bits. Aligned bits would not
  be enough: a write of TCR that finds the TX FIFO empty starts no exchange, and
  only the end of one releases the line. The motor sensor ignores the line, so
  that the demo does not notice.
- `lpuart_read`: behind the multiplexer a read of DATA can return the next
  character instead of the announced one.

Smaller differences met while modelling are in the models as the code has them.
In the LPSPI device:

- A frame held back by a full RX FIFO is not resumed by a read of RDR.
- RDF wants four bytes whatever the frame size.
- TDF stays set when the TX FIFO rises above its watermark and RDF when the RX FIFO
  falls to its own, until the guest clears them: `lpspi_update_status` looks at a
  flag on one side of the watermark only. `FlagsTell` allows just that.
- The interrupt line may stay high after a read of RDR, until the next write.
- TCF, TEF and REF never raise the line, although they can be enabled and the head
  of the file lists them under "Full interrupt support".
- Clearing CONT or MEN, or emptying the TX FIFO through RTF, releases nothing: the
  chip select, busy and MBF stay until the next frame or a reset.
- PCS is not compared with the chip select lines there are.

In the LPUART device:

- A write of STAT and the reset through GLOBAL clear RDRF without asking the back
  end for more: characters in the ring are stranded until the next key or a read of
  DATA. `InputArrives` says that nothing else strands them.
- A write of STAT sets TDRE and does not compute the interrupt line.

## Fairness

- SpeedDemo: strong fairness of each task's steps and weak fairness of the ticks
  that end a delay or complete a timer period. A task that gets the processor again
  and again does execute, since a tick period is long compared with a critical
  section; the tick timer is periodic hardware. `ExpiryReported` has the premise
  that the speed tasks are both asleep infinitely often, because the daemon is less
  urgent than they are. The code meets it as long as a turn takes less than the
  one-second period of the tasks.
- Queue: weak fairness of each task's own steps. A task that stays able to run is
  scheduled; interrupts and timeouts are not assumed to happen.
- Lpuart: weak fairness of the main loop's poll and delivery, which QEMU repeats
  for ever, and of the guest's read of DATA while RDRF announces a character
  (`ReadAnnounced`), which is what `Lpuart_Uart_Ip_StartGetData` polls for. This
  assumes a guest that keeps receiving: the demo firmware only transmits, so
  `InputArrives` is about the device under a guest that uses the driver's
  `Lpuart_Uart_Ip_SyncReceive`. No other read of DATA is assumed.
- Handoff, the abstract specification: weak fairness of both of its steps.

## Proofs

Every invariant and safety action property that a run checks is proved. Each proof
has the same shape: an inductive invariant, a lemma that the initial states satisfy
it, a lemma per action that a step keeps it, then the properties. The invariants
were model-checked before they were proved.

**SpeedDemoProofs**, for all speeds, thresholds, string lengths and backlogs and
all priorities with `configTIMER_TASK_PRIORITY + 2 <= configMAX_PRIORITIES`. The
properties are not inductive alone. `IInv` adds where waiting tasks are and
that their semaphore is empty (`WaitInv`), where delayed tasks are (`DelayInv`),
that the holder of the mutex is exactly the task inside `print()` and is ready
(`MutexInv`), that a raised priority is the one of `TaskCodeC` and belongs to the
holder (`PriorityInv`), and the link between turn and unchecked reading
(`ReadingInv`). `RunsHighest` is part of it: that no expiry is dropped rests on the
daemon running only when `TaskCodeC` waits for `zSemaphore`. The refinement of
Handoff follows from the invariant, step by step.

**TickTimeProofs**, for every set of tasks, every width of the tick count and any
number of ticks. `ListInv` places the item values of both lists in absolute time
and below or above the tick count; `SuspensionInv` says who may be where while the
scheduler is suspended; `PeriodInv` and `CallInv` tie the modular times a task has
stored to absolute ones, up to whole wraps. The exactness of the modular
comparisons then is arithmetic under `Punctual` and `Prompt`.

**QueueControl** and **QueueProofs**, for every finite set of tasks, every length
and set of items. The heart is that a task about to sleep is never overlooked:
`OwnerInv` ties the locks to the one task that holds them, and `PlaceInv` says that
whatever an interrupt did between the task's test and its sleep is counted by a
lock. `NoReceiverLeft` and `NoSenderLeft` compare the number of items, or of free
places, with the number of woken tasks that will still try; they are proved by
counting.
`RingInv` relates the two positions to the count, and gives the refinement of Fifo.

**TimersProofs**, for every set of timers, width of the tick count and queue
length. `ClockInv` relates the daemon's samples to true time across the switch of
lists, `ReloadInv` the expiry in hand to the time `prvReloadTimer` catches up
with, `CommandInv` and `InHandInv` what queued commands may still do to a timer.
The key lemma, `Insertion`, is that `prvInsertTimerInActiveList` decides with
modular comparisons as true time would.

**LpspiProofs**, for every FIFO capacity, all frame sizes and watermarks and every
slave that answers a word with a word of the same length (`AnswerAssumption`).
`Good` says that the FIFOs are within capacity and that `lpspi_update_status` would
change nothing; the case that needs care is the read of RDR, which updates the
status and not the interrupt line. The action properties follow from a relation
between the states before and after an access: a flag beyond its watermark was set
before (`Kept`), and the chip select rises and falls as a frame sequence does
(`Bracketed`). Both survive the trailing update, and `FlushStep` follows them
through the exchange of a frame.

**LpspiSyncProofs**, for any set of tasks, FIFO size of at least two words, numbers
of frames and timeouts, with frames of 8, 16 or 32 bits. `Inv` follows the transfer
through the loop of `SyncTransmit` (`Flow`): the frames read are in the buffer, the
frames sent and not read are in the RX FIFO in order, and free slots, frames under
way and the slot owed for the command add up to the FIFO size. Hence there is room
for every answer, the device exchanges each word inside the write of TDR, and FSR
counts the frames exactly. `Progress` says why every turn of the loop sends or
receives, so that the count of elapsed ticks is reset in each. The first part of
the module proves what the driver's register accesses do to the device; the second
that joining and cutting sequences of frames is sound; the third has the steps.

**LpuartProofs**, for every size of the ring and any number of characters. The
invariant says that a poll that found room is still right when the character is
delivered, whatever the guest did in between, and that the ring holds the
characters in order around its modular positions. `GuestStrands` is the safety part
of `InputArrives`: only the guest's writes of STAT and resets strand characters.

Only model-checked are the liveness properties `ImplementsFairHandoff`,
`ExpiryReported`, `NobodySleepsOn` and the liveness part of `InputArrives`: TLAPS
does not reason about fairness and ENABLED.

## Not modelled

- Asynchronous, DMA, half-duplex and slave SPI transfers and `Lpspi_Ip_Cancel`; the
  asynchronous part of the UART driver. The firmware calls none of them.
- The SYSCFG device, whose registers are stored and read back and affect nothing.
- The SoC and the board, which create and wire devices at start-up; clock, pin and
  interrupt-controller drivers, run once before the scheduler starts.
- The demonstration script and the prebuilt demo of the memory protection unit.
- Kernel services the demo does not use: notifications, queue sets, `xQueueReset` of
  a queue in use, task deletion and suspension, recursive mutexes.
- The rest of QEMU, seen only through the functions the devices call.
