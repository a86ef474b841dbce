-------------------------------- MODULE Lpuart -------------------------------
(***************************************************************************)
(* The LPUART device of qemu/hw/char/nxps32k358_lpuart.c with the way its   *)
(* input takes through QEMU: the main loop polls whether a character may    *)
(* be delivered, releases the lock while it waits, and delivers it in a    *)
(* later step (chardev/char-io.c, char-fd.c); between the device and the   *)
(* terminal there may be a multiplexer with a ring buffer (char-mux.c),    *)
(* u.mux.                                                                  *)
(*                                                                         *)
(* Characters are numbered in the order they are typed; 0 is a data        *)
(* register that holds none.  The record u is the device with its back     *)
(* end; helpers named after C functions take it and return it changed.     *)
(* Left out: the baud rate, handed to the back end and never looked at,    *)
(* the escape sequences and the change of focus of the multiplexer, which  *)
(* keep characters from the device altogether, and what is transmitted.    *)
(***************************************************************************)
EXTENDS Naturals, Sequences

CONSTANTS MUX_BUFFER_SIZE,
          Chars             \* characters typed, a bound

ASSUME LpuartAssumption ==
    /\ MUX_BUFFER_SIZE \in Nat \ {0}
    /\ Chars \in Nat

VARIABLES u,       \* the device and its back end
          watch,   \* the main loop may deliver a character in this iteration
          typed,   \* characters taken from the terminal
          gone     \* characters that RDRF announced and no longer does, a history

vars == <<u, watch, typed, gone>>

StatFlags == {"TDRE", "TC", "RDRF"}
CtrlFlags == {"RE", "TIE", "TCIE", "RIE"}

-----------------------------------------------------------------------------
(* The device.                                                             *)

\* Status and control bits share their positions: 23, 22 and 21.
Enabled(sr, cr) ==
    \/ "TDRE" \in sr /\ "TIE" \in cr
    \/ "TC" \in sr /\ "TCIE" \in cr
    \/ "RDRF" \in sr /\ "RIE" \in cr

lpuart_update_irq(d) == [d EXCEPT !.irq = Enabled(d.sr, d.cr)]

AlwaysReady(d) == TRUE

lpuart_can_receive(d) == "RDRF" \notin d.sr

\* d.handed and d.stored are histories.
lpuart_receive(d, ch) ==
    LET h == [d EXCEPT !.handed = Append(@, ch)]
    IN  IF "RE" \in d.cr
        THEN lpuart_update_irq([h EXCEPT !.dr = ch, !.sr = @ \cup {"RDRF"},
                                         !.stored = @ \cup {ch}])
        ELSE h

lpuart_reset(d) ==
    lpuart_update_irq([d EXCEPT !.cr = {}, !.sr = {"TDRE", "TC"}, !.dr = 0])

-----------------------------------------------------------------------------
(* The multiplexer.                                                        *)

\* The characters in the ring, oldest first.
Ring(d) == [i \in 1 .. d.prod - d.cons |->
                d.buffer[(d.cons + i - 1) % MUX_BUFFER_SIZE]]

Push(d, ch) ==
    [d EXCEPT !.buffer = [@ EXCEPT ![d.prod % MUX_BUFFER_SIZE] = ch],
              !.prod = @ + 1]

\* The loop ends after one character when the device stores it, and hands
\* over the whole ring when the receiver is off and drops them.
mux_chr_accept_input(d) ==
    IF d.prod = d.cons \/ ~lpuart_can_receive(d) THEN d
    ELSE IF "RE" \in d.cr
         THEN lpuart_receive([d EXCEPT !.cons = @ + 1], Head(Ring(d)))
         ELSE [d EXCEPT !.cons = d.prod, !.handed = @ \o Ring(d)]

mux_chr_can_read(d) ==
    \/ d.prod - d.cons < MUX_BUFFER_SIZE
    \/ lpuart_can_receive(d)

\* A character that finds the device ready overtakes the ring.
mux_chr_read_direct(d, ch) ==
    IF lpuart_can_receive(d) THEN lpuart_receive(d, ch) ELSE Push(d, ch)

mux_chr_read(d, ch) ==
    LET a == mux_chr_accept_input(d)
    IN  IF a.prod = a.cons /\ lpuart_can_receive(a)
        THEN lpuart_receive(a, ch)
        ELSE Push(a, ch)

\* Only the multiplexer delivers at once; a file descriptor just has the
\* main loop poll again.
qemu_chr_fe_accept_input(d) == IF d.mux THEN mux_chr_accept_input(d) ELSE d

qemu_chr_be_can_write(d) ==
    IF d.mux THEN mux_chr_can_read(d) ELSE lpuart_can_receive(d)

qemu_chr_be_write(d, ch) ==
    IF d.mux THEN mux_chr_read(d, ch) ELSE lpuart_receive(d, ch)

-----------------------------------------------------------------------------
Init ==
    /\ u \in [mux : BOOLEAN, cr : {{}}, sr : {{"TDRE", "TC"}}, dr : {0}, irq : {FALSE},
              buffer : [0 .. MUX_BUFFER_SIZE - 1 -> {0}],
              prod : {0}, cons : {0}, handed : {<<>>}, stored : {{}}]
    /\ watch = FALSE
    /\ typed = 0
    /\ gone = {}

\* io_watch_poll_prepare: an iteration of the main loop begins.
Poll ==
    /\ watch' = qemu_chr_be_can_write(u)
    /\ UNCHANGED <<u, typed, gone>>

\* The watch fires: max_size was set to 1 by Poll, one character is read.
fd_chr_read ==
    /\ watch
    /\ typed < Chars
    /\ typed' = typed + 1
    /\ u' = qemu_chr_be_write(u, typed')
    /\ watch' = FALSE
    /\ UNCHANGED gone

read_DATA_not_accepting(d) == lpuart_update_irq([d EXCEPT !.sr = @ \ {"RDRF"}])

read_DATA(d) ==
    lpuart_update_irq(qemu_chr_fe_accept_input([d EXCEPT !.sr = @ \ {"RDRF"}]))

Announced(d) == IF "RDRF" \in d.sr THEN {d.dr} ELSE {}

\* An access by the guest that leaves the device as e.
Access(e) ==
    /\ u' = e
    /\ gone' = gone \cup (Announced(u) \ Announced(e))
    /\ UNCHANGED <<watch, typed>>

\* The value returned is that of lpuart_dr afterwards.
ReadDATA == Access(read_DATA(u))

\* With RST set; any other value is only stored.
WriteGLOBAL == Access(lpuart_reset(u))

\* A value up to 0x3FF holds none of the flags.
write_STAT_low(d) == [d EXCEPT !.sr = {"TDRE"}]
write_STAT_high(d, flags) == [d EXCEPT !.sr = @ \cap flags]

WriteSTAT ==
    \/ Access(write_STAT_low(u))
    \/ \E flags \in SUBSET StatFlags : Access(write_STAT_high(u, flags))

write_CTRL_only(d, flags) == [d EXCEPT !.cr = flags]

write_CTRL(d, flags) == lpuart_update_irq([d EXCEPT !.cr = flags])

WriteCTRL ==
    \E flags \in SUBSET CtrlFlags : Access(write_CTRL(u, flags))

\* Values from 0xF000 on are ignored.
write_DATA(d) == lpuart_update_irq([d EXCEPT !.sr = @ \cup {"TDRE"}])

WriteDATA == Access(write_DATA(u))

Next ==
    \/ Poll \/ fd_chr_read
    \/ ReadDATA \/ WriteGLOBAL \/ WriteSTAT \/ WriteCTRL \/ WriteDATA

Spec == Init /\ [][Next]_vars

\* Lpuart_Uart_Ip_StartGetData reads DATA when it sees RDRF.
ReadAnnounced == "RDRF" \in u.sr /\ ReadDATA

\* The main loop iterates and delivers what is typed, and a guest that receives
\* takes a character that RDRF goes on announcing.  No other read of DATA is
\* assumed to happen, and whatever else the guest does it may do forever.
FairSpec == Spec /\ WF_vars(Poll) /\ WF_vars(fd_chr_read) /\ WF_vars(ReadAnnounced)

-----------------------------------------------------------------------------
\* lpuart_receive never replaces a character that RDRF still announces,
\* although the main loop asks lpuart_can_receive in one step and delivers
\* in another: each stored character is announced now, or was until an
\* access of the guest.  Nor does the multiplexer store more characters than
\* its ring has places.
NoCharacterOverrun ==
    /\ u.stored = gone \cup Announced(u)
    /\ u.prod - u.cons \in 0 .. MUX_BUFFER_SIZE

\* Characters reach lpuart_receive in the order they were typed and each
\* once, whether they pass through the ring of the multiplexer or not; the
\* ring, with a poll that may be stale, is never overwritten.
TypedOrder == u.handed \o Ring(u) = [i \in 1 .. typed |-> i]

\* A received character whose interrupt is enabled keeps the line asserted:
\* every register write that leaves RDRF and RIE set leaves irq set.
NoLostReceiveInterrupt == "RDRF" \in u.sr /\ "RIE" \in u.cr => u.irq

\* A read of DATA returns the character that RDRF announced.
ReadReturnsHeld == [][ReadDATA /\ "RDRF" \in u.sr => u'.dr = u.dr]_vars

\* Characters wait in the ring and the device would take one, but nothing tells
\* the guest: RDRF is clear.  The next character typed or a read of DATA, which
\* the guest has no reason for, gets them going again.
Stranded(d) == d.prod # d.cons /\ lpuart_can_receive(d)

\* Only an access that clears RDRF without qemu_chr_fe_accept_input, a write of
\* STAT or the reset through GLOBAL, strands characters: a read of DATA, a
\* delivery and a switch of the receiver never do.
OnlyGuestStrands ==
    [][~Stranded(u) /\ Stranded(u') => WriteSTAT \/ WriteGLOBAL]_vars

\* For a guest that reads what RDRF announces every typed character is handed to
\* the device, and none stays announced, the poll of the main loop being stale or
\* not; unless the guest itself stranded the rest of the input in the ring.
InputArrives ==
    /\ OnlyGuestStrands
    /\ <>[](Len(u.handed) = Chars /\ u.stored = gone) \/ <>[]Stranded(u)
=============================================================================
