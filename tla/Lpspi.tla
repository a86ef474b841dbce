-------------------------------- MODULE Lpspi --------------------------------
(***************************************************************************)
(* The LPSPI controller of qemu/hw/ssi/nxps32k358_lpspi.c, a device that    *)
(* acts only inside a register access.  Its state is the record s; as in   *)
(* the C code the helpers take the state and return it changed.  A helper  *)
(* that exchanges a word with the SPI slave returns the set of results,    *)
(* one for each answer of the slave.                                       *)
(*                                                                         *)
(* A FIFO is a sequence of bytes.  Left out, because no property tells      *)
(* them apart: the byte order bit LSBF, which permutes the bytes of a      *)
(* frame, the clock configuration, which is only logged, and the registers *)
(* that are stored and never looked at.  The guest uses the one chip       *)
(* select the SoC creates, active low, as its driver does (PCS and PCSPOL  *)
(* 0; the code tests neither against the lines there are); cs says that    *)
(* the line is asserted.                                                   *)
(***************************************************************************)
EXTENDS Naturals, Sequences

CONSTANTS LPSPI_FIFO_BYTE_CAPACITY,
          Byte,
          Answer(_),   \* the words the SPI slave may return to a word
          FrameSize,   \* frame sizes, in bits, the guest uses
          Watermark,   \* watermarks the guest uses
          SrWrite,     \* sets of flags the guest clears in SR
          IerWrite     \* sets of flags the guest enables in IER

Flags == {"TDF", "RDF", "TCF", "TEF", "REF", "MBF"}

ASSUME LpspiAssumption ==
    /\ LPSPI_FIFO_BYTE_CAPACITY \in Nat \ {0}
    /\ FrameSize \subseteq 1 .. 4096
    /\ Watermark \subseteq 0 .. 3
    /\ IerWrite \subseteq SUBSET Flags

\* The slave answers with words of the length it is sent.
ASSUME AnswerAssumption ==
    \A n \in 0 .. 4 : \A word \in [1 .. n -> Byte] : Answer(word) \subseteq [1 .. n -> Byte]

VARIABLE s

\* Bytes a frame takes in a FIFO: an uint8_t, cut to 32-bit words.
BytesPerFrame(tcr) ==
    LET b == ((tcr.framesz + 7) \div 8) % 256
    IN  IF b > 4 THEN 4 ELSE b

Free(fifo) == LPSPI_FIFO_BYTE_CAPACITY - Len(fifo)

\* Whole frames in a FIFO.  The code divides by zero when BytesPerFrame is 0;
\* FrameSizeUsable says when that is.
Words(d, fifo) ==
    IF BytesPerFrame(d.tcr) = 0 THEN 0 ELSE Len(fifo) \div BytesPerFrame(d.tcr)

SetFlag(sr, f, on) == IF on THEN sr \cup {f} ELSE sr \ {f}

lpspi_update_status(d) ==
    LET tx == Words(d, d.tx_fifo)
        rx == Words(d, d.rx_fifo)
        tdf == IF tx <= d.tx_watermark
               THEN SetFlag(d.sr, "TDF", Free(d.tx_fifo) >= 4) ELSE d.sr
        rdf == IF rx > d.rx_watermark
               THEN SetFlag(tdf, "RDF", Len(d.rx_fifo) >= 4) ELSE tdf
    IN  [d EXCEPT !.fsr = [tx |-> tx, rx |-> rx], !.sr = rdf,
                  !.rxempty = (rx = 0)]

\* Condition of the interrupt line: of the flags of SR it looks at two.
Pending(d) == d.sr \cap d.ier \cap {"TDF", "RDF"} # {}

lpspi_update_irq(d) ==
    LET e == lpspi_update_status(d) IN [e EXCEPT !.irq = Pending(e)]

-----------------------------------------------------------------------------
(* One frame on the bus. *)

\* The part of lpspi_flush_txfifo up to the answer rx of the slave.
Exchange(d, rx) ==
    LET b == BytesPerFrame(d.tcr)
        opens == ~d.busy \/ ~d.tcr.cont
        fits == Len(d.rx_fifo) + b <= LPSPI_FIFO_BYTE_CAPACITY
        sr == IF opens THEN d.sr \cup {"MBF"} ELSE d.sr
    IN  [d EXCEPT
           !.tx_fifo = SubSeq(@, b + 1, Len(@)),
           !.rx_fifo = IF d.tcr.rxmsk THEN @
                       ELSE SubSeq(@ \o rx, 1, IF fits THEN Len(@) + b
                                               ELSE LPSPI_FIFO_BYTE_CAPACITY),
           !.sr = IF d.tcr.rxmsk \/ fits THEN sr ELSE sr \cup {"REF"},
           !.cs = IF opens THEN TRUE ELSE @,
           !.busy = TRUE]

\* Mutated: the chip select is released although frames are waiting.
CompleteEach(d) ==
    IF d.tcr.cont THEN d
    ELSE [d EXCEPT !.sr = (@ \ {"MBF"}) \cup {"TCF"}, !.cs = FALSE, !.busy = FALSE]

\* Its end: TX FIFO empty, the frame sequence is complete.
Complete(d) ==
    IF d.tx_fifo # <<>> THEN d
    ELSE IF d.tcr.cont THEN [d EXCEPT !.sr = @ \cup {"TCF"}]
    ELSE [d EXCEPT !.sr = (@ \ {"MBF"}) \cup {"TCF"}, !.cs = FALSE, !.busy = FALSE]

\* Mutated: a frame is exchanged whether or not there is room for the answer.
FrameReady(d) == Len(d.tx_fifo) >= BytesPerFrame(d.tcr)

\* Whether lpspi_flush_txfifo goes on to exchange a frame.
CanExchange(d) ==
    /\ Len(d.tx_fifo) >= BytesPerFrame(d.tcr)
    /\ d.tcr.rxmsk \/ Free(d.rx_fifo) >= BytesPerFrame(d.tcr)

lpspi_flush_txfifo(d) ==
    LET word == SubSeq(d.tx_fifo, 1, BytesPerFrame(d.tcr))
    IN  IF CanExchange(d)
        THEN {lpspi_update_irq(Complete(lpspi_update_status(Exchange(d, rx)))) :
                  rx \in IF d.loopback THEN {word} ELSE Answer(word)}
        ELSE {d}

-----------------------------------------------------------------------------
(* Register accesses. *)

nxps32k358_lpspi_do_reset == lpspi_update_irq(
    [men |-> FALSE, sr |-> {"TDF", "TCF"}, ier |-> {},
     tcr |-> [framesz |-> 32, cont |-> FALSE, rxmsk |-> FALSE], loopback |-> FALSE,
     tx_watermark |-> 0, rx_watermark |-> 0, tx_fifo |-> <<>>, rx_fifo |-> <<>>,
     fsr |-> [tx |-> 0, rx |-> 0], rxempty |-> TRUE, busy |-> FALSE, cs |-> FALSE,
     irq |-> FALSE])

write_CR(d, men, rtf, rrf) == lpspi_update_irq(
    [d EXCEPT !.tx_fifo = IF rtf THEN <<>> ELSE @,
              !.sr = IF rtf THEN @ \cup {"TDF"} ELSE @,
              !.rx_fifo = IF rrf THEN <<>> ELSE @,
              !.rxempty = IF rrf THEN TRUE ELSE @,
              !.men = men])

write_SR(d, flags) == lpspi_update_irq([d EXCEPT !.sr = @ \ flags])

write_TCR(d, tcr) ==
    LET e == [d EXCEPT !.tcr = tcr]
    IN  {lpspi_update_irq(f) :
             f \in IF d.men /\ d.tx_fifo # <<>> THEN lpspi_flush_txfifo(e) ELSE {e}}

write_TDR(d, word) ==
    IF ~d.men THEN {lpspi_update_irq(d)}
    ELSE IF Free(d.tx_fifo) < BytesPerFrame(d.tcr)
    THEN {lpspi_update_irq([d EXCEPT !.sr = @ \cup {"TEF"}])}
    ELSE {lpspi_update_irq(f) :
              f \in lpspi_flush_txfifo([d EXCEPT !.tx_fifo = @ \o word])}

\* Mutated: the interrupt line is not looked at after a change of the mask.
write_IER_only(d, ier) == [d EXCEPT !.ier = ier]

write_IER(d, ier) == lpspi_update_irq([d EXCEPT !.ier = ier])

write_CFGR1(d, loopback) == lpspi_update_irq([d EXCEPT !.loopback = loopback])

write_FCR(d, tx, rx) ==
    lpspi_update_irq([d EXCEPT !.tx_watermark = tx, !.rx_watermark = rx])

\* Reads of RDR take a frame, or what there is of it; the word is first.
FrontLen(d) ==
    IF Len(d.rx_fifo) < BytesPerFrame(d.tcr) THEN Len(d.rx_fifo)
    ELSE BytesPerFrame(d.tcr)

RDR(d) == SubSeq(d.rx_fifo, 1, FrontLen(d))

\* Mutated: the status is not brought up to date after the read.
read_RDR_only(d) ==
    [lpspi_update_status(d) EXCEPT !.rx_fifo = SubSeq(@, FrontLen(d) + 1, Len(@))]

read_RDR(d) ==
    lpspi_update_status([lpspi_update_status(d) EXCEPT
                             !.rx_fifo = SubSeq(@, FrontLen(d) + 1, Len(@))])

-----------------------------------------------------------------------------
(* The device under a guest that accesses its registers in any order. *)

Init == s = nxps32k358_lpspi_do_reset

Reset == s' = nxps32k358_lpspi_do_reset

WriteCR == \E men, rtf, rrf \in BOOLEAN : s' = write_CR(s, men, rtf, rrf)

WriteSR == \E flags \in SrWrite : s' = write_SR(s, flags)

WriteTCR ==
    \E framesz \in FrameSize, cont, rxmsk \in BOOLEAN :
        s' \in write_TCR(s, [framesz |-> framesz, cont |-> cont, rxmsk |-> rxmsk])

WriteTDR ==
    \E word \in [1 .. BytesPerFrame(s.tcr) -> Byte] : s' \in write_TDR(s, word)

WriteIER == \E ier \in IerWrite : s' = write_IER(s, ier)

WriteCFGR1 == \E loopback \in BOOLEAN : s' = write_CFGR1(s, loopback)

WriteFCR == \E tx, rx \in Watermark : s' = write_FCR(s, tx, rx)

\* A write of DER, CFGR0, CCR or CCR1.
WriteOther == s' = lpspi_update_irq(s)

ReadRDR == s' = read_RDR(s)

\* A read of any other register.
ReadOther == s' = lpspi_update_status(s)

Next ==
    \/ Reset
    \/ WriteCR
    \/ WriteSR
    \/ WriteTCR
    \/ WriteTDR
    \/ WriteIER
    \/ WriteCFGR1
    \/ WriteFCR
    \/ WriteOther
    \/ ReadRDR
    \/ ReadOther

Spec == Init /\ [][Next]_s

-----------------------------------------------------------------------------
(* Properties. *)

\* No answer is lost: lpspi_flush_txfifo makes sure of the room for an answer
\* before it exchanges the frame, so that REF is never set.  Nor is a FIFO
\* pushed beyond its capacity, where fifo8_push aborts the emulator.
NoOverrun ==
    /\ "REF" \notin s.sr
    /\ Len(s.tx_fifo) <= LPSPI_FIFO_BYTE_CAPACITY
    /\ Len(s.rx_fifo) <= LPSPI_FIFO_BYTE_CAPACITY

\* What TDF and RDF announce: the TX FIFO is down to its watermark and takes a
\* word, the RX FIFO is above its watermark and holds one.
WantsData(d) == Words(d, d.tx_fifo) <= d.tx_watermark /\ Free(d.tx_fifo) >= 4
HasData(d) == Words(d, d.rx_fifo) > d.rx_watermark /\ Len(d.rx_fifo) >= 4

\* What the guest sees of the FIFOs.  After every access FSR and RSR are those of
\* the present FIFOs and frame size, and TDF and RDF are set when their condition
\* holds, also right after the guest cleared them in SR: no event is missed.  A
\* flag that is set without its condition was set before, and has outlived it
\* because the FIFO crossed the watermark, where lpspi_update_status no longer
\* looks at the flag.
FlagsTell ==
    [][/\ s'.fsr = [tx |-> Words(s', s'.tx_fifo), rx |-> Words(s', s'.rx_fifo)]
       /\ s'.rxempty <=> Words(s', s'.rx_fifo) = 0
       /\ WantsData(s') => "TDF" \in s'.sr
       /\ HasData(s') => "RDF" \in s'.sr
       /\ "TDF" \in s'.sr /\ ~WantsData(s') =>
              "TDF" \in s.sr /\ Words(s', s'.tx_fifo) > s'.tx_watermark
       /\ "RDF" \in s'.sr /\ ~HasData(s') =>
              "RDF" \in s.sr /\ Words(s', s'.rx_fifo) <= s'.rx_watermark]_s

\* The interrupt line, which lpspi_update_irq sets and reads do not: no access
\* leaves it low with TDF or RDF set and enabled, the two flags it looks at, not
\* even a read of RDR; and it is high without one only if it was high before a
\* read, never after a write.
InterruptLine ==
    [][/\ Pending(s') => s'.irq
       /\ s'.irq /\ ~Pending(s') => s.irq /\ (ReadRDR \/ ReadOther)]_s

\* The chip select is never taken from a frame sequence: it falls in a reset, or
\* with the last frame of the TX FIFO when CONT is clear.  When an access leaves it
\* newly asserted there is more to come, a frame that waits or CONT.  And busy,
\* by which the next frame decides whether to assert it, agrees with the line.
SelectBracketsFrames ==
    [][/\ s'.cs <=> s'.busy
       /\ ~s.cs /\ s'.cs => s'.tcr.cont \/ s'.tx_fifo # <<>>
       /\ s.cs /\ ~s'.cs =>
              Reset \/ (~s'.tcr.cont /\ s'.tx_fifo = <<>> /\ "TCF" \in s'.sr)]_s

\* Comment of lpspi_flush_txfifo: frame sizes of 1 to 4096 bits are valid.
FrameSizeUsable == BytesPerFrame(s.tcr) > 0

=============================================================================
