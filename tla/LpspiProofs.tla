---------------------------- MODULE LpspiProofs -----------------------------
(***************************************************************************)
(* Proofs about Lpspi for every FIFO capacity, every set of bytes, frame    *)
(* sizes and watermarks, and every slave that answers a word of b bytes     *)
(* with words of b bytes.                                                  *)
(***************************************************************************)
EXTENDS Lpspi, Integers, TLAPS

Fields == {"men", "sr", "ier", "tcr", "loopback", "tx_watermark", "rx_watermark", "tx_fifo",
           "rx_fifo", "fsr", "rxempty", "busy", "cs", "irq"}

Record(d) == d = [f \in Fields |-> d[f]]

With(d, f, v) == [d EXCEPT ![f] = v]

\* A state of the device: a record of these fields, the ones the device
\* computes with of their types.
Device(d) ==
    /\ Record(d)
    /\ d.tcr.framesz \in Nat
    /\ d.tx_fifo \in Seq(Byte) /\ d.rx_fifo \in Seq(Byte)
    /\ d.tx_watermark \in Nat /\ d.rx_watermark \in Nat

\* The FIFOs hold what they can, no answer was lost, and the chip select line
\* and MBF follow the frame sequence.
Safe(d) ==
    /\ Len(d.tx_fifo) <= LPSPI_FIFO_BYTE_CAPACITY /\ Len(d.rx_fifo) <= LPSPI_FIFO_BYTE_CAPACITY
    /\ "REF" \notin d.sr
    /\ d.cs <=> d.busy
    /\ "MBF" \in d.sr => d.busy

\* The flags are those of the FIFOs, and the interrupt line shows them.
Fresh(d) ==
    /\ lpspi_update_status(d) = d
    /\ ~d.irq => ~Pending(d)

Good(d) == Device(d) /\ Safe(d) /\ Fresh(d)

\* The capacity is a number.
LEMMA Capacity == LPSPI_FIFO_BYTE_CAPACITY \in Nat
BY LpspiAssumption

\* A frame takes at most four bytes.
LEMMA FrameBytes ==
    ASSUME NEW tcr, tcr.framesz \in Nat
    PROVE  BytesPerFrame(tcr) \in 0 .. 4
<1>1. PICK n \in Nat : n = tcr.framesz
  OBVIOUS
<1>2. PICK b \in Nat : b = (n + 7) \div 8
  OBVIOUS
<1>3. PICK c \in Nat : c = b % 256
  OBVIOUS
<1> QED BY <1>1, <1>2, <1>3 DEF BytesPerFrame

\* What is left of a FIFO when n bytes were taken.
LEMMA Rest ==
    ASSUME NEW q \in Seq(Byte), NEW n \in Nat, n <= Len(q)
    PROVE  /\ SubSeq(q, n + 1, Len(q)) \in Seq(Byte)
           /\ Len(SubSeq(q, n + 1, Len(q))) \in Nat
           /\ Len(SubSeq(q, n + 1, Len(q))) <= Len(q)
<1>1. Len(q) \in Nat
  OBVIOUS
<1>2. SubSeq(q, n + 1, Len(q)) \in Seq(Byte) /\ Len(SubSeq(q, n + 1, Len(q))) = Len(q) - n
  BY <1>1
<1> QED BY <1>1, <1>2

\* The whole frames in a FIFO are a number.
LEMMA WordCount ==
    ASSUME NEW d, Device(d)
    PROVE  Words(d, d.tx_fifo) \in Nat /\ Words(d, d.rx_fifo) \in Nat
<1>1. BytesPerFrame(d.tcr) \in 0 .. 4
  BY FrameBytes, Zenon DEF Device
<1>2. Len(d.tx_fifo) \in Nat /\ Len(d.rx_fifo) \in Nat
  <2>1. d.tx_fifo \in Seq(Byte) /\ d.rx_fifo \in Seq(Byte)
    BY Zenon DEF Device
  <2> QED BY <2>1
<1>3. \A n \in Nat, b \in 1 .. 4 : n \div b \in Nat
  OBVIOUS
<1> QED BY <1>1, <1>2, <1>3 DEF Words

\* A field is assigned.
LEMMA Assigned ==
    \A d, v : \A g \in Fields :
        Record(d) => /\ Record(With(d, g, v))
                     /\ With(d, g, v)[g] = v
                     /\ \A f \in Fields \ {g} : With(d, g, v)[f] = d[f]
<1> SUFFICES ASSUME NEW d, NEW v, NEW g \in Fields, Record(d)
             PROVE  /\ Record(With(d, g, v))
                    /\ With(d, g, v)[g] = v
                    /\ \A f \in Fields \ {g} : With(d, g, v)[f] = d[f]
  BY Zenon
<1>1. DOMAIN d = Fields
  BY Zenon DEF Record
<1> QED BY <1>1, Zenon DEF Record, With

\* A record is told by its fields.
LEMMA Told ==
    ASSUME NEW d, Record(d), NEW e, Record(e),
           \A f \in Fields : e[f] = d[f]
    PROVE  e = d
BY Zenon DEF Record

\* The flags after lpspi_update_status.
LEMMA StatusFlags ==
    ASSUME NEW d, Device(d), NEW sr, NEW tdf,
           tdf = (IF Words(d, d.tx_fifo) <= d.tx_watermark
                  THEN SetFlag(d.sr, "TDF", Free(d.tx_fifo) >= 4) ELSE d.sr),
           sr = IF Words(d, d.rx_fifo) > d.rx_watermark
                THEN SetFlag(tdf, "RDF", Len(d.rx_fifo) >= 4) ELSE tdf
    PROVE  /\ \A f : f \notin {"TDF", "RDF"} => (f \in sr <=> f \in d.sr)
           /\ Words(d, d.tx_fifo) <= d.tx_watermark => ("TDF" \in sr <=> Free(d.tx_fifo) >= 4)
           /\ Words(d, d.rx_fifo) > d.rx_watermark => ("RDF" \in sr <=> Len(d.rx_fifo) >= 4)
           /\ ~ (Words(d, d.tx_fifo) <= d.tx_watermark) => ("TDF" \in sr <=> "TDF" \in d.sr)
           /\ ~ (Words(d, d.rx_fifo) > d.rx_watermark) => ("RDF" \in sr <=> "RDF" \in d.sr)
BY Zenon DEF SetFlag

\* What lpspi_update_status changes.
LEMMA StatusFields ==
    ASSUME NEW d, Device(d), NEW e, e = lpspi_update_status(d)
    PROVE  /\ Device(e)
           /\ \A f \in Fields \ {"fsr", "sr", "rxempty"} : e[f] = d[f]
           /\ e.fsr = [tx |-> Words(d, d.tx_fifo), rx |-> Words(d, d.rx_fifo)]
           /\ e.rxempty = (Words(d, d.rx_fifo) = 0)
           /\ \A f : f \notin {"TDF", "RDF"} => (f \in e.sr <=> f \in d.sr)
           /\ Words(d, d.tx_fifo) <= d.tx_watermark => ("TDF" \in e.sr <=> Free(d.tx_fifo) >= 4)
           /\ Words(d, d.rx_fifo) > d.rx_watermark => ("RDF" \in e.sr <=> Len(d.rx_fifo) >= 4)
           /\ ~ (Words(d, d.tx_fifo) <= d.tx_watermark) => ("TDF" \in e.sr <=> "TDF" \in d.sr)
           /\ ~ (Words(d, d.rx_fifo) > d.rx_watermark) => ("RDF" \in e.sr <=> "RDF" \in d.sr)
<1> DEFINE tx == Words(d, d.tx_fifo)
           rx == Words(d, d.rx_fifo)
           tdf == IF tx <= d.tx_watermark
                  THEN SetFlag(d.sr, "TDF", Free(d.tx_fifo) >= 4) ELSE d.sr
           rdf == IF rx > d.rx_watermark
                  THEN SetFlag(tdf, "RDF", Len(d.rx_fifo) >= 4) ELSE tdf
<1>1. e = With(With(With(d, "fsr", [tx |-> tx, rx |-> rx]), "sr", rdf), "rxempty", rx = 0)
  BY Zenon DEF lpspi_update_status, With
<1>2. /\ Record(e)
      /\ \A f \in Fields \ {"fsr", "sr", "rxempty"} : e[f] = d[f]
      /\ e.fsr = [tx |-> tx, rx |-> rx] /\ e.sr = rdf /\ e.rxempty = (rx = 0)
  <2> HIDE DEF tx, rx, tdf, rdf
  <2>1. /\ "fsr" \in Fields /\ "sr" \in Fields /\ "rxempty" \in Fields /\ Record(d)
        /\ "sr" # "fsr" /\ "sr" # "rxempty" /\ "fsr" # "rxempty"
    BY Zenon DEF Fields, Device
  <2> QED BY <1>1, <2>1, Assigned
<1>3. /\ \A f : f \notin {"TDF", "RDF"} => (f \in rdf <=> f \in d.sr)
      /\ tx <= d.tx_watermark => ("TDF" \in rdf <=> Free(d.tx_fifo) >= 4)
      /\ rx > d.rx_watermark => ("RDF" \in rdf <=> Len(d.rx_fifo) >= 4)
      /\ ~ (tx <= d.tx_watermark) => ("TDF" \in rdf <=> "TDF" \in d.sr)
      /\ ~ (rx > d.rx_watermark) => ("RDF" \in rdf <=> "RDF" \in d.sr)
  BY StatusFlags, Zenon
<1>4. /\ e.tcr = d.tcr /\ e.tx_fifo = d.tx_fifo /\ e.rx_fifo = d.rx_fifo
      /\ e.tx_watermark = d.tx_watermark /\ e.rx_watermark = d.rx_watermark
  BY <1>2, Zenon DEF Fields
<1>5. Device(e)
  BY <1>2, <1>4, Zenon DEF Device
<1> QED BY <1>2, <1>3, <1>5, Zenon

\* lpspi_update_status leaves the FIFOs and their configuration, the chip
\* select line and the interrupt line and its mask alone.
LEMMA StatusLeaves ==
    ASSUME NEW d, Device(d), NEW e, e = lpspi_update_status(d)
    PROVE  /\ e.irq = d.irq /\ e.ier = d.ier
           /\ e.tcr = d.tcr /\ e.tx_fifo = d.tx_fifo /\ e.rx_fifo = d.rx_fifo /\ e.cs = d.cs
           /\ e.tx_watermark = d.tx_watermark /\ e.rx_watermark = d.rx_watermark
<1>1. /\ Device(e)
      /\ \A f \in Fields \ {"fsr", "sr", "rxempty"} : e[f] = d[f]
      /\ e.fsr = [tx |-> Words(d, d.tx_fifo), rx |-> Words(d, d.rx_fifo)]
      /\ e.rxempty = (Words(d, d.rx_fifo) = 0)
  BY StatusFields
<1> QED BY <1>1 DEF Fields

\* When lpspi_update_status finds nothing to change.
LEMMA Settled ==
    ASSUME NEW d, Device(d),
           d.fsr = [tx |-> Words(d, d.tx_fifo), rx |-> Words(d, d.rx_fifo)],
           d.rxempty = (Words(d, d.rx_fifo) = 0),
           Words(d, d.tx_fifo) <= d.tx_watermark => ("TDF" \in d.sr <=> Free(d.tx_fifo) >= 4),
           Words(d, d.rx_fifo) > d.rx_watermark => ("RDF" \in d.sr <=> Len(d.rx_fifo) >= 4)
    PROVE  lpspi_update_status(d) = d
<1>1. PICK e : e = lpspi_update_status(d)
  BY Zenon
<1>2. /\ Device(e)
      /\ \A f \in Fields \ {"fsr", "sr", "rxempty"} : e[f] = d[f]
      /\ e.fsr = d.fsr /\ e.rxempty = d.rxempty
      /\ \A f : f \in e.sr <=> f \in d.sr
  BY <1>1, StatusFields
<1>3. e.sr = d.sr
  BY <1>2, Zenon
<1>4. \A f \in Fields : e[f] = d[f]
  BY <1>2, <1>3, Zenon
<1> QED BY <1>1, <1>2, <1>4, Told, Zenon DEF Device

\* lpspi_update_irq changes only what tells of the FIFOs, and leaves it right.
LEMMA IrqFields ==
    ASSUME NEW d, Device(d), NEW e, e = lpspi_update_irq(d)
    PROVE  /\ Device(e) /\ Fresh(e)
           /\ \A f \in Fields \ {"fsr", "sr", "rxempty", "irq"} : e[f] = d[f]
           /\ \A f : f \notin {"TDF", "RDF"} => (f \in e.sr <=> f \in d.sr)
           /\ ~ (Words(d, d.tx_fifo) <= d.tx_watermark) => ("TDF" \in e.sr <=> "TDF" \in d.sr)
           /\ ~ (Words(d, d.rx_fifo) > d.rx_watermark) => ("RDF" \in e.sr <=> "RDF" \in d.sr)
           /\ e.irq <=> Pending(e)
<1>1. PICK c : c = lpspi_update_status(d)
  BY Zenon
<1>2. /\ Device(c)
      /\ \A f \in Fields \ {"fsr", "sr", "rxempty"} : c[f] = d[f]
      /\ c.fsr = [tx |-> Words(d, d.tx_fifo), rx |-> Words(d, d.rx_fifo)]
      /\ c.rxempty = (Words(d, d.rx_fifo) = 0)
      /\ \A f : f \notin {"TDF", "RDF"} => (f \in c.sr <=> f \in d.sr)
      /\ Words(d, d.tx_fifo) <= d.tx_watermark => ("TDF" \in c.sr <=> Free(d.tx_fifo) >= 4)
      /\ Words(d, d.rx_fifo) > d.rx_watermark => ("RDF" \in c.sr <=> Len(d.rx_fifo) >= 4)
      /\ ~ (Words(d, d.tx_fifo) <= d.tx_watermark) => ("TDF" \in c.sr <=> "TDF" \in d.sr)
      /\ ~ (Words(d, d.rx_fifo) > d.rx_watermark) => ("RDF" \in c.sr <=> "RDF" \in d.sr)
  BY <1>1, StatusFields
<1>3. e = With(c, "irq", Pending(c))
  BY <1>1, Zenon DEF lpspi_update_irq, With
<1>4. Record(e) /\ e.irq = Pending(c) /\ \A f \in Fields \ {"irq"} : e[f] = c[f]
  <2>1. "irq" \in Fields /\ Record(c)
    BY <1>2, Zenon DEF Fields, Device
  <2> QED BY <1>3, <2>1, Assigned
<1>5. /\ e.tcr = d.tcr /\ e.tx_fifo = d.tx_fifo /\ e.rx_fifo = d.rx_fifo
      /\ e.tx_watermark = d.tx_watermark /\ e.rx_watermark = d.rx_watermark
      /\ e.sr = c.sr /\ e.fsr = c.fsr /\ e.rxempty = c.rxempty /\ e.ier = c.ier
  BY <1>2, <1>4 DEF Fields
<1>6. Device(e)
  BY <1>4, <1>5, Zenon DEF Device
<1>7. Words(e, e.tx_fifo) = Words(d, d.tx_fifo) /\ Words(e, e.rx_fifo) = Words(d, d.rx_fifo)
  BY <1>5, Zenon DEF Words
<1>8. lpspi_update_status(e) = e
  BY <1>2, <1>5, <1>6, <1>7, Settled
<1>9. Pending(e) = Pending(c)
  BY <1>5, Zenon DEF Pending
<1> QED BY <1>2, <1>4, <1>5, <1>6, <1>8, <1>9, Zenon DEF Fresh

\* What is safe stays safe when the status is brought up to date.
LEMMA IrqKeeps ==
    ASSUME NEW d, Device(d), Safe(d)
    PROVE  Good(lpspi_update_irq(d))
<1>1. PICK e : e = lpspi_update_irq(d)
  BY Zenon
<1>2. /\ Device(e) /\ Fresh(e)
      /\ \A f \in Fields \ {"fsr", "sr", "rxempty", "irq"} : e[f] = d[f]
      /\ \A f : f \notin {"TDF", "RDF"} => (f \in e.sr <=> f \in d.sr)
  BY <1>1, IrqFields
<1>3. /\ e.tx_fifo = d.tx_fifo /\ e.rx_fifo = d.rx_fifo /\ e.cs = d.cs /\ e.busy = d.busy
      /\ "REF" \in e.sr <=> "REF" \in d.sr
      /\ "MBF" \in e.sr <=> "MBF" \in d.sr
  BY <1>2 DEF Fields
<1>4. Safe(e)
  BY <1>3, Zenon DEF Safe
<1> QED BY <1>1, <1>2, <1>4, Zenon DEF Good

LEMMA StatusKeeps ==
    ASSUME NEW d, Device(d), Safe(d)
    PROVE  /\ Device(lpspi_update_status(d)) /\ Safe(lpspi_update_status(d))
           /\ lpspi_update_status(lpspi_update_status(d)) = lpspi_update_status(d)
<1>1. PICK e : e = lpspi_update_status(d)
  BY Zenon
<1>2. /\ Device(e)
      /\ \A f \in Fields \ {"fsr", "sr", "rxempty"} : e[f] = d[f]
      /\ e.fsr = [tx |-> Words(d, d.tx_fifo), rx |-> Words(d, d.rx_fifo)]
      /\ e.rxempty = (Words(d, d.rx_fifo) = 0)
      /\ \A f : f \notin {"TDF", "RDF"} => (f \in e.sr <=> f \in d.sr)
      /\ Words(d, d.tx_fifo) <= d.tx_watermark => ("TDF" \in e.sr <=> Free(d.tx_fifo) >= 4)
      /\ Words(d, d.rx_fifo) > d.rx_watermark => ("RDF" \in e.sr <=> Len(d.rx_fifo) >= 4)
  BY <1>1, StatusFields
<1>3. /\ e.tx_fifo = d.tx_fifo /\ e.rx_fifo = d.rx_fifo /\ e.cs = d.cs /\ e.busy = d.busy
      /\ e.tcr = d.tcr /\ e.tx_watermark = d.tx_watermark /\ e.rx_watermark = d.rx_watermark
      /\ "REF" \in e.sr <=> "REF" \in d.sr
      /\ "MBF" \in e.sr <=> "MBF" \in d.sr
  BY <1>2, Zenon DEF Fields
<1>4. Safe(e)
  BY <1>3, Zenon DEF Safe
<1>5. Words(e, e.tx_fifo) = Words(d, d.tx_fifo) /\ Words(e, e.rx_fifo) = Words(d, d.rx_fifo)
  BY <1>3, Zenon DEF Words
<1>6. lpspi_update_status(e) = e
  BY <1>2, <1>3, <1>5, Settled, Zenon
<1> QED BY <1>1, <1>2, <1>4, <1>6, Zenon

\* The RX FIFO after the answer rx of b bytes, and the chip select line.
Received(d, rx, b) ==
    IF d.tcr.rxmsk THEN d.rx_fifo
    ELSE SubSeq(d.rx_fifo \o rx, 1, IF Len(d.rx_fifo) + b <= LPSPI_FIFO_BYTE_CAPACITY
                                    THEN Len(d.rx_fifo) + b ELSE LPSPI_FIFO_BYTE_CAPACITY)

Selected(d) == IF ~d.busy \/ ~d.tcr.cont THEN TRUE ELSE d.cs

\* The fields a frame does not touch.
Untouched(d, e) ==
    \A f \in Fields \ {"tx_fifo", "rx_fifo", "sr", "cs", "busy"} : e[f] = d[f]

\* What lpspi_flush_txfifo does to the fields when it exchanges a frame.
LEMMA ExchangeFields ==
    ASSUME NEW d, Record(d), NEW rx, NEW e, e = Exchange(d, rx),
           NEW b, b = BytesPerFrame(d.tcr)
    PROVE  /\ Record(e)
           /\ Untouched(d, e)
           /\ e.tx_fifo = SubSeq(d.tx_fifo, b + 1, Len(d.tx_fifo))
           /\ e.rx_fifo = Received(d, rx, b)
           /\ d.tcr.rxmsk \/ Len(d.rx_fifo) + b <= LPSPI_FIFO_BYTE_CAPACITY
                  => \A f : f # "MBF" => (f \in e.sr <=> f \in d.sr)
           /\ \A f : f \notin {"MBF", "REF"} => (f \in e.sr <=> f \in d.sr)
           /\ e.cs = Selected(d)
           /\ e.busy
<1> DEFINE opens == ~d.busy \/ ~d.tcr.cont
           fits == Len(d.rx_fifo) + b <= LPSPI_FIFO_BYTE_CAPACITY
           sr1 == IF opens THEN d.sr \cup {"MBF"} ELSE d.sr
           tx == SubSeq(d.tx_fifo, b + 1, Len(d.tx_fifo))
           in == Received(d, rx, b)
           sr == IF d.tcr.rxmsk \/ fits THEN sr1 ELSE sr1 \cup {"REF"}
           cs == Selected(d)
<1>0. /\ "tx_fifo" \in Fields /\ "rx_fifo" \in Fields /\ "sr" \in Fields /\ "cs" \in Fields
      /\ "busy" \in Fields
  BY Zenon DEF Fields
<1>1. e = With(With(With(With(With(d, "tx_fifo", tx), "rx_fifo", in), "sr", sr), "cs", cs), "busy", TRUE)
  <2>1. DOMAIN d = Fields
    BY Zenon DEF Record
  <2> QED BY <1>0, <2>1, Zenon DEF Exchange, With, Received, Selected
<1>2. /\ Record(e)
      /\ \A f \in Fields \ {"tx_fifo", "rx_fifo", "sr", "cs", "busy"} : e[f] = d[f]
      /\ e.tx_fifo = tx /\ e.rx_fifo = in /\ e.sr = sr /\ e.cs = cs /\ e.busy = TRUE
  <2> HIDE DEF tx, in, sr, cs
  <2>1. PICK c : c = With(With(d, "tx_fifo", tx), "rx_fifo", in)
    BY Zenon
  <2>2. /\ Record(c) /\ c["tx_fifo"] = tx /\ c["rx_fifo"] = in
        /\ \A f \in Fields \ {"tx_fifo", "rx_fifo"} : c[f] = d[f]
    BY <1>0, <2>1, Assigned
  <2>3. PICK c1 : c1 = With(c, "sr", sr)
    BY Zenon
  <2>4. Record(c1) /\ c1["sr"] = sr /\ \A f \in Fields \ {"sr"} : c1[f] = c[f]
    BY <1>0, <2>2, <2>3, Assigned
  <2>8. PICK c2 : c2 = With(c1, "cs", cs)
    BY Zenon
  <2>9. Record(c2) /\ c2["cs"] = cs /\ \A f \in Fields \ {"cs"} : c2[f] = c1[f]
    BY <1>0, <2>4, <2>8, Assigned
  <2>10. PICK v : v = TRUE
    BY Zenon
  <2>5. e = With(c2, "busy", v)
    BY <1>1, <2>1, <2>3, <2>8, <2>10, Zenon
  <2>6. Record(e) /\ e["busy"] = v /\ \A f \in Fields \ {"busy"} : e[f] = c2[f]
    BY <1>0, <2>9, <2>5, Assigned
  <2>7. /\ e["tx_fifo"] = tx /\ e["rx_fifo"] = in /\ e["sr"] = sr /\ e["cs"] = cs
        /\ \A f \in Fields \ {"tx_fifo", "rx_fifo", "sr", "cs", "busy"} : e[f] = d[f]
    BY <1>0, <2>2, <2>4, <2>6, <2>9
  <2> QED BY <2>6, <2>7, <2>10, Zenon
<1>3. d.tcr.rxmsk \/ fits => \A f : f # "MBF" => (f \in sr <=> f \in d.sr)
  <2> HIDE DEF fits, opens
  <2> QED BY Zenon
<1>4. \A f : f \notin {"MBF", "REF"} => (f \in sr <=> f \in d.sr)
  <2> HIDE DEF fits, opens
  <2> QED BY Zenon
<1> QED BY <1>2, <1>3, <1>4, Zenon DEF Untouched

\* A frame is exchanged only if there is room for the answer.
LEMMA ExchangeKeeps ==
    ASSUME NEW d, Device(d), Safe(d), CanExchange(d),
           NEW rx \in [1 .. BytesPerFrame(d.tcr) -> Byte]
    PROVE  Device(Exchange(d, rx)) /\ Safe(Exchange(d, rx))
<1>1. PICK e : e = Exchange(d, rx)
  BY Zenon
<1>2. PICK b \in 0 .. 4 : b = BytesPerFrame(d.tcr)
  BY FrameBytes, Zenon DEF Device
<1>3. /\ d.tx_fifo \in Seq(Byte) /\ d.rx_fifo \in Seq(Byte) /\ Record(d)
      /\ Len(d.tx_fifo) <= LPSPI_FIFO_BYTE_CAPACITY /\ Len(d.rx_fifo) <= LPSPI_FIFO_BYTE_CAPACITY
      /\ Len(d.tx_fifo) >= b
      /\ d.tcr.rxmsk \/ LPSPI_FIFO_BYTE_CAPACITY - Len(d.rx_fifo) >= b
  BY <1>2, Zenon DEF Device, Safe, CanExchange, Free
<1>4. d.tcr.rxmsk \/ Len(d.rx_fifo) + b <= LPSPI_FIFO_BYTE_CAPACITY
  <2>1. Len(d.rx_fifo) \in Nat
    BY <1>3
  <2> QED BY <1>3, <2>1, Capacity
<1>5. /\ Record(e)
      /\ \A f \in Fields \ {"tx_fifo", "rx_fifo", "sr", "cs", "busy"} : e[f] = d[f]
      /\ e.tx_fifo = SubSeq(d.tx_fifo, b + 1, Len(d.tx_fifo))
      /\ \/ e.rx_fifo = d.rx_fifo
         \/ /\ e.rx_fifo = SubSeq(d.rx_fifo \o rx, 1, Len(d.rx_fifo) + b)
            /\ Len(d.rx_fifo) + b <= LPSPI_FIFO_BYTE_CAPACITY
      /\ \A f : f # "MBF" => (f \in e.sr <=> f \in d.sr)
      /\ e.cs = Selected(d)
      /\ e.busy
  <2>1. /\ Record(e)
        /\ \A f \in Fields \ {"tx_fifo", "rx_fifo", "sr", "cs", "busy"} : e[f] = d[f]
        /\ e.tx_fifo = SubSeq(d.tx_fifo, b + 1, Len(d.tx_fifo))
        /\ e.rx_fifo = Received(d, rx, b)
        /\ e.cs = Selected(d) /\ e.busy
    <3>0. Record(d) /\ b = BytesPerFrame(d.tcr)
      BY <1>2, <1>3, Zenon
    <3>1. Record(e)
      BY <1>1, <3>0, ExchangeFields, Zenon
    <3>2. \A f \in Fields \ {"tx_fifo", "rx_fifo", "sr", "cs", "busy"} : e[f] = d[f]
      <4>1. Untouched(d, e)
        BY <1>1, <3>0, ExchangeFields, Zenon
      <4> QED BY <4>1, Zenon DEF Untouched
    <3>3. e.tx_fifo = SubSeq(d.tx_fifo, b + 1, Len(d.tx_fifo))
      BY <1>1, <3>0, ExchangeFields, Zenon
    <3>4. e.rx_fifo = Received(d, rx, b) /\ e.cs = Selected(d)
      BY <1>1, <3>0, ExchangeFields, Zenon
    <3>5. e.busy
      BY <1>1, <3>0, ExchangeFields, Zenon
    <3> QED BY <3>1, <3>2, <3>3, <3>4, <3>5, Zenon
  <2>2. \A f : f # "MBF" => (f \in e.sr <=> f \in d.sr)
    BY <1>1, <1>2, <1>3, <1>4, ExchangeFields, Zenon
  <2>3. \/ Received(d, rx, b) = d.rx_fifo
        \/ /\ Received(d, rx, b) = SubSeq(d.rx_fifo \o rx, 1, Len(d.rx_fifo) + b)
           /\ Len(d.rx_fifo) + b <= LPSPI_FIFO_BYTE_CAPACITY
    BY <1>4, Zenon DEF Received
  <2> QED BY <2>1, <2>2, <2>3, Zenon
<1>6. e.tx_fifo \in Seq(Byte) /\ Len(e.tx_fifo) <= LPSPI_FIFO_BYTE_CAPACITY
  <2>1. \A q \in Seq(Byte) : Len(q) <= LPSPI_FIFO_BYTE_CAPACITY /\ Len(q) >= b
            => /\ SubSeq(q, b + 1, Len(q)) \in Seq(Byte)
               /\ Len(SubSeq(q, b + 1, Len(q))) <= LPSPI_FIFO_BYTE_CAPACITY
    <3> SUFFICES ASSUME NEW q \in Seq(Byte), Len(q) <= LPSPI_FIFO_BYTE_CAPACITY, Len(q) >= b
                 PROVE  /\ SubSeq(q, b + 1, Len(q)) \in Seq(Byte)
                        /\ Len(SubSeq(q, b + 1, Len(q))) <= LPSPI_FIFO_BYTE_CAPACITY
      BY Zenon
    <3>1. b \in Nat /\ b <= Len(q) /\ Len(q) \in Nat
      OBVIOUS
    <3>2. PICK n \in Nat : n = Len(SubSeq(q, b + 1, Len(q))) /\ n <= Len(q)
      BY <3>1, Rest, Zenon
    <3>3. n <= LPSPI_FIFO_BYTE_CAPACITY
      BY <3>1, <3>2, Capacity
    <3> QED BY <3>1, <3>2, <3>3, Rest, Zenon
  <2> QED BY <1>3, <1>5, <2>1, Zenon
<1>7. e.rx_fifo \in Seq(Byte) /\ Len(e.rx_fifo) <= LPSPI_FIFO_BYTE_CAPACITY
  <2>1. \A q \in Seq(Byte), r \in Seq(Byte) : Len(r) = b /\ Len(q) + b <= LPSPI_FIFO_BYTE_CAPACITY
            => /\ SubSeq(q \o r, 1, Len(q) + b) \in Seq(Byte)
               /\ Len(SubSeq(q \o r, 1, Len(q) + b)) <= LPSPI_FIFO_BYTE_CAPACITY
    <3>1. \A q \in Seq(Byte), r \in Seq(Byte) : q \o r \in Seq(Byte) /\ Len(q \o r) = Len(q) + Len(r)
      OBVIOUS
    <3>2. \A q \in Seq(Byte), n \in Nat : n <= Len(q)
              => SubSeq(q, 1, n) \in Seq(Byte) /\ Len(SubSeq(q, 1, n)) = n
      OBVIOUS
    <3>3. \A q \in Seq(Byte) : Len(q) + b \in Nat
      OBVIOUS
    <3> QED BY <3>1, <3>2, <3>3
  <2>2. rx \in Seq(Byte) /\ Len(rx) = b
    BY <1>2
  <2> QED BY <1>3, <1>5, <2>1, <2>2, Zenon
<1>8. e.tcr = d.tcr /\ e.tx_watermark = d.tx_watermark /\ e.rx_watermark = d.rx_watermark
  BY <1>5, Zenon DEF Fields
<1>9. Device(e)
  BY <1>5, <1>6, <1>7, <1>8, Zenon DEF Device
<1>10. e.cs <=> e.busy
  BY <1>5, Zenon DEF Safe, Selected
<1>11. Safe(e)
  BY <1>5, <1>6, <1>7, <1>10, Zenon DEF Safe
<1> QED BY <1>1, <1>9, <1>11, Zenon

\* The end of a frame sequence.
LEMMA CompleteKeeps ==
    ASSUME NEW d, Device(d), Safe(d)
    PROVE  Device(Complete(d)) /\ Safe(Complete(d))
<1>0. "sr" \in Fields /\ "cs" \in Fields /\ "busy" \in Fields /\ Record(d) /\ DOMAIN d = Fields
  BY Zenon DEF Fields, Device, Record
<1>1. PICK e : e = Complete(d)
  BY Zenon
<1>2. CASE e = d
  BY <1>1, <1>2, Zenon
<1>3. CASE e = With(d, "sr", d.sr \cup {"TCF"})
  <2>1. Record(e) /\ e.sr = d.sr \cup {"TCF"} /\ \A f \in Fields \ {"sr"} : e[f] = d[f]
    BY <1>0, <1>3, Assigned
  <2>2. /\ e.tcr = d.tcr /\ e.tx_watermark = d.tx_watermark /\ e.rx_watermark = d.rx_watermark
        /\ e.tx_fifo = d.tx_fifo /\ e.rx_fifo = d.rx_fifo /\ e.cs = d.cs /\ e.busy = d.busy
    BY <2>1 DEF Fields
  <2>3. ("REF" \in e.sr <=> "REF" \in d.sr) /\ ("MBF" \in e.sr <=> "MBF" \in d.sr)
    BY <2>1
  <2> QED BY <1>1, <2>1, <2>2, <2>3, Zenon DEF Device, Safe
<1>4. CASE e = With(With(With(d, "sr", (d.sr \ {"MBF"}) \cup {"TCF"}), "cs", FALSE), "busy", FALSE)
  <2>1. /\ Record(e) /\ e.sr = (d.sr \ {"MBF"}) \cup {"TCF"} /\ e.cs = FALSE /\ e.busy = FALSE
        /\ \A f \in Fields \ {"sr", "cs", "busy"} : e[f] = d[f]
    <3>0. PICK v : v = FALSE
      BY Zenon
    <3>1. PICK c : c = With(With(d, "sr", (d.sr \ {"MBF"}) \cup {"TCF"}), "cs", v)
      BY Zenon
    <3>2. /\ Record(c) /\ c["sr"] = (d.sr \ {"MBF"}) \cup {"TCF"} /\ c["cs"] = v
          /\ \A f \in Fields \ {"sr", "cs"} : c[f] = d[f]
      BY <1>0, <3>1, Assigned
    <3>3. e = With(c, "busy", v)
      BY <1>4, <3>0, <3>1, Zenon
    <3>4. Record(e) /\ e["busy"] = v /\ \A f \in Fields \ {"busy"} : e[f] = c[f]
      BY <1>0, <3>2, <3>3, Assigned
    <3>5. /\ e["sr"] = (d.sr \ {"MBF"}) \cup {"TCF"} /\ e["cs"] = v
          /\ \A f \in Fields \ {"sr", "cs", "busy"} : e[f] = d[f]
      BY <1>0, <3>2, <3>4
    <3> QED BY <3>0, <3>4, <3>5, Zenon
  <2>2. /\ e.tcr = d.tcr /\ e.tx_watermark = d.tx_watermark /\ e.rx_watermark = d.rx_watermark
        /\ e.tx_fifo = d.tx_fifo /\ e.rx_fifo = d.rx_fifo
    BY <2>1 DEF Fields
  <2>3. ("REF" \in e.sr <=> "REF" \in d.sr) /\ "MBF" \notin e.sr
    BY <2>1
  <2> QED BY <1>1, <2>1, <2>2, <2>3, Zenon DEF Device, Safe
<1>5. \/ e = d
      \/ e = With(d, "sr", d.sr \cup {"TCF"})
      \/ e = With(With(With(d, "sr", (d.sr \ {"MBF"}) \cup {"TCF"}), "cs", FALSE), "busy", FALSE)
  BY <1>0, <1>1, Zenon DEF Complete, With
<1> QED BY <1>2, <1>3, <1>4, <1>5, Zenon

\* A frame that lpspi_flush_txfifo exchanges is answered by a word as long.
LEMMA FrameAnswer ==
    ASSUME NEW d, Device(d), CanExchange(d), NEW e \in lpspi_flush_txfifo(d)
    PROVE  \E rx \in [1 .. BytesPerFrame(d.tcr) -> Byte] :
               e = lpspi_update_irq(Complete(lpspi_update_status(Exchange(d, rx))))
<1> DEFINE word == SubSeq(d.tx_fifo, 1, BytesPerFrame(d.tcr))
<1>1. word \in [1 .. BytesPerFrame(d.tcr) -> Byte]
  <2>1. PICK b \in 0 .. 4 : b = BytesPerFrame(d.tcr)
    BY FrameBytes, Zenon DEF Device
  <2>2. d.tx_fifo \in Seq(Byte) /\ Len(d.tx_fifo) >= b
    BY <2>1, Zenon DEF Device, CanExchange
  <2>3. \A q \in Seq(Byte) : Len(q) >= b => SubSeq(q, 1, b) \in [1 .. b -> Byte]
    <3>1. \A q \in Seq(Byte) : Len(q) >= b
              => SubSeq(q, 1, b) \in Seq(Byte) /\ Len(SubSeq(q, 1, b)) = b
      OBVIOUS
    <3>2. \A q \in Seq(Byte) : q \in [1 .. Len(q) -> Byte]
      OBVIOUS
    <3> QED BY <3>1, <3>2, Zenon
  <2> QED BY <2>1, <2>2, <2>3, Zenon
<1>2. Answer(word) \subseteq [1 .. BytesPerFrame(d.tcr) -> Byte]
  <2>1. BytesPerFrame(d.tcr) \in 0 .. 4
    BY FrameBytes, Zenon DEF Device
  <2> QED BY <1>1, <2>1, AnswerAssumption, Zenon
<1> QED BY <1>1, <1>2, Zenon DEF lpspi_flush_txfifo

\* lpspi_flush_txfifo keeps a device safe, whatever the slave answers.
LEMMA FlushKeeps ==
    ASSUME NEW d, Device(d), Safe(d), NEW e \in lpspi_flush_txfifo(d)
    PROVE  Device(e) /\ Safe(e)
<1>1. CASE ~CanExchange(d)
  BY <1>1, Zenon DEF lpspi_flush_txfifo
<1>2. CASE CanExchange(d)
  <2>1. PICK rx \in [1 .. BytesPerFrame(d.tcr) -> Byte] :
            e = lpspi_update_irq(Complete(lpspi_update_status(Exchange(d, rx))))
    BY <1>2, FrameAnswer, Zenon
  <2>2. PICK x : x = Exchange(d, rx) /\ Device(x) /\ Safe(x)
    BY <1>2, ExchangeKeeps, Zenon
  <2>3. PICK y : y = lpspi_update_status(x) /\ Device(y) /\ Safe(y)
    BY <2>2, StatusKeeps, Zenon
  <2>4. PICK z : z = Complete(y) /\ Device(z) /\ Safe(z)
    BY <2>3, CompleteKeeps, Zenon
  <2> QED BY <2>1, <2>2, <2>3, <2>4, IrqKeeps, Zenon DEF Good
<1> QED BY <1>1, <1>2

\* A field that neither the FIFOs nor the frame sequence depend on.
LEMMA PlainKeeps ==
    ASSUME NEW d, Device(d), Safe(d), NEW v,
           NEW g \in {"men", "ier", "loopback", "rxempty"}
    PROVE  Device(With(d, g, v)) /\ Safe(With(d, g, v))
<1>1. PICK e : e = With(d, g, v)
  BY Zenon
<1>2. g \in Fields /\ Record(d)
  BY Zenon DEF Fields, Device
<1>3. Record(e) /\ \A f \in Fields \ {g} : e[f] = d[f]
  BY <1>1, <1>2, Assigned
<1>4. /\ e.tcr = d.tcr /\ e.tx_watermark = d.tx_watermark /\ e.rx_watermark = d.rx_watermark
      /\ e.tx_fifo = d.tx_fifo /\ e.rx_fifo = d.rx_fifo /\ e.cs = d.cs /\ e.busy = d.busy
      /\ e.sr = d.sr
  BY <1>3 DEF Fields
<1> QED BY <1>1, <1>3, <1>4, Zenon DEF Device, Safe

\* The flags of the guest's making: none of them says that an answer was lost
\* or that the bus is busy when it is not.
LEMMA FlagsKeep ==
    ASSUME NEW d, Device(d), Safe(d), NEW v, "REF" \notin v, "MBF" \in v => d.busy
    PROVE  /\ Device(With(d, "sr", v)) /\ Safe(With(d, "sr", v))
           /\ \A f \in Fields \ {"sr"} : With(d, "sr", v)[f] = d[f]
<1>1. PICK e : e = With(d, "sr", v)
  BY Zenon
<1>2. "sr" \in Fields /\ Record(d)
  BY Zenon DEF Fields, Device
<1>3. Record(e) /\ e["sr"] = v /\ \A f \in Fields \ {"sr"} : e[f] = d[f]
  BY <1>1, <1>2, Assigned
<1>4. /\ e.tcr = d.tcr /\ e.tx_watermark = d.tx_watermark /\ e.rx_watermark = d.rx_watermark
      /\ e.tx_fifo = d.tx_fifo /\ e.rx_fifo = d.rx_fifo /\ e.cs = d.cs /\ e.busy = d.busy
  BY <1>3 DEF Fields
<1>5. Device(e)
  BY <1>3, <1>4, Zenon DEF Device
<1>6. Safe(e)
  BY <1>3, <1>4, Zenon DEF Safe
<1> QED BY <1>1, <1>3, <1>5, <1>6, Zenon

\* A FIFO takes what it has room for.
LEMMA FifoKeeps ==
    ASSUME NEW d, Device(d), Safe(d), NEW g \in {"tx_fifo", "rx_fifo"},
           NEW q \in Seq(Byte), Len(q) <= LPSPI_FIFO_BYTE_CAPACITY
    PROVE  /\ Device(With(d, g, q)) /\ Safe(With(d, g, q))
           /\ With(d, g, q)[g] = q
           /\ \A f \in Fields \ {g} : With(d, g, q)[f] = d[f]
<1>1. PICK e : e = With(d, g, q)
  BY Zenon
<1>2. g \in Fields /\ Record(d)
  BY Zenon DEF Fields, Device
<1>3. Record(e) /\ e[g] = q /\ \A f \in Fields \ {g} : e[f] = d[f]
  BY <1>1, <1>2, Assigned
<1>4. /\ e.tcr = d.tcr /\ e.tx_watermark = d.tx_watermark /\ e.rx_watermark = d.rx_watermark
      /\ e.cs = d.cs /\ e.busy = d.busy /\ e.sr = d.sr
      /\ e.tx_fifo \in {d.tx_fifo, q} /\ e.rx_fifo \in {d.rx_fifo, q}
  BY <1>3 DEF Fields
<1>5. Device(e)
  BY <1>3, <1>4, Zenon DEF Device
<1>6. Safe(e)
  BY <1>3, <1>4, Zenon DEF Safe
<1> QED BY <1>1, <1>3, <1>5, <1>6, Zenon

\* A write of TCR, or of one of the watermarks in FCR.
LEMMA ConfigKeeps ==
    ASSUME NEW d, Device(d), Safe(d), NEW v,
           NEW g \in {"tcr", "tx_watermark", "rx_watermark"},
           g = "tcr" => v.framesz \in Nat, g # "tcr" => v \in Nat
    PROVE  Device(With(d, g, v)) /\ Safe(With(d, g, v))
<1>1. PICK e : e = With(d, g, v)
  BY Zenon
<1>2. g \in Fields /\ Record(d)
  BY Zenon DEF Fields, Device
<1>3. Record(e) /\ e[g] = v /\ \A f \in Fields \ {g} : e[f] = d[f]
  BY <1>1, <1>2, Assigned
<1>4. /\ e.tx_fifo = d.tx_fifo /\ e.rx_fifo = d.rx_fifo /\ e.cs = d.cs /\ e.busy = d.busy
      /\ e.sr = d.sr
      /\ (e.tcr = d.tcr \/ (g = "tcr" /\ e.tcr = v))
      /\ (e.tx_watermark = d.tx_watermark \/ (g # "tcr" /\ e.tx_watermark = v))
      /\ (e.rx_watermark = d.rx_watermark \/ (g # "tcr" /\ e.rx_watermark = v))
  BY <1>3 DEF Fields
<1>5. Device(e)
  BY <1>3, <1>4, Zenon DEF Device
<1>6. Safe(e)
  BY <1>4, Zenon DEF Safe
<1> QED BY <1>1, <1>5, <1>6, Zenon

\* The device before a reset brings its status up to date.
LEMMA ResetDevice ==
    ASSUME NEW r, r =
        [men |-> FALSE, sr |-> {"TDF", "TCF"}, ier |-> {},
         tcr |-> [framesz |-> 32, cont |-> FALSE, rxmsk |-> FALSE], loopback |-> FALSE,
         tx_watermark |-> 0, rx_watermark |-> 0, tx_fifo |-> <<>>, rx_fifo |-> <<>>,
         fsr |-> [tx |-> 0, rx |-> 0], rxempty |-> TRUE, busy |-> FALSE, cs |-> FALSE,
         irq |-> FALSE]
    PROVE  Device(r) /\ Safe(r)
<1>1. Record(r)
  <2>1. DOMAIN r = Fields
    BY Zenon DEF Fields
  <2>2. r = [f \in DOMAIN r |-> r[f]]
    BY Zenon
  <2> QED BY <2>1, <2>2, Zenon DEF Record
<1>2. /\ r.tcr.framesz \in Nat /\ r.tx_fifo = <<>> /\ r.rx_fifo = <<>>
      /\ r.tx_watermark \in Nat /\ r.rx_watermark \in Nat
      /\ r.sr = {"TDF", "TCF"}
  BY Zenon
<1>3. ~r.cs /\ ~r.busy
  BY Zenon
<1>4. /\ <<>> \in Seq(Byte) /\ Len(<<>>) <= LPSPI_FIFO_BYTE_CAPACITY
      /\ "REF" \notin {"TDF", "TCF"} /\ "MBF" \notin {"TDF", "TCF"}
  BY Capacity
<1>5. Device(r)
  BY <1>1, <1>2, <1>4, Zenon DEF Device
<1>6. Safe(r)
  BY <1>2, <1>3, <1>4, Zenon DEF Safe
<1> QED BY <1>5, <1>6, Zenon

\* The device after a reset.
LEMMA ResetGood == Good(nxps32k358_lpspi_do_reset)
<1>1. PICK r : r =
        [men |-> FALSE, sr |-> {"TDF", "TCF"}, ier |-> {},
         tcr |-> [framesz |-> 32, cont |-> FALSE, rxmsk |-> FALSE], loopback |-> FALSE,
         tx_watermark |-> 0, rx_watermark |-> 0, tx_fifo |-> <<>>, rx_fifo |-> <<>>,
         fsr |-> [tx |-> 0, rx |-> 0], rxempty |-> TRUE, busy |-> FALSE, cs |-> FALSE,
         irq |-> FALSE]
  BY Zenon
<1>2. Device(r) /\ Safe(r)
  BY <1>1, ResetDevice, Zenon
<1>3. nxps32k358_lpspi_do_reset = lpspi_update_irq(r)
  BY <1>1, Zenon DEF nxps32k358_lpspi_do_reset
<1> QED BY <1>2, <1>3, IrqKeeps, Zenon

\* What a write of CR leaves of the flags, the line and the TX FIFO.
Emptied(d, c, rtf) ==
    /\ c.cs = d.cs /\ c.tx_watermark \in Nat
    /\ c.sr = IF rtf THEN d.sr \cup {"TDF"} ELSE d.sr
    /\ rtf => c.tx_fifo = <<>>

\* A write of CR empties the FIFOs it is told to empty.
LEMMA WriteCRFields ==
    ASSUME NEW d, Device(d), Safe(d), NEW men, NEW rtf, NEW rrf
    PROVE  \E c : /\ write_CR(d, men, rtf, rrf) = lpspi_update_irq(c)
                  /\ Device(c) /\ Safe(c) /\ Emptied(d, c, rtf)
<1>1. PICK tx, rx, sr, rxempty :
        /\ tx = IF rtf THEN <<>> ELSE d.tx_fifo
        /\ rx = IF rrf THEN <<>> ELSE d.rx_fifo
        /\ sr = IF rtf THEN d.sr \cup {"TDF"} ELSE d.sr
        /\ rxempty = IF rrf THEN TRUE ELSE d.rxempty
  BY Zenon
<1>2. write_CR(d, men, rtf, rrf) = lpspi_update_irq(
        With(With(With(With(With(d, "tx_fifo", tx), "sr", sr), "rx_fifo", rx),
                  "rxempty", rxempty), "men", men))
  <2>1. DOMAIN d = Fields
    BY Zenon DEF Device, Record
  <2>2. /\ "tx_fifo" \in Fields /\ "sr" \in Fields /\ "rx_fifo" \in Fields
        /\ "rxempty" \in Fields /\ "men" \in Fields
    BY Zenon DEF Fields
  <2> QED BY <1>1, <2>1, <2>2, Zenon DEF write_CR, With
<1>3. /\ tx \in Seq(Byte) /\ Len(tx) <= LPSPI_FIFO_BYTE_CAPACITY
      /\ rx \in Seq(Byte) /\ Len(rx) <= LPSPI_FIFO_BYTE_CAPACITY
  <2>1. <<>> \in Seq(Byte) /\ Len(<<>>) <= LPSPI_FIFO_BYTE_CAPACITY
    BY Capacity
  <2> QED BY <1>1, <2>1, Zenon DEF Device, Safe
<1>4. "REF" \notin sr /\ ("MBF" \in sr => d.busy)
  BY <1>1, Zenon DEF Safe
<1>5. PICK a : a = With(d, "tx_fifo", tx) /\ Device(a) /\ Safe(a)
  BY <1>3, FifoKeeps, Zenon
<1>6. a["tx_fifo"] = tx /\ \A f \in Fields \ {"tx_fifo"} : a[f] = d[f]
  BY <1>3, <1>5, FifoKeeps, Zenon
<1>7. "MBF" \in sr => a.busy
  <2>1. a.busy = d.busy
    BY <1>6 DEF Fields
  <2> QED BY <1>4, <2>1, Zenon
<1>8. PICK b : b = With(a, "sr", sr) /\ Device(b) /\ Safe(b)
  BY <1>4, <1>5, <1>7, FlagsKeep, Zenon
<1>9. b["sr"] = sr /\ \A f \in Fields \ {"sr"} : b[f] = a[f]
  <2>1. "sr" \in Fields /\ Record(a)
    BY <1>5, Zenon DEF Fields, Device
  <2> QED BY <1>8, <2>1, Assigned
<1>10. PICK c : c = With(b, "rx_fifo", rx) /\ Device(c) /\ Safe(c)
  BY <1>3, <1>8, FifoKeeps, Zenon
<1>11. \A f \in Fields \ {"rx_fifo"} : c[f] = b[f]
  BY <1>3, <1>8, <1>10, FifoKeeps, Zenon
<1>12. PICK e : e = With(c, "rxempty", rxempty) /\ Device(e) /\ Safe(e)
  BY <1>10, PlainKeeps, Zenon
<1>13. PICK z : z = With(e, "men", men) /\ Device(z) /\ Safe(z)
  BY <1>12, PlainKeeps, Zenon
<1>14. \A f \in Fields \ {"rxempty", "men"} : z[f] = c[f]
  <2>1. "rxempty" \in Fields /\ "men" \in Fields /\ Record(c) /\ Record(e)
    BY <1>10, <1>12, Zenon DEF Fields, Device
  <2>2. \A f \in Fields \ {"rxempty"} : e[f] = c[f]
    BY <1>12, <2>1, Assigned
  <2>3. \A f \in Fields \ {"men"} : z[f] = e[f]
    BY <1>13, <2>1, Assigned
  <2> QED BY <2>2, <2>3, Zenon
<1>15. z.cs = d.cs /\ z.sr = sr /\ z.tx_fifo = tx
  BY <1>6, <1>9, <1>11, <1>14, Zenon DEF Fields
<1>16. z.tx_watermark \in Nat
  BY <1>13, Zenon DEF Device
<1>17. write_CR(d, men, rtf, rrf) = lpspi_update_irq(z)
  BY <1>2, <1>5, <1>8, <1>10, <1>12, <1>13, Zenon
<1>18. Emptied(d, z, rtf)
  BY <1>1, <1>15, <1>16, Zenon DEF Emptied
<1> QED BY <1>13, <1>17, <1>18, Zenon

LEMMA WriteCRGood ==
    ASSUME NEW d, Good(d), NEW men, NEW rtf, NEW rrf
    PROVE  Good(write_CR(d, men, rtf, rrf))
<1>0. Device(d) /\ Safe(d)
  BY Zenon DEF Good
<1>1. PICK c : /\ write_CR(d, men, rtf, rrf) = lpspi_update_irq(c)
               /\ Device(c) /\ Safe(c) /\ Emptied(d, c, rtf)
  BY <1>0, WriteCRFields, Zenon
<1> QED BY <1>1, IrqKeeps, Zenon

\* A write of SR clears flags.
LEMMA WriteSRGood ==
    ASSUME NEW d, Good(d), NEW flags
    PROVE  Good(write_SR(d, flags))
<1>0. Device(d) /\ Safe(d)
  BY Zenon DEF Good
<1>1. write_SR(d, flags) = lpspi_update_irq(With(d, "sr", d.sr \ flags))
  BY Zenon DEF write_SR, With
<1>2. "REF" \notin d.sr \ flags /\ ("MBF" \in d.sr \ flags => d.busy)
  BY <1>0, Zenon DEF Safe
<1>3. Device(With(d, "sr", d.sr \ flags)) /\ Safe(With(d, "sr", d.sr \ flags))
  BY <1>0, <1>2, FlagsKeep, Zenon
<1> QED BY <1>1, <1>3, IrqKeeps, Zenon

\* A write of TCR may send what waits in the TX FIFO.
LEMMA WriteTCRGood ==
    ASSUME NEW d, Good(d), NEW tcr, tcr.framesz \in Nat, NEW e \in write_TCR(d, tcr)
    PROVE  Good(e)
<1>0. Device(d) /\ Safe(d)
  BY Zenon DEF Good
<1>1. PICK c : c = With(d, "tcr", tcr) /\ Device(c) /\ Safe(c)
  BY <1>0, ConfigKeeps, Zenon
<1>2. c = [d EXCEPT !.tcr = tcr]
  BY <1>1, Zenon DEF With
<1>3. PICK f : e = lpspi_update_irq(f) /\ (f = c \/ f \in lpspi_flush_txfifo(c))
  BY <1>2, Zenon DEF write_TCR
<1>4. Device(f) /\ Safe(f)
  BY <1>1, <1>3, FlushKeeps, Zenon
<1> QED BY <1>3, <1>4, IrqKeeps, Zenon

\* The TX FIFO with a word it has room for.
LEMMA Pushed ==
    ASSUME NEW d, Device(d), NEW word \in [1 .. BytesPerFrame(d.tcr) -> Byte],
           ~ (Free(d.tx_fifo) < BytesPerFrame(d.tcr)), NEW q, q = d.tx_fifo \o word
    PROVE  q \in Seq(Byte) /\ Len(q) <= LPSPI_FIFO_BYTE_CAPACITY
<1>1. PICK b \in 0 .. 4 : b = BytesPerFrame(d.tcr)
  BY FrameBytes, Zenon DEF Device
<1>2. d.tx_fifo \in Seq(Byte)
  BY Zenon DEF Device
<1>3. PICK t \in Seq(Byte) : t = d.tx_fifo
  BY <1>2, Zenon
<1>4. word \in Seq(Byte) /\ Len(word) = b
  BY <1>1
<1>5. ~ (LPSPI_FIFO_BYTE_CAPACITY - Len(t) < b)
  BY <1>1, <1>3, Zenon DEF Free
<1>6. q \in Seq(Byte) /\ Len(q) = Len(t) + b
  BY <1>3, <1>4
<1>7. PICK n \in Nat : n = Len(t)
  BY <1>3
<1>8. n + b <= LPSPI_FIFO_BYTE_CAPACITY
  BY <1>5, <1>7, Capacity
<1> QED BY <1>6, <1>7, <1>8, Zenon

\* A write of TDR is taken only if there is room for it.
LEMMA WriteTDRGood ==
    ASSUME NEW d, Good(d), NEW word \in [1 .. BytesPerFrame(d.tcr) -> Byte],
           NEW e \in write_TDR(d, word)
    PROVE  Good(e)
<1>0. Device(d) /\ Safe(d)
  BY Zenon DEF Good
<1>1. CASE ~d.men
  BY <1>0, <1>1, IrqKeeps, Zenon DEF write_TDR
<1>2. CASE d.men /\ Free(d.tx_fifo) < BytesPerFrame(d.tcr)
  <2>1. e = lpspi_update_irq(With(d, "sr", d.sr \cup {"TEF"}))
    BY <1>2, Zenon DEF write_TDR, With
  <2>2. "REF" \notin d.sr \cup {"TEF"} /\ ("MBF" \in d.sr \cup {"TEF"} => d.busy)
    BY <1>0, Zenon DEF Safe
  <2>3. Device(With(d, "sr", d.sr \cup {"TEF"})) /\ Safe(With(d, "sr", d.sr \cup {"TEF"}))
    BY <1>0, <2>2, FlagsKeep, Zenon
  <2> QED BY <2>1, <2>3, IrqKeeps, Zenon
<1>3. CASE d.men /\ ~ (Free(d.tx_fifo) < BytesPerFrame(d.tcr))
  <2>1. PICK q : q = d.tx_fifo \o word
    BY Zenon
  <2>2. PICK c : c = With(d, "tx_fifo", q)
    BY Zenon
  <2>3. c = [d EXCEPT !.tx_fifo = d.tx_fifo \o word]
    BY <2>1, <2>2, Zenon DEF With
  <2>4. PICK f : e = lpspi_update_irq(f) /\ f \in lpspi_flush_txfifo(c)
    BY <1>3, <2>3, Zenon DEF write_TDR
  <2>5. q \in Seq(Byte) /\ Len(q) <= LPSPI_FIFO_BYTE_CAPACITY
    BY <1>0, <1>3, <2>1, Pushed, Zenon
  <2>6. Device(c) /\ Safe(c)
    BY <1>0, <2>2, <2>5, FifoKeeps, Zenon
  <2>7. Device(f) /\ Safe(f)
    BY <2>4, <2>6, FlushKeeps, Zenon
  <2> QED BY <2>4, <2>7, IrqKeeps, Zenon
<1> QED BY <1>1, <1>2, <1>3, Zenon

\* A write of IER, CFGR1 or FCR.
LEMMA WriteConfigGood ==
    ASSUME NEW d, Good(d)
    PROVE  /\ \A ier : Good(write_IER(d, ier))
           /\ \A loopback : Good(write_CFGR1(d, loopback))
           /\ \A tx, rx \in Nat : Good(write_FCR(d, tx, rx))
<1>0. Device(d) /\ Safe(d)
  BY Zenon DEF Good
<1>1. ASSUME NEW ier PROVE Good(write_IER(d, ier))
  <2>1. write_IER(d, ier) = lpspi_update_irq(With(d, "ier", ier))
    BY Zenon DEF write_IER, With
  <2>2. Device(With(d, "ier", ier)) /\ Safe(With(d, "ier", ier))
    BY <1>0, PlainKeeps, Zenon
  <2> QED BY <2>1, <2>2, IrqKeeps, Zenon
<1>2. ASSUME NEW loopback PROVE Good(write_CFGR1(d, loopback))
  <2>1. write_CFGR1(d, loopback) = lpspi_update_irq(With(d, "loopback", loopback))
    BY Zenon DEF write_CFGR1, With
  <2>2. Device(With(d, "loopback", loopback)) /\ Safe(With(d, "loopback", loopback))
    BY <1>0, PlainKeeps, Zenon
  <2> QED BY <2>1, <2>2, IrqKeeps, Zenon
<1>3. ASSUME NEW tx \in Nat, NEW rx \in Nat PROVE Good(write_FCR(d, tx, rx))
  <2>1. PICK c : c = With(d, "tx_watermark", tx) /\ Device(c) /\ Safe(c)
    BY <1>0, ConfigKeeps, Zenon
  <2>2. PICK e : e = With(c, "rx_watermark", rx) /\ Device(e) /\ Safe(e)
    BY <2>1, ConfigKeeps, Zenon
  <2>3. write_FCR(d, tx, rx) = lpspi_update_irq(e)
    BY <2>1, <2>2, Zenon DEF write_FCR, With
  <2> QED BY <2>2, <2>3, IrqKeeps, Zenon
<1> QED BY <1>1, <1>2, <1>3, Zenon

\* The RX FIFO after a read of RDR.
LEMMA Taken ==
    ASSUME NEW d, Device(d), NEW q, q = SubSeq(d.rx_fifo, FrontLen(d) + 1, Len(d.rx_fifo))
    PROVE  q \in Seq(Byte) /\ Len(q) <= Len(d.rx_fifo)
<1>1. PICK b \in 0 .. 4 : b = BytesPerFrame(d.tcr)
  BY FrameBytes, Zenon DEF Device
<1>2. PICK r \in Seq(Byte) : r = d.rx_fifo
  BY Zenon DEF Device
<1>3. PICK n \in Nat : n = FrontLen(d) /\ n <= Len(r)
  BY <1>1, <1>2 DEF FrontLen
<1>4. q = SubSeq(r, n + 1, Len(r))
  BY <1>2, <1>3, Zenon
<1>5. q \in Seq(Byte) /\ Len(q) <= Len(r)
  BY <1>3, <1>4, Rest, Zenon
<1> QED BY <1>2, <1>5, Zenon

\* A read of RDR, of a device whose status is fresh.
LEMMA Fronted ==
    ASSUME NEW d, Good(d), NEW q, q = SubSeq(d.rx_fifo, FrontLen(d) + 1, Len(d.rx_fifo)),
           NEW c, c = With(d, "rx_fifo", q)
    PROVE  /\ q \in Seq(Byte) /\ Len(q) <= LPSPI_FIFO_BYTE_CAPACITY
           /\ Device(c) /\ Safe(c) /\ read_RDR(d) = lpspi_update_status(c)
<1>1. Device(d) /\ Safe(d) /\ lpspi_update_status(d) = d
  BY Zenon DEF Good, Fresh
<1>2. q \in Seq(Byte) /\ Len(q) <= Len(d.rx_fifo)
  BY <1>1, Taken, Zenon
<1>3. Len(q) <= LPSPI_FIFO_BYTE_CAPACITY
  <2>1. Len(d.rx_fifo) <= LPSPI_FIFO_BYTE_CAPACITY /\ d.rx_fifo \in Seq(Byte)
    BY <1>1, Zenon DEF Device, Safe
  <2> QED BY <1>2, <2>1, Capacity
<1>4. Device(c) /\ Safe(c)
  BY <1>1, <1>2, <1>3, FifoKeeps, Zenon
<1>5. read_RDR(d) = lpspi_update_status(c)
  BY <1>1, Zenon DEF read_RDR, With
<1> QED BY <1>2, <1>3, <1>4, <1>5, Zenon

\* A read of RDR sets no flag: TDF does not depend on the RX FIFO, and a FIFO
\* that has enough for RDF after the read had it before.  So the interrupt
\* line, which read_RDR does not look at, still shows the flags.
LEMMA ReadRDRGood ==
    ASSUME NEW d, Good(d)
    PROVE  Good(read_RDR(d))
<1>0. Device(d) /\ Safe(d) /\ lpspi_update_status(d) = d /\ (~d.irq => ~Pending(d))
  BY Zenon DEF Good, Fresh
<1>1. PICK q : q = SubSeq(d.rx_fifo, FrontLen(d) + 1, Len(d.rx_fifo))
  BY Zenon
<1>2. q \in Seq(Byte) /\ Len(q) <= Len(d.rx_fifo)
  BY <1>0, <1>1, Taken, Zenon
<1>3. PICK c : c = With(d, "rx_fifo", q)
  BY Zenon
<1>4. /\ Len(q) <= LPSPI_FIFO_BYTE_CAPACITY
      /\ Device(c) /\ Safe(c) /\ read_RDR(d) = lpspi_update_status(c)
  BY <1>1, <1>3, Fronted, Zenon
<1>5. PICK e : e = lpspi_update_status(c)
  BY Zenon
<1>6. e = read_RDR(d)
  BY <1>4, <1>5, Zenon
<1>7. Device(e) /\ Safe(e) /\ lpspi_update_status(e) = e
  BY <1>4, <1>5, StatusKeeps, Zenon
<1>8. /\ c.tx_fifo = d.tx_fifo /\ c.rx_fifo = q /\ c.sr = d.sr /\ c.tcr = d.tcr
      /\ c.tx_watermark = d.tx_watermark /\ c.rx_watermark = d.rx_watermark
      /\ c.irq = d.irq /\ c.ier = d.ier
  <2>1. c["rx_fifo"] = q /\ \A f \in Fields \ {"rx_fifo"} : c[f] = d[f]
    BY <1>0, <1>2, <1>3, <1>4, FifoKeeps
  <2> QED BY <2>1 DEF Fields
<1>9. Words(c, c.tx_fifo) = Words(d, d.tx_fifo) /\ Words(c, c.rx_fifo) = Words(d, q)
  BY <1>8, Zenon DEF Words
<1>10. Words(d, q) \in Nat /\ Words(d, d.rx_fifo) \in Nat /\ Words(d, q) <= Words(d, d.rx_fifo)
  <2>1. PICK b \in 0 .. 4 : b = BytesPerFrame(d.tcr)
    BY <1>0, FrameBytes, Zenon DEF Device
  <2>2. PICK m \in Nat : m = Len(q)
    BY <1>2
  <2>3. PICK n \in Nat : n = Len(d.rx_fifo)
    <3>1. d.rx_fifo \in Seq(Byte)
      BY <1>0, Zenon DEF Device
    <3> QED BY <3>1
  <2>4. m <= n
    BY <1>2, <2>2, <2>3, Zenon
  <2>5. CASE b = 0
    BY <2>1, <2>5 DEF Words
  <2>6. CASE b # 0
    <3>1. Words(d, q) = m \div b /\ Words(d, d.rx_fifo) = n \div b
      BY <2>1, <2>2, <2>3, <2>6 DEF Words
    <3>2. b \in {1, 2, 3, 4}
      BY <2>1, <2>6
    <3>3. m \div b \in Nat /\ n \div b \in Nat /\ m \div b <= n \div b
      <4>1. CASE b = 1
        BY <2>4, <4>1
      <4>2. CASE b = 2
        BY <2>4, <4>2
      <4>3. CASE b = 3
        BY <2>4, <4>3
      <4>4. CASE b = 4
        BY <2>4, <4>4
      <4> QED BY <3>2, <4>1, <4>2, <4>3, <4>4
    <3> QED BY <3>1, <3>3, Zenon
  <2> QED BY <2>5, <2>6, Zenon
<1>11. "TDF" \in e.sr => "TDF" \in d.sr
  <2>1. /\ Words(d, d.tx_fifo) <= d.tx_watermark => ("TDF" \in d.sr <=> Free(d.tx_fifo) >= 4)
    BY <1>0, StatusFields, Zenon
  <2>2. /\ Words(c, c.tx_fifo) <= c.tx_watermark => ("TDF" \in e.sr <=> Free(c.tx_fifo) >= 4)
        /\ ~ (Words(c, c.tx_fifo) <= c.tx_watermark) => ("TDF" \in e.sr <=> "TDF" \in c.sr)
    BY <1>4, <1>5, StatusFields, Zenon
  <2> QED BY <1>8, <1>9, <2>1, <2>2, Zenon
<1>12. "RDF" \in e.sr => "RDF" \in d.sr
  <2>1. Words(d, d.rx_fifo) > d.rx_watermark => ("RDF" \in d.sr <=> Len(d.rx_fifo) >= 4)
    BY <1>0, StatusFields, Zenon
  <2>2. /\ Words(c, c.rx_fifo) > c.rx_watermark => ("RDF" \in e.sr <=> Len(c.rx_fifo) >= 4)
        /\ ~ (Words(c, c.rx_fifo) > c.rx_watermark) => ("RDF" \in e.sr <=> "RDF" \in c.sr)
    BY <1>4, <1>5, StatusFields, Zenon
  <2>3. d.rx_watermark \in Nat /\ d.rx_fifo \in Seq(Byte)
    BY <1>0, Zenon DEF Device
  <2>4. Words(d, q) > d.rx_watermark => Words(d, d.rx_fifo) > d.rx_watermark
    BY <1>10, <2>3
  <2>5. Len(q) >= 4 => Len(d.rx_fifo) >= 4
    BY <1>2, <2>3
  <2> QED BY <1>8, <1>9, <2>1, <2>2, <2>4, <2>5, Zenon
<1>13. e.irq = d.irq /\ e.ier = d.ier
  <2>1. e.irq = c.irq /\ e.ier = c.ier
    BY <1>4, <1>5, StatusLeaves, Zenon
  <2> QED BY <1>8, <2>1, Zenon
<1>14. ~e.irq => ~Pending(e)
  BY <1>0, <1>11, <1>12, <1>13, Zenon DEF Pending
<1> QED BY <1>6, <1>7, <1>14, Zenon DEF Good, Fresh

-----------------------------------------------------------------------------
(* What an access does to the flags and to the chip select line. *)

\* A flag whose FIFO is beyond the watermark was set before.
Kept(d, e) ==
    /\ "TDF" \in e.sr /\ ~ (Words(e, e.tx_fifo) <= e.tx_watermark) => "TDF" \in d.sr
    /\ "RDF" \in e.sr /\ ~ (Words(e, e.rx_fifo) > e.rx_watermark) => "RDF" \in d.sr

\* The line rises for more than the frames sent, and falls after the last one.
Bracketed(d, e) ==
    /\ ~d.cs /\ e.cs => e.tcr.cont \/ e.tx_fifo # <<>>
    /\ d.cs /\ ~e.cs => ~e.tcr.cont /\ e.tx_fifo = <<>> /\ "TCF" \in e.sr

\* Neither has a new flag or a change of the line to account for.
Plain(d, e) ==
    /\ e.cs = d.cs
    /\ "TDF" \in e.sr => "TDF" \in d.sr
    /\ "RDF" \in e.sr => "RDF" \in d.sr

LEMMA PlainStep ==
    ASSUME NEW d, NEW e, Plain(d, e)
    PROVE  Kept(d, e) /\ Bracketed(d, e)
BY Zenon DEF Plain, Kept, Bracketed

\* lpspi_update_status at the end of an access changes nothing of that.
LEMMA StatusStep ==
    ASSUME NEW d, NEW c, Device(c), NEW e, e = lpspi_update_status(c)
    PROVE  /\ Kept(d, c) => Kept(d, e)
           /\ Bracketed(d, c) => Bracketed(d, e)
<1>1. /\ ~ (Words(c, c.tx_fifo) <= c.tx_watermark) => ("TDF" \in e.sr <=> "TDF" \in c.sr)
      /\ ~ (Words(c, c.rx_fifo) > c.rx_watermark) => ("RDF" \in e.sr <=> "RDF" \in c.sr)
  BY StatusFields, Zenon
<1>2. /\ e.tcr = c.tcr /\ e.tx_fifo = c.tx_fifo /\ e.rx_fifo = c.rx_fifo /\ e.cs = c.cs
      /\ e.tx_watermark = c.tx_watermark /\ e.rx_watermark = c.rx_watermark
      /\ "TCF" \in e.sr <=> "TCF" \in c.sr
  <2>1. \A f : f \notin {"TDF", "RDF"} => (f \in e.sr <=> f \in c.sr)
    BY StatusFields, Zenon
  <2>2. "TCF" \in e.sr <=> "TCF" \in c.sr
    BY <2>1
  <2>3. /\ e.tcr = c.tcr /\ e.tx_fifo = c.tx_fifo /\ e.rx_fifo = c.rx_fifo /\ e.cs = c.cs
        /\ e.tx_watermark = c.tx_watermark /\ e.rx_watermark = c.rx_watermark
    BY StatusLeaves, Zenon
  <2> QED BY <2>2, <2>3, Zenon
<1>3. Words(e, e.tx_fifo) = Words(c, c.tx_fifo) /\ Words(e, e.rx_fifo) = Words(c, c.rx_fifo)
  BY <1>2, Zenon DEF Words
<1>4. Kept(d, c) => Kept(d, e)
  BY <1>1, <1>2, <1>3, Zenon DEF Kept
<1>5. Bracketed(d, c) => Bracketed(d, e)
  BY <1>2, Zenon DEF Bracketed
<1> QED BY <1>4, <1>5, Zenon

\* Nor does lpspi_update_irq, which makes the line show the flags.
LEMMA IrqStep ==
    ASSUME NEW d, NEW c, Device(c), NEW e, e = lpspi_update_irq(c)
    PROVE  /\ Kept(d, c) => Kept(d, e)
           /\ Bracketed(d, c) => Bracketed(d, e)
           /\ e.irq <=> Pending(e)
<1>1. /\ \A f \in Fields \ {"fsr", "sr", "rxempty", "irq"} : e[f] = c[f]
      /\ \A f : f \notin {"TDF", "RDF"} => (f \in e.sr <=> f \in c.sr)
      /\ ~ (Words(c, c.tx_fifo) <= c.tx_watermark) => ("TDF" \in e.sr <=> "TDF" \in c.sr)
      /\ ~ (Words(c, c.rx_fifo) > c.rx_watermark) => ("RDF" \in e.sr <=> "RDF" \in c.sr)
      /\ e.irq <=> Pending(e)
  BY IrqFields, Zenon
<1>2. /\ e.tcr = c.tcr /\ e.tx_fifo = c.tx_fifo /\ e.rx_fifo = c.rx_fifo /\ e.cs = c.cs
      /\ e.tx_watermark = c.tx_watermark /\ e.rx_watermark = c.rx_watermark
      /\ "TCF" \in e.sr <=> "TCF" \in c.sr
  BY <1>1, Zenon DEF Fields
<1>3. Words(e, e.tx_fifo) = Words(c, c.tx_fifo) /\ Words(e, e.rx_fifo) = Words(c, c.rx_fifo)
  BY <1>2, Zenon DEF Words
<1>4. Kept(d, c) => Kept(d, e)
  BY <1>1, <1>2, <1>3, Zenon DEF Kept
<1>5. Bracketed(d, c) => Bracketed(d, e)
  BY <1>2, Zenon DEF Bracketed
<1> QED BY <1>1, <1>4, <1>5, Zenon

\* The end of a frame sequence: a device that was selected stays so as long as
\* there is more to send.
LEMMA CompleteStep ==
    ASSUME NEW d, NEW c, Device(c), c.cs, Kept(d, c), NEW e, e = Complete(c)
    PROVE  Kept(d, e) /\ Bracketed(d, e)
<1>0. "sr" \in Fields /\ "cs" \in Fields /\ "busy" \in Fields /\ Record(c) /\ DOMAIN c = Fields
  BY Zenon DEF Fields, Device, Record
<1>1. CASE c.tx_fifo # <<>>
  <2>1. e = c
    BY <1>1, Zenon DEF Complete
  <2> QED BY <1>1, <2>1, Zenon DEF Bracketed
<1>2. CASE c.tx_fifo = <<>> /\ c.tcr.cont
  <2>1. e = With(c, "sr", c.sr \cup {"TCF"})
    BY <1>0, <1>2, Zenon DEF Complete, With
  <2>2. Record(e) /\ e.sr = c.sr \cup {"TCF"} /\ \A f \in Fields \ {"sr"} : e[f] = c[f]
    BY <1>0, <2>1, Assigned
  <2>3. /\ e.tcr = c.tcr /\ e.tx_fifo = c.tx_fifo /\ e.rx_fifo = c.rx_fifo /\ e.cs = c.cs
        /\ e.tx_watermark = c.tx_watermark /\ e.rx_watermark = c.rx_watermark
    BY <2>2, Zenon DEF Fields
  <2>4. ("TDF" \in e.sr => "TDF" \in c.sr) /\ ("RDF" \in e.sr => "RDF" \in c.sr)
    BY <2>2, Zenon
  <2>5. Kept(d, e)
    BY <2>3, <2>4, Zenon DEF Kept, Words
  <2> QED BY <1>2, <2>3, <2>5, Zenon DEF Bracketed
<1>3. CASE c.tx_fifo = <<>> /\ ~c.tcr.cont
  <2>0. PICK v : v = FALSE
    BY Zenon
  <2>1. PICK a, b : /\ a = With(c, "sr", (c.sr \ {"MBF"}) \cup {"TCF"})
                    /\ b = With(a, "cs", v) /\ e = With(b, "busy", v)
    BY <1>0, <1>3, <2>0, Zenon DEF Complete, With
  <2>2. Record(a) /\ a.sr = (c.sr \ {"MBF"}) \cup {"TCF"} /\ \A f \in Fields \ {"sr"} : a[f] = c[f]
    BY <1>0, <2>1, Assigned
  <2>3. Record(b) /\ \A f \in Fields \ {"cs"} : b[f] = a[f]
    BY <1>0, <2>1, <2>2, Assigned
  <2>4. \A f \in Fields \ {"busy"} : e[f] = b[f]
    BY <1>0, <2>1, <2>3, Assigned
  <2>5. /\ e.tcr = c.tcr /\ e.tx_fifo = c.tx_fifo /\ e.rx_fifo = c.rx_fifo
        /\ e.tx_watermark = c.tx_watermark /\ e.rx_watermark = c.rx_watermark
        /\ e.sr = (c.sr \ {"MBF"}) \cup {"TCF"}
    BY <2>2, <2>3, <2>4, Zenon DEF Fields
  <2>6. ("TDF" \in e.sr => "TDF" \in c.sr) /\ ("RDF" \in e.sr => "RDF" \in c.sr) /\ "TCF" \in e.sr
    BY <2>5, Zenon
  <2>7. Kept(d, e)
    BY <2>5, <2>6, Zenon DEF Kept, Words
  <2>8. ~e.cs
    <3>1. b.cs = v
      BY <1>0, <2>1, <2>2, Assigned
    <3>2. e.cs = b.cs
      BY <2>4, Zenon DEF Fields
    <3> QED BY <2>0, <3>1, <3>2, Zenon
  <2> QED BY <1>3, <2>5, <2>6, <2>7, <2>8, Zenon DEF Bracketed
<1> QED BY <1>1, <1>2, <1>3, Zenon

\* lpspi_flush_txfifo selects the slave, and releases it only after the last
\* frame.
LEMMA FlushStep ==
    ASSUME NEW d, NEW c, Device(c), Safe(c), Plain(d, c), NEW e \in lpspi_flush_txfifo(c)
    PROVE  Kept(d, e) /\ Bracketed(d, e)
<1>1. CASE ~CanExchange(c)
  BY <1>1, PlainStep, Zenon DEF lpspi_flush_txfifo
<1>2. CASE CanExchange(c)
  <2>1. PICK rx \in [1 .. BytesPerFrame(c.tcr) -> Byte] :
            e = lpspi_update_irq(Complete(lpspi_update_status(Exchange(c, rx))))
    BY <1>2, FrameAnswer, Zenon
  <2>2. PICK x : x = Exchange(c, rx) /\ Device(x) /\ Safe(x)
    BY <1>2, ExchangeKeeps, Zenon
  <2>3. x.busy
    BY <2>2, ExchangeFields, Zenon DEF Device
  <2>4. \A f : f \notin {"MBF", "REF"} => (f \in x.sr <=> f \in c.sr)
    BY <2>2, ExchangeFields, Zenon DEF Device
  <2>5. ("TDF" \in x.sr => "TDF" \in c.sr) /\ ("RDF" \in x.sr => "RDF" \in c.sr)
    BY <2>4
  <2>6. Kept(d, x)
    BY <2>5, Zenon DEF Kept, Plain
  <2>7. PICK y : y = lpspi_update_status(x) /\ Device(y) /\ Safe(y)
    BY <2>2, StatusKeeps, Zenon
  <2>8. Kept(d, y)
    BY <2>2, <2>6, <2>7, StatusStep, Zenon
  <2>9. y.cs
    <3>1. y.cs = x.cs
      BY <2>2, <2>7, StatusLeaves, Zenon
    <3>2. x.cs
      BY <2>2, <2>3, Zenon DEF Safe
    <3> QED BY <3>1, <3>2, Zenon
  <2>10. PICK z : z = Complete(y) /\ Device(z)
    BY <2>7, CompleteKeeps, Zenon
  <2>11. Kept(d, z) /\ Bracketed(d, z)
    BY <2>7, <2>8, <2>9, <2>10, CompleteStep, Zenon
  <2>12. e = lpspi_update_irq(z)
    BY <2>1, <2>2, <2>7, <2>10, Zenon
  <2> QED BY <2>10, <2>11, <2>12, IrqStep, Zenon
<1> QED BY <1>1, <1>2, Zenon

\* After a write the line shows the flags, and the write accounts for what it
\* changed.
Stepped(d, e) == Kept(d, e) /\ Bracketed(d, e) /\ (e.irq => Pending(e))

\* A write that sends nothing ends in lpspi_update_irq.
LEMMA WriteStep ==
    ASSUME NEW d, NEW c, Device(c), Kept(d, c), Bracketed(d, c)
    PROVE  Stepped(d, lpspi_update_irq(c))
<1>1. PICK e : e = lpspi_update_irq(c)
  BY Zenon
<1>2. Kept(d, e) /\ Bracketed(d, e) /\ (e.irq <=> Pending(e))
  BY <1>1, IrqStep, Zenon
<1> QED BY <1>1, <1>2, Zenon DEF Stepped

\* An assignment to a field that is neither the chip select line nor a flag.
LEMMA AssignStep ==
    ASSUME NEW d, Device(d), NEW g \in Fields \ {"sr", "cs"}, NEW v
    PROVE  Plain(d, With(d, g, v))
<1>1. PICK e : e = With(d, g, v)
  BY Zenon
<1>2. \A f \in Fields \ {g} : e[f] = d[f]
  BY <1>1, Assigned DEF Device
<1>3. e.cs = d.cs /\ e.sr = d.sr
  BY <1>2, Zenon DEF Fields
<1> QED BY <1>1, <1>3, Zenon DEF Plain

\* An assignment to the flags that sets neither of the two.
LEMMA FlagsStep ==
    ASSUME NEW d, Device(d), NEW v, "TDF" \in v => "TDF" \in d.sr, "RDF" \in v => "RDF" \in d.sr
    PROVE  Plain(d, With(d, "sr", v))
<1>1. PICK e : e = With(d, "sr", v)
  BY Zenon
<1>2. e.sr = v /\ \A f \in Fields \ {"sr"} : e[f] = d[f]
  <2>1. "sr" \in Fields /\ Record(d)
    BY Zenon DEF Fields, Device
  <2> QED BY <1>1, <2>1, Assigned
<1>3. e.cs = d.cs
  BY <1>2, Zenon DEF Fields
<1> QED BY <1>1, <1>2, <1>3, Zenon DEF Plain

\* An empty FIFO holds no frame.
LEMMA NoWords ==
    ASSUME NEW d, Device(d)
    PROVE  Words(d, <<>>) = 0
<1>1. BytesPerFrame(d.tcr) \in 0 .. 4
  BY FrameBytes, Zenon DEF Device
<1>2. \A b \in 0 .. 4 : b # 0 => Len(<<>>) \div b = 0
  OBVIOUS
<1> QED BY <1>1, <1>2 DEF Words

\* A reset sets TDF with its FIFO empty.
LEMMA ResetStep ==
    ASSUME NEW d
    PROVE  /\ Kept(d, nxps32k358_lpspi_do_reset)
           /\ nxps32k358_lpspi_do_reset.irq => Pending(nxps32k358_lpspi_do_reset)
           /\ ~nxps32k358_lpspi_do_reset.cs
<1>1. PICK r : r =
        [men |-> FALSE, sr |-> {"TDF", "TCF"}, ier |-> {},
         tcr |-> [framesz |-> 32, cont |-> FALSE, rxmsk |-> FALSE], loopback |-> FALSE,
         tx_watermark |-> 0, rx_watermark |-> 0, tx_fifo |-> <<>>, rx_fifo |-> <<>>,
         fsr |-> [tx |-> 0, rx |-> 0], rxempty |-> TRUE, busy |-> FALSE, cs |-> FALSE,
         irq |-> FALSE]
  BY Zenon
<1>2. Device(r)
  BY <1>1, ResetDevice, Zenon
<1>3. r.tx_fifo = <<>> /\ r.tx_watermark = 0 /\ r.sr = {"TDF", "TCF"}
  BY <1>1, Zenon
<1>4. Words(r, r.tx_fifo) <= r.tx_watermark
  <2>1. Words(r, <<>>) = 0
    BY <1>2, NoWords, Zenon
  <2>2. 0 <= 0
    OBVIOUS
  <2> QED BY <1>3, <2>1, <2>2, Zenon
<1>5. "RDF" \notin r.sr
  BY <1>3, Zenon
<1>6. Kept(d, r)
  BY <1>4, <1>5, Zenon DEF Kept
<1>7. PICK e : e = lpspi_update_irq(r)
  BY Zenon
<1>8. nxps32k358_lpspi_do_reset = e
  BY <1>1, <1>7, Zenon DEF nxps32k358_lpspi_do_reset
<1>9. Kept(d, e) /\ (e.irq <=> Pending(e))
  BY <1>2, <1>6, <1>7, IrqStep, Zenon
<1>10. ~e.cs
  <2>1. \A f \in Fields \ {"fsr", "sr", "rxempty", "irq"} : e[f] = r[f]
    BY <1>2, <1>7, IrqFields, Zenon
  <2>2. e.cs = r.cs
    BY <2>1, Zenon DEF Fields
  <2>3. ~r.cs
    BY <1>1, Zenon
  <2> QED BY <2>2, <2>3, Zenon
<1> QED BY <1>8, <1>9, <1>10, Zenon

\* A write of CR sets TDF only with an empty TX FIFO.
LEMMA WriteCRStep ==
    ASSUME NEW d, Device(d), Safe(d), NEW men, NEW rtf, NEW rrf
    PROVE  Stepped(d, write_CR(d, men, rtf, rrf))
<1>0. PICK c : /\ write_CR(d, men, rtf, rrf) = lpspi_update_irq(c)
               /\ Device(c) /\ Safe(c) /\ Emptied(d, c, rtf)
  BY WriteCRFields, Zenon
<1>1. /\ c.cs = d.cs /\ c.tx_watermark \in Nat
      /\ c.sr = IF rtf THEN d.sr \cup {"TDF"} ELSE d.sr
      /\ rtf => c.tx_fifo = <<>>
  BY <1>0, Zenon DEF Emptied
<1>2. "TDF" \in c.sr /\ ~ (Words(c, c.tx_fifo) <= c.tx_watermark) => "TDF" \in d.sr
  <2>1. CASE rtf
    <3>1. Words(c, c.tx_fifo) = 0
      BY <1>0, <1>1, <2>1, NoWords, Zenon
    <3>2. 0 <= c.tx_watermark
      BY <1>1
    <3> QED BY <3>1, <3>2, Zenon
  <2>2. CASE ~rtf
    BY <1>1, <2>2, Zenon
  <2> QED BY <2>1, <2>2, Zenon
<1>3. "RDF" \in c.sr => "RDF" \in d.sr
  <2>1. CASE rtf
    <3>1. c.sr = d.sr \cup {"TDF"}
      BY <1>1, <2>1, Zenon
    <3> QED BY <3>1, Zenon
  <2>2. CASE ~rtf
    BY <1>1, <2>2, Zenon
  <2> QED BY <2>1, <2>2, Zenon
<1>4. Kept(d, c)
  BY <1>2, <1>3, Zenon DEF Kept
<1>5. Bracketed(d, c)
  BY <1>1, Zenon DEF Bracketed
<1>6. Stepped(d, lpspi_update_irq(c))
  BY <1>0, <1>4, <1>5, WriteStep, Zenon
<1> QED BY <1>0, <1>6, Zenon

\* A write of TCR or TDR may send a frame.
LEMMA SendStep ==
    ASSUME NEW d, NEW c, Device(c), Safe(c), Plain(d, c), NEW f \in lpspi_flush_txfifo(c)
    PROVE  Stepped(d, lpspi_update_irq(f))
<1>1. Device(f)
  BY FlushKeeps, Zenon
<1>2. Kept(d, f) /\ Bracketed(d, f)
  BY FlushStep, Zenon
<1> QED BY <1>1, <1>2, WriteStep, Zenon

\* A read of RDR leaves the interrupt line as it was.
LEMMA ReadStep ==
    ASSUME NEW d, Good(d), NEW e, e = read_RDR(d)
    PROVE  Kept(d, e) /\ Bracketed(d, e) /\ e.irq = d.irq
<1>1. PICK q, c : /\ q = SubSeq(d.rx_fifo, FrontLen(d) + 1, Len(d.rx_fifo))
                  /\ c = With(d, "rx_fifo", q)
  BY Zenon
<1>2. Device(c) /\ e = lpspi_update_status(c)
  BY <1>1, Fronted, Zenon
<1>3. Device(d) /\ "rx_fifo" \in Fields \ {"sr", "cs"} /\ "irq" \in Fields \ {"rx_fifo"}
  BY DEF Good, Fields
<1>4. Plain(d, c)
  BY <1>1, <1>3, AssignStep, Zenon
<1>5. c.irq = d.irq
  <2>1. Record(d) /\ "rx_fifo" \in Fields
    BY <1>3, Zenon DEF Device
  <2> QED BY <1>1, <1>3, <2>1, Assigned
<1>6. Kept(d, c) /\ Bracketed(d, c)
  BY <1>4, PlainStep, Zenon
<1>7. Kept(d, e) /\ Bracketed(d, e)
  BY <1>2, <1>6, StatusStep, Zenon
<1>8. e.irq = c.irq
  BY <1>2, StatusLeaves, Zenon
<1> QED BY <1>5, <1>7, <1>8, Zenon

\* The flags of a device whose status is fresh.
LEMMA FlagsRead ==
    ASSUME NEW d, NEW e, Device(e), lpspi_update_status(e) = e, Kept(d, e)
    PROVE  /\ e.fsr = [tx |-> Words(e, e.tx_fifo), rx |-> Words(e, e.rx_fifo)]
           /\ e.rxempty <=> Words(e, e.rx_fifo) = 0
           /\ WantsData(e) => "TDF" \in e.sr
           /\ HasData(e) => "RDF" \in e.sr
           /\ "TDF" \in e.sr /\ ~WantsData(e) =>
                  "TDF" \in d.sr /\ Words(e, e.tx_fifo) > e.tx_watermark
           /\ "RDF" \in e.sr /\ ~HasData(e) =>
                  "RDF" \in d.sr /\ Words(e, e.rx_fifo) <= e.rx_watermark
<1>1. e.fsr = [tx |-> Words(e, e.tx_fifo), rx |-> Words(e, e.rx_fifo)]
  BY StatusFields, Zenon
<1>2. e.rxempty = (Words(e, e.rx_fifo) = 0)
  BY StatusFields, Zenon
<1>3. /\ Words(e, e.tx_fifo) <= e.tx_watermark => ("TDF" \in e.sr <=> Free(e.tx_fifo) >= 4)
      /\ Words(e, e.rx_fifo) > e.rx_watermark => ("RDF" \in e.sr <=> Len(e.rx_fifo) >= 4)
  BY StatusFields, Zenon
<1>4. /\ ~ (Words(e, e.tx_fifo) <= e.tx_watermark) <=> Words(e, e.tx_fifo) > e.tx_watermark
      /\ ~ (Words(e, e.rx_fifo) > e.rx_watermark) <=> Words(e, e.rx_fifo) <= e.rx_watermark
  <2>1. Words(e, e.tx_fifo) \in Nat /\ Words(e, e.rx_fifo) \in Nat
    BY WordCount, Zenon
  <2>2. e.tx_watermark \in Nat /\ e.rx_watermark \in Nat
    BY Zenon DEF Device
  <2> QED BY <2>1, <2>2
<1>5. /\ WantsData(e) => "TDF" \in e.sr
      /\ "TDF" \in e.sr /\ ~WantsData(e) =>
             "TDF" \in d.sr /\ Words(e, e.tx_fifo) > e.tx_watermark
  BY <1>3, <1>4, Zenon DEF WantsData, Kept
<1>6. /\ HasData(e) => "RDF" \in e.sr
      /\ "RDF" \in e.sr /\ ~HasData(e) =>
             "RDF" \in d.sr /\ Words(e, e.rx_fifo) <= e.rx_watermark
  BY <1>3, <1>4, Zenon DEF HasData, Kept
<1> QED BY <1>1, <1>2, <1>5, <1>6, Zenon

-----------------------------------------------------------------------------
(* The device. *)

\* What the properties rest on: the device is sound and its status fresh after
\* every access.
Inv == Good(s)

\* The frame sizes written to TCR are numbers.
LEMMA TcrWritten ==
    ASSUME WriteTCR
    PROVE  \E tcr : tcr.framesz \in Nat /\ s' \in write_TCR(s, tcr)
<1>1. PICK framesz \in FrameSize, cont \in BOOLEAN, rxmsk \in BOOLEAN :
          s' \in write_TCR(s, [framesz |-> framesz, cont |-> cont, rxmsk |-> rxmsk])
  BY Zenon DEF WriteTCR
<1>2. [framesz |-> framesz, cont |-> cont, rxmsk |-> rxmsk].framesz \in Nat
  BY LpspiAssumption
<1> QED BY <1>1, <1>2, Zenon

\* Every register access keeps it.
LEMMA NextKeeps == Inv /\ [Next]_s => Inv'
<1> SUFFICES ASSUME Good(s), [Next]_s PROVE Good(s')
  BY Zenon DEF Inv
<1>1. CASE Reset
  BY <1>1, ResetGood, Zenon DEF Reset
<1>2. CASE WriteCR
  BY <1>2, WriteCRGood, Zenon DEF WriteCR
<1>3. CASE WriteSR
  BY <1>3, WriteSRGood, Zenon DEF WriteSR
<1>4. CASE WriteTCR
  <2>1. PICK tcr : tcr.framesz \in Nat /\ s' \in write_TCR(s, tcr)
    BY <1>4, TcrWritten, Zenon
  <2> QED BY <2>1, WriteTCRGood, Zenon
<1>5. CASE WriteTDR
  BY <1>5, WriteTDRGood, Zenon DEF WriteTDR
<1>6. CASE WriteIER
  BY <1>6, WriteConfigGood, Zenon DEF WriteIER
<1>7. CASE WriteCFGR1
  BY <1>7, WriteConfigGood, Zenon DEF WriteCFGR1
<1>8. CASE WriteFCR
  <2>1. Watermark \subseteq Nat
    BY LpspiAssumption
  <2> QED BY <1>8, <2>1, WriteConfigGood, Zenon DEF WriteFCR
<1>9. CASE WriteOther
  BY <1>9, IrqKeeps, Zenon DEF WriteOther, Good
<1>10. CASE ReadRDR
  BY <1>10, ReadRDRGood, Zenon DEF ReadRDR
<1>11. CASE ReadOther
  BY <1>11, Zenon DEF ReadOther, Good, Fresh
<1>12. CASE s' = s
  BY <1>12, Zenon
<1> QED BY <1>1, <1>2, <1>3, <1>4, <1>5, <1>6, <1>7, <1>8, <1>9, <1>10, <1>11, <1>12, Zenon DEF Next

\* Inv holds in every state of the controller.
THEOREM Invariant == Spec => []Inv
<1>1. Init => Inv
  BY ResetGood, Zenon DEF Init, Inv
<1> QED BY <1>1, NextKeeps, PTL DEF Spec

\* No answer of the slave is lost and no FIFO is pushed beyond its capacity,
\* whatever the guest writes and reads and whatever the frame size: the two
\* guards at the start of lpspi_flush_txfifo are enough.
THEOREM NoneOverrun == Spec => []NoOverrun
<1>1. Inv => NoOverrun
  BY Zenon DEF Inv, Good, Safe, NoOverrun
<1> QED BY <1>1, Invariant, PTL

\* Every write accounts for what it changes of the flags and the line.
LEMMA NextStep ==
    ASSUME Inv, Next
    PROVE  \/ Reset
           \/ Stepped(s, s')
           \/ ReadRDR \/ ReadOther
<1>0. Device(s) /\ Safe(s)
  BY Zenon DEF Inv, Good
<1>1. CASE WriteCR
  BY <1>0, <1>1, WriteCRStep, Zenon DEF WriteCR
<1>2. ASSUME NEW c, Device(c), Plain(s, c), s' = lpspi_update_irq(c)
      PROVE  Stepped(s, s')
  <2>1. Kept(s, c) /\ Bracketed(s, c)
    BY <1>2, PlainStep, Zenon
  <2> QED BY <1>2, <2>1, WriteStep, Zenon
<1>3. CASE WriteSR
  <2>1. PICK flags : s' = write_SR(s, flags)
    BY <1>3, Zenon DEF WriteSR
  <2>2. PICK c : c = With(s, "sr", s.sr \ flags)
    BY Zenon
  <2>3. "REF" \notin s.sr \ flags /\ ("MBF" \in s.sr \ flags => s.busy)
    BY <1>0, Zenon DEF Safe
  <2>4. Device(c)
    BY <1>0, <2>2, <2>3, FlagsKeep, Zenon
  <2>5. ("TDF" \in s.sr \ flags => "TDF" \in s.sr) /\ ("RDF" \in s.sr \ flags => "RDF" \in s.sr)
    BY Zenon
  <2>6. Plain(s, c)
    BY <1>0, <2>2, <2>5, FlagsStep, Zenon
  <2>7. s' = lpspi_update_irq(c)
    BY <2>1, <2>2, Zenon DEF write_SR, With
  <2> QED BY <1>2, <2>4, <2>6, <2>7, Zenon
<1>4. CASE WriteTCR
  <2>1. PICK tcr : tcr.framesz \in Nat /\ s' \in write_TCR(s, tcr)
    BY <1>4, TcrWritten, Zenon
  <2>2. PICK c : c = With(s, "tcr", tcr) /\ Device(c) /\ Safe(c)
    BY <1>0, <2>1, ConfigKeeps, Zenon
  <2>3. Plain(s, c)
    <3>1. "tcr" \in Fields \ {"sr", "cs"}
      BY DEF Fields
    <3> QED BY <1>0, <2>2, <3>1, AssignStep, Zenon
  <2>4. c = [s EXCEPT !.tcr = tcr]
    BY <2>2, Zenon DEF With
  <2>5. PICK f : s' = lpspi_update_irq(f) /\ (f = c \/ f \in lpspi_flush_txfifo(c))
    BY <2>1, <2>4, Zenon DEF write_TCR
  <2>6. CASE f = c
    BY <1>2, <2>2, <2>3, <2>5, <2>6, Zenon
  <2>7. CASE f \in lpspi_flush_txfifo(c)
    BY <2>2, <2>3, <2>5, <2>7, SendStep, Zenon
  <2> QED BY <2>5, <2>6, <2>7, Zenon
<1>5. CASE WriteTDR
  <2>1. PICK word \in [1 .. BytesPerFrame(s.tcr) -> Byte] : s' \in write_TDR(s, word)
    BY <1>5, Zenon DEF WriteTDR
  <2>2. CASE ~s.men
    <3>1. s' = lpspi_update_irq(s)
      BY <2>1, <2>2, Zenon DEF write_TDR
    <3>2. Plain(s, s)
      BY Zenon DEF Plain
    <3> QED BY <1>0, <1>2, <3>1, <3>2, Zenon
  <2>3. CASE s.men /\ Free(s.tx_fifo) < BytesPerFrame(s.tcr)
    <3>1. PICK c : c = With(s, "sr", s.sr \cup {"TEF"})
      BY Zenon
    <3>2. s' = lpspi_update_irq(c)
      BY <2>1, <2>3, <3>1, Zenon DEF write_TDR, With
    <3>3. "REF" \notin s.sr \cup {"TEF"} /\ ("MBF" \in s.sr \cup {"TEF"} => s.busy)
      BY <1>0, Zenon DEF Safe
    <3>4. Device(c)
      BY <1>0, <3>1, <3>3, FlagsKeep, Zenon
    <3>5. /\ "TDF" \in s.sr \cup {"TEF"} => "TDF" \in s.sr
          /\ "RDF" \in s.sr \cup {"TEF"} => "RDF" \in s.sr
      BY Zenon
    <3>6. Plain(s, c)
      BY <1>0, <3>1, <3>5, FlagsStep, Zenon
    <3> QED BY <1>2, <3>2, <3>4, <3>6, Zenon
  <2>4. CASE s.men /\ ~ (Free(s.tx_fifo) < BytesPerFrame(s.tcr))
    <3>1. PICK q : q = s.tx_fifo \o word
      BY Zenon
    <3>2. q \in Seq(Byte) /\ Len(q) <= LPSPI_FIFO_BYTE_CAPACITY
      BY <1>0, <2>4, <3>1, Pushed, Zenon
    <3>3. PICK c : c = With(s, "tx_fifo", q) /\ Device(c) /\ Safe(c)
      BY <1>0, <3>2, FifoKeeps, Zenon
    <3>4. c = [s EXCEPT !.tx_fifo = s.tx_fifo \o word]
      BY <3>1, <3>3, Zenon DEF With
    <3>5. PICK f : s' = lpspi_update_irq(f) /\ f \in lpspi_flush_txfifo(c)
      BY <2>1, <2>4, <3>4, Zenon DEF write_TDR
    <3>6. Plain(s, c)
      <4>1. "tx_fifo" \in Fields \ {"sr", "cs"}
        BY DEF Fields
      <4> QED BY <1>0, <3>3, <4>1, AssignStep, Zenon
    <3> QED BY <3>3, <3>5, <3>6, SendStep, Zenon
  <2> QED BY <2>2, <2>3, <2>4, Zenon
<1>6. CASE WriteIER
  <2>1. PICK ier : s' = write_IER(s, ier)
    BY <1>6, Zenon DEF WriteIER
  <2>2. PICK c : c = With(s, "ier", ier) /\ Device(c)
    BY <1>0, PlainKeeps, Zenon
  <2>3. Plain(s, c)
    <3>1. "ier" \in Fields \ {"sr", "cs"}
      BY DEF Fields
    <3> QED BY <1>0, <2>2, <3>1, AssignStep, Zenon
  <2>4. s' = lpspi_update_irq(c)
    BY <2>1, <2>2, Zenon DEF write_IER, With
  <2> QED BY <1>2, <2>2, <2>3, <2>4, Zenon
<1>7. CASE WriteCFGR1
  <2>1. PICK loopback : s' = write_CFGR1(s, loopback)
    BY <1>7, Zenon DEF WriteCFGR1
  <2>2. PICK c : c = With(s, "loopback", loopback) /\ Device(c)
    BY <1>0, PlainKeeps, Zenon
  <2>3. Plain(s, c)
    <3>1. "loopback" \in Fields \ {"sr", "cs"}
      BY DEF Fields
    <3> QED BY <1>0, <2>2, <3>1, AssignStep, Zenon
  <2>4. s' = lpspi_update_irq(c)
    BY <2>1, <2>2, Zenon DEF write_CFGR1, With
  <2> QED BY <1>2, <2>2, <2>3, <2>4, Zenon
<1>8. CASE WriteFCR
  <2>1. PICK tx \in Watermark, rx \in Watermark : s' = write_FCR(s, tx, rx)
    BY <1>8, Zenon DEF WriteFCR
  <2>2. tx \in Nat /\ rx \in Nat
    BY LpspiAssumption
  <2>3. PICK a : a = With(s, "tx_watermark", tx) /\ Device(a) /\ Safe(a)
    BY <1>0, <2>2, ConfigKeeps, Zenon
  <2>4. PICK c : c = With(a, "rx_watermark", rx) /\ Device(c) /\ Safe(c)
    BY <2>2, <2>3, ConfigKeeps, Zenon
  <2>5. Plain(s, a) /\ Plain(a, c)
    <3>1. "tx_watermark" \in Fields \ {"sr", "cs"} /\ "rx_watermark" \in Fields \ {"sr", "cs"}
      BY DEF Fields
    <3> QED BY <1>0, <2>3, <2>4, <3>1, AssignStep, Zenon
  <2>6. Plain(s, c)
    BY <2>5, Zenon DEF Plain
  <2>7. s' = lpspi_update_irq(c)
    BY <2>1, <2>3, <2>4, Zenon DEF write_FCR, With
  <2> QED BY <1>2, <2>4, <2>6, <2>7, Zenon
<1>9. CASE WriteOther
  <2>1. Plain(s, s)
    BY Zenon DEF Plain
  <2> QED BY <1>0, <1>2, <1>9, <2>1, Zenon DEF WriteOther
<1> QED BY <1>1, <1>3, <1>4, <1>5, <1>6, <1>7, <1>8, <1>9, Zenon DEF Next

\* An access: what every one keeps, and what is left to a reset and to a read.
LEMMA AccessStep ==
    ASSUME Inv, Next
    PROVE  /\ Good(s')
           /\ Kept(s, s')
           /\ Reset \/ Bracketed(s, s')
           /\ (s'.irq => Pending(s')) \/ (s'.irq = s.irq /\ (ReadRDR \/ ReadOther))
<1>0. Good(s) /\ Good(s')
  BY NextKeeps, Zenon DEF Inv
<1>1. CASE Reset
  BY <1>0, <1>1, ResetStep, Zenon DEF Reset
<1>2. CASE Stepped(s, s')
  BY <1>0, <1>2, Zenon DEF Stepped
<1>3. CASE ReadRDR
  BY <1>0, <1>3, ReadStep, Zenon DEF ReadRDR
<1>4. CASE ReadOther
  <2>1. s' = s
    BY <1>0, <1>4, Zenon DEF ReadOther, Good, Fresh
  <2>2. Plain(s, s')
    BY <2>1, Zenon DEF Plain
  <2>3. Kept(s, s') /\ Bracketed(s, s')
    BY <2>2, PlainStep, Zenon
  <2>4. s'.irq = s.irq
    BY <2>1, Zenon
  <2> QED BY <1>0, <1>4, <2>3, <2>4, Zenon
<1> QED BY <1>1, <1>2, <1>3, <1>4, NextStep, Zenon

\* FSR, RSR, TDF and RDF tell of the present FIFOs after every access, no event
\* is missed, and a flag that outlives its condition is an old one whose FIFO
\* crossed the watermark.
THEOREM FlagsTold == Spec => FlagsTell
<1>1. ASSUME Inv, Next
      PROVE  /\ s'.fsr = [tx |-> Words(s', s'.tx_fifo), rx |-> Words(s', s'.rx_fifo)]
             /\ s'.rxempty <=> Words(s', s'.rx_fifo) = 0
             /\ WantsData(s') => "TDF" \in s'.sr
             /\ HasData(s') => "RDF" \in s'.sr
             /\ "TDF" \in s'.sr /\ ~WantsData(s') =>
                    "TDF" \in s.sr /\ Words(s', s'.tx_fifo) > s'.tx_watermark
             /\ "RDF" \in s'.sr /\ ~HasData(s') =>
                    "RDF" \in s.sr /\ Words(s', s'.rx_fifo) <= s'.rx_watermark
  <2>1. Device(s') /\ lpspi_update_status(s') = s' /\ Kept(s, s')
    BY <1>1, AccessStep, Zenon DEF Good, Fresh
  <2> QED BY <2>1, FlagsRead, Zenon
<1>2. Inv /\ [Next]_s =>
      [/\ s'.fsr = [tx |-> Words(s', s'.tx_fifo), rx |-> Words(s', s'.rx_fifo)]
       /\ s'.rxempty <=> Words(s', s'.rx_fifo) = 0
       /\ WantsData(s') => "TDF" \in s'.sr
       /\ HasData(s') => "RDF" \in s'.sr
       /\ "TDF" \in s'.sr /\ ~WantsData(s') =>
              "TDF" \in s.sr /\ Words(s', s'.tx_fifo) > s'.tx_watermark
       /\ "RDF" \in s'.sr /\ ~HasData(s') =>
              "RDF" \in s.sr /\ Words(s', s'.rx_fifo) <= s'.rx_watermark]_s
  BY <1>1, Zenon
<1> QED BY <1>2, Invariant, PTL DEF Spec, FlagsTell

\* The interrupt line is high whenever TDF or RDF is set and enabled, also after
\* a read of RDR, which does not look at the line; and a write never leaves it
\* high without one.
THEOREM LineShown == Spec => InterruptLine
<1>1. ASSUME Inv, Next
      PROVE  /\ Pending(s') => s'.irq
             /\ s'.irq /\ ~Pending(s') => s.irq /\ (ReadRDR \/ ReadOther)
  <2>1. Good(s') /\ ((s'.irq => Pending(s')) \/ (s'.irq = s.irq /\ (ReadRDR \/ ReadOther)))
    BY <1>1, AccessStep, Zenon
  <2>2. ~s'.irq => ~Pending(s')
    BY <2>1, Zenon DEF Good, Fresh
  <2> QED BY <2>1, <2>2, Zenon
<1>2. Inv /\ [Next]_s =>
      [/\ Pending(s') => s'.irq
       /\ s'.irq /\ ~Pending(s') => s.irq /\ (ReadRDR \/ ReadOther)]_s
  BY <1>1, Zenon
<1> QED BY <1>2, Invariant, PTL DEF Spec, InterruptLine

\* The chip select line rises for a frame sequence that goes on and falls, but
\* for a reset, only after its last frame.
THEOREM SelectBrackets == Spec => SelectBracketsFrames
<1>1. ASSUME Inv, Next
      PROVE  /\ s'.cs <=> s'.busy
             /\ ~s.cs /\ s'.cs => s'.tcr.cont \/ s'.tx_fifo # <<>>
             /\ s.cs /\ ~s'.cs =>
                    Reset \/ (~s'.tcr.cont /\ s'.tx_fifo = <<>> /\ "TCF" \in s'.sr)
  <2>1. Good(s') /\ (Reset \/ Bracketed(s, s'))
    BY <1>1, AccessStep, Zenon
  <2>2. s'.cs <=> s'.busy
    BY <2>1, Zenon DEF Good, Safe
  <2>3. CASE Reset
    <3>1. ~s'.cs
      BY <2>3, ResetStep, Zenon DEF Reset
    <3> QED BY <2>2, <2>3, <3>1, Zenon
  <2>4. CASE Bracketed(s, s')
    BY <2>2, <2>4, Zenon DEF Bracketed
  <2> QED BY <2>1, <2>3, <2>4, Zenon
<1>2. Inv /\ [Next]_s =>
      [/\ s'.cs <=> s'.busy
       /\ ~s.cs /\ s'.cs => s'.tcr.cont \/ s'.tx_fifo # <<>>
       /\ s.cs /\ ~s'.cs =>
              Reset \/ (~s'.tcr.cont /\ s'.tx_fifo = <<>> /\ "TCF" \in s'.sr)]_s
  BY <1>1, Zenon
<1> QED BY <1>2, Invariant, PTL DEF Spec, SelectBracketsFrames

=============================================================================
