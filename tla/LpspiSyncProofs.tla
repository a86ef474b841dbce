-------------------------- MODULE LpspiSyncProofs ---------------------------
(***************************************************************************)
(* Proofs about LpspiSync for every set of tasks, every size of the FIFOs,  *)
(* transfers of any number of frames and every timeout.                    *)
(***************************************************************************)
EXTENDS LpspiSync, Integers, TLAPS

Fields == {"men", "sr", "ier", "tcr", "loopback", "tx_watermark", "rx_watermark", "tx_fifo",
           "rx_fifo", "fsr", "rxempty", "busy", "cs", "irq"}

Record(d) == d = [f \in Fields |-> d[f]]

Size == {8, 16, 32}

\* The driver's controller: it never turns the loopback on.
Ours(d) == Record(d) /\ d.loopback = FALSE

\* A controller between two accesses of a transfer: on, nothing to send, q
\* received, no error.
Opened(d, q) ==
    /\ Ours(d)
    /\ d.men = TRUE
    /\ d.tx_fifo = <<>> /\ d.rx_fifo = q
    /\ "TEF" \notin d.sr /\ "REF" \notin d.sr

\* With frames of size sz, and the count of received ones up to date.
Ready(d, sz, q) ==
    /\ Opened(d, q)
    /\ d.tcr = TransferCommand(sz)
    /\ d.fsr.rx = Len(q) \div (sz \div 8)

\* The n values of g after the first i.
Stream(g, i, n) == [k \in 1 .. n |-> g[i + k]]

\* The bytes of a frame, the bytes of a transfer, and those of its frames after
\* the first a up to the first b.
Width(j) == j.framesz \div 8

Bytes(j) ==
    [n \in Nat |-> <<j.by, j.turn, (n - 1) \div Width(j), ((n - 1) % Width(j)) + 1>>]

Part(j, a, b) == Stream(Bytes(j), a * Width(j), (b - a) * Width(j))

StateFields == {"CurrentTxFifoSlot", "TxIndex", "RxIndex", "RxBuffer", "CONT"}

\* The slot of the command: not given back before frames were received.
Owed(p) == IF State.RxIndex > 0 \/ (p = "receive" /\ todo > 0) THEN 0 ELSE 1

\* Where the frames of transfer j are: received and read, waiting in the RX
\* FIFO of d, or not sent yet.  The driver's count of slots is the room that is
\* left.
Flow(d, s, j, owed) ==
    /\ s.RxIndex \in Nat /\ s.TxIndex \in Nat
    /\ s.RxIndex <= s.TxIndex /\ s.TxIndex <= j.frames
    /\ s.CurrentTxFifoSlot \in Nat
    /\ s.CurrentTxFifoSlot + (s.TxIndex - s.RxIndex) + owed = LPSPI_IP_FIFO_SIZE_U8
    /\ s.RxBuffer = Part(j, 0, s.RxIndex)
    /\ Ready(d, j.framesz, Part(j, s.RxIndex, s.TxIndex))

Underway(p) == Flow(dev, State, job, Owed(p))

\* What the for statements still have to do, and why there is progress in
\* every turn of the loop.
Progress(p) ==
    /\ p = "receive" =>
           /\ todo = State.TxIndex - State.RxIndex
           /\ Elapsed = 0 \/ (todo = 0 /\ State.TxIndex < job.frames)
    /\ p = "send" =>
           /\ todo \in Nat /\ todo <= State.CurrentTxFifoSlot
           /\ todo <= job.frames - State.TxIndex
           /\ Elapsed = 0 \/ todo > 0
    /\ p \in {"clear", "elapse"} => Elapsed = 0

At(p) ==
    /\ p = "setup" => State.CurrentTxFifoSlot = LPSPI_IP_FIFO_SIZE_U8
    /\ p = "command" => State.CurrentTxFifoSlot = LPSPI_IP_FIFO_SIZE_U8 /\ Opened(dev, <<>>)
    /\ p \in Exchanging => Underway(p) /\ Progress(p)

Places == {"idle", "begin", "setup", "command"} \cup Exchanging

\* The caller inside SyncTransmit, if there is one.
Control ==
    /\ pc \in [Caller -> Places]
    /\ \A c, d \in Caller : pc[c] # "idle" /\ pc[d] # "idle" => c = d
    /\ Status = "BUSY" <=> \E c \in Caller : pc[c] # "idle"

Types ==
    /\ DOMAIN State = StateFields
    /\ job.framesz \in Size /\ job.frames \in Nat /\ job.timeout \in Nat \ {0}
    /\ Ours(dev)

Ended ==
    /\ Status = "FAULT" => job.timeout = 1
    /\ Status = "IDLE" /\ job.frames > 0 => State.RxBuffer = Sent(job)

Inv ==
    /\ Control
    /\ Types
    /\ Ended
    /\ \A c \in Caller : At(pc[c])

-----------------------------------------------------------------------------
(* The accesses of the driver to the controller. *)

With(d, f, v) == [d EXCEPT ![f] = v]

Assigns(d, g, v, e) ==
    Record(e) /\ e[g] = v /\ \A f \in Fields \ {g} : e[f] = d[f]

\* A field is assigned.
LEMMA Assigned ==
    ASSUME NEW d, Record(d), NEW g \in Fields, NEW v
    PROVE  Assigns(d, g, v, With(d, g, v))
<1>1. DOMAIN d = Fields
  BY Zenon DEF Record
<1> QED BY <1>1, Zenon DEF Record, With, Assigns

\* The fields that only the accesses of the guest and the exchange of a frame
\* change.
Plain == Fields \ {"fsr", "sr", "rxempty", "irq"}

\* What an update of the status leaves alone, and the count of frames it makes.
Updated(d, e) ==
    /\ Record(e)
    /\ \A f \in Plain : e[f] = d[f]
    /\ ("TEF" \in e.sr <=> "TEF" \in d.sr) /\ ("REF" \in e.sr <=> "REF" \in d.sr)
    /\ e.fsr.rx = Dev!Words(d, d.rx_fifo)

\* lpspi_update_status touches the counts and the flags of the FIFOs.
LEMMA StatusUpdates ==
    ASSUME NEW d, Record(d)
    PROVE  Updated(d, Dev!lpspi_update_status(d))
<1> DEFINE tx == Dev!Words(d, d.tx_fifo)
           rx == Dev!Words(d, d.rx_fifo)
           tdf == IF tx <= d.tx_watermark
                  THEN Dev!SetFlag(d.sr, "TDF", Dev!Free(d.tx_fifo) >= 4) ELSE d.sr
           rdf == IF rx > d.rx_watermark
                  THEN Dev!SetFlag(tdf, "RDF", Len(d.rx_fifo) >= 4) ELSE tdf
<1>1. PICK e : e = Dev!lpspi_update_status(d)
  BY Zenon
<1>2. e = With(With(With(d, "fsr", [tx |-> tx, rx |-> rx]), "sr", rdf), "rxempty", rx = 0)
  BY <1>1, Zenon DEF Dev!lpspi_update_status, With
<1>3. /\ Record(e)
      /\ \A f \in Fields \ {"fsr", "sr", "rxempty"} : e[f] = d[f]
      /\ e.fsr = [tx |-> tx, rx |-> rx] /\ e.sr = rdf
  <2> HIDE DEF tx, rx, tdf, rdf
  <2>1. /\ "fsr" \in Fields /\ "sr" \in Fields /\ "rxempty" \in Fields
        /\ "sr" # "fsr" /\ "sr" # "rxempty" /\ "fsr" # "rxempty"
    BY Zenon DEF Fields
  <2>2. PICK a : a = With(d, "fsr", [tx |-> tx, rx |-> rx])
    BY Zenon
  <2>3. PICK b : b = With(a, "sr", rdf)
    BY Zenon
  <2>4. PICK z : z = (rx = 0)
    BY Zenon
  <2>5. e = With(b, "rxempty", z)
    BY <1>2, <2>2, <2>3, <2>4, Zenon
  <2>6. Assigns(d, "fsr", [tx |-> tx, rx |-> rx], a) /\ Record(a)
    <3>1. Assigns(d, "fsr", [tx |-> tx, rx |-> rx], a)
      BY <2>1, <2>2, Assigned, Zenon
    <3> QED BY <3>1, Zenon DEF Assigns
  <2>7. Assigns(a, "sr", rdf, b) /\ Record(b)
    <3>1. Assigns(a, "sr", rdf, b)
      BY <2>1, <2>3, <2>6, Assigned, Zenon
    <3> QED BY <3>1, Zenon DEF Assigns
  <2>8. Assigns(b, "rxempty", z, e)
    BY <2>1, <2>5, <2>7, Assigned, Zenon
  <2> QED BY <2>1, <2>6, <2>7, <2>8, Zenon DEF Assigns
<1>4. ("TEF" \in rdf <=> "TEF" \in d.sr) /\ ("REF" \in rdf <=> "REF" \in d.sr)
  BY Zenon DEF Dev!SetFlag
<1>5. e.fsr.rx = rx
  <2> HIDE DEF tx, rx, rdf
  <2>1. e.fsr = [tx |-> tx, rx |-> rx]
    BY <1>3, Zenon
  <2> QED BY <2>1
<1>6. \A f \in Plain : e[f] = d[f]
  BY <1>3, Zenon DEF Plain
<1> QED BY <1>1, <1>3, <1>4, <1>5, <1>6, Zenon DEF Updated

\* lpspi_update_irq does so too, and sets the line.
LEMMA IrqUpdates ==
    ASSUME NEW d, Record(d)
    PROVE  Updated(d, Dev!lpspi_update_irq(d))
<1>1. PICK c : c = Dev!lpspi_update_status(d) /\ Updated(d, c)
  BY StatusUpdates, Zenon
<1>2. PICK e : e = Dev!lpspi_update_irq(d)
  BY Zenon
<1>3. e = With(c, "irq", Dev!Pending(c))
  BY <1>1, <1>2, Zenon DEF Dev!lpspi_update_irq, With
<1>4. Record(e) /\ \A f \in Fields \ {"irq"} : e[f] = c[f]
  <2>1. "irq" \in Fields /\ Record(c)
    BY <1>1, Zenon DEF Fields, Updated
  <2>2. PICK v : v = Dev!Pending(c)
    BY Zenon
  <2>3. e = With(c, "irq", v)
    BY <1>3, <2>2, Zenon
  <2>4. Assigns(c, "irq", v, With(c, "irq", v))
    BY <2>1, Assigned, Zenon
  <2> QED BY <2>3, <2>4, Zenon DEF Assigns
<1>5. e.sr = c.sr /\ e.fsr = c.fsr /\ \A f \in Plain : e[f] = c[f]
  <2>1. "sr" \in Fields \ {"irq"} /\ "fsr" \in Fields \ {"irq"}
    BY Zenon DEF Fields
  <2> QED BY <1>4, <2>1, Zenon DEF Plain
<1> QED BY <1>1, <1>2, <1>4, <1>5, Zenon DEF Updated

\* The fields a transfer depends on are plain.
LEMMA PlainOnes ==
    {"men", "tcr", "loopback", "tx_fifo", "rx_fifo", "tx_watermark", "rx_watermark", "ier"}
        \subseteq Plain
BY Zenon DEF Plain, Fields

\* A controller stays opened, or ours, when its status is brought up to date.
LEMMA UpdateKeeps ==
    ASSUME NEW d, NEW e, Updated(d, e)
    PROVE  /\ Ours(d) => Ours(e)
           /\ \A q : Opened(d, q) => Opened(e, q)
           /\ e.tcr = d.tcr
<1>1. /\ e.men = d.men /\ e.tcr = d.tcr /\ e.loopback = d.loopback
      /\ e.tx_fifo = d.tx_fifo /\ e.rx_fifo = d.rx_fifo
  <2>1. \A f \in Plain : e[f] = d[f]
    BY Zenon DEF Updated
  <2> QED BY <2>1, PlainOnes, Zenon
<1>2. Ours(d) => Ours(e)
  BY <1>1, Zenon DEF Ours, Updated
<1> QED BY <1>1, <1>2, Zenon DEF Opened, Updated

\* The length of a word of the driver's frame sizes, to driver and controller.
LEMMA WordLength ==
    ASSUME NEW sz \in Size
    PROVE  sz \div 8 \in {1, 2, 4} /\ Dev!BytesPerFrame(TransferCommand(sz)) = sz \div 8
<1>1. CASE sz = 8
  BY <1>1 DEF Dev!BytesPerFrame, TransferCommand
<1>2. CASE sz = 16
  BY <1>2 DEF Dev!BytesPerFrame, TransferCommand
<1>3. CASE sz = 32
  BY <1>3 DEF Dev!BytesPerFrame, TransferCommand
<1> QED BY <1>1, <1>2, <1>3, Zenon DEF Size

\* The count of received frames after an update.
LEMMA UpdateReady ==
    ASSUME NEW d, NEW e, Updated(d, e), NEW sz \in Size, NEW q,
           Opened(d, q), d.tcr = TransferCommand(sz)
    PROVE  Ready(e, sz, q)
<1>1. Opened(e, q) /\ e.tcr = TransferCommand(sz)
  BY UpdateKeeps, Zenon
<1>2. e.fsr.rx = Len(q) \div (sz \div 8)
  <2>1. e.fsr.rx = Dev!Words(d, q)
    BY Zenon DEF Updated, Opened
  <2>2. Dev!BytesPerFrame(d.tcr) = sz \div 8 /\ sz \div 8 # 0
    BY WordLength
  <2> QED BY <2>1, <2>2, Zenon DEF Dev!Words
<1> QED BY <1>1, <1>2, Zenon DEF Ready

\* A field is assigned the value it has.
LEMMA Reassigned ==
    ASSUME NEW d, Record(d), NEW g \in Fields
    PROVE  With(d, g, d[g]) = d
<1>1. DOMAIN d = Fields
  BY Zenon DEF Record
<1> QED BY <1>1, Zenon DEF Record, With

\* A field other than the status is written, the status may change with it.
Wrote(d, g, v, e) ==
    /\ Record(e) /\ e[g] = v
    /\ \A f \in Plain \ {g} : e[f] = d[f]
    /\ ("TEF" \in e.sr <=> "TEF" \in d.sr) /\ ("REF" \in e.sr <=> "REF" \in d.sr)

\* A write of a register: the field g, then the status.
LEMMA FieldWritten ==
    ASSUME NEW d, Record(d), NEW g \in Plain, NEW v
    PROVE  Wrote(d, g, v, Dev!lpspi_update_irq(With(d, g, v)))
<1>0. PICK e : e = Dev!lpspi_update_irq(With(d, g, v))
  BY Zenon
<1>1. PICK c : c = With(d, g, v)
  BY Zenon
<1>2. /\ Record(c) /\ c[g] = v
      /\ \A f \in Fields \ {g} : c[f] = d[f]
  <2>1. g \in Fields
    BY Zenon DEF Plain
  <2>2. Assigns(d, g, v, With(d, g, v))
    BY <2>1, Assigned, Zenon
  <2> QED BY <1>1, <2>2, Zenon DEF Assigns
<1>3. c.sr = d.sr
  <2>1. "sr" \in Fields \ {g}
    BY Zenon DEF Plain, Fields
  <2> QED BY <1>2, <2>1, Zenon
<1>4. Updated(c, e)
  BY <1>0, <1>1, <1>2, IrqUpdates, Zenon
<1>5. /\ Record(e) /\ \A f \in Plain : e[f] = c[f]
      /\ ("TEF" \in e.sr <=> "TEF" \in c.sr) /\ ("REF" \in e.sr <=> "REF" \in c.sr)
  BY <1>4, Zenon DEF Updated
<1>6. \A f \in Plain \ {g} : e[f] = d[f]
  BY <1>2, <1>5, Zenon DEF Plain
<1> QED BY <1>0, <1>2, <1>3, <1>5, <1>6, Zenon DEF Wrote

\* Writes of CR that reset no FIFO, of IER and of CFGR1 set one field.
LEMMA Writes ==
    ASSUME NEW d, Record(d), NEW v
    PROVE  /\ Dev!write_CR(d, v, FALSE, FALSE) = Dev!lpspi_update_irq(With(d, "men", v))
           /\ Dev!write_IER(d, v) = Dev!lpspi_update_irq(With(d, "ier", v))
           /\ Dev!write_CFGR1(d, v) = Dev!lpspi_update_irq(With(d, "loopback", v))
<1>1. Dev!write_CR(d, v, FALSE, FALSE) = Dev!lpspi_update_irq(With(d, "men", v))
  <2>1. DOMAIN d = Fields /\ d = [f \in Fields |-> d[f]]
    BY Zenon DEF Record
  <2>2. /\ "tx_fifo" \in Fields /\ "sr" \in Fields /\ "rx_fifo" \in Fields
        /\ "rxempty" \in Fields /\ "men" \in Fields
    BY Zenon DEF Fields
  <2>3. Dev!write_CR(d, v, FALSE, FALSE) = Dev!lpspi_update_irq(
            With(With(With(With(With(d, "tx_fifo", d.tx_fifo), "sr", d.sr), "rx_fifo", d.rx_fifo),
                      "rxempty", d.rxempty), "men", v))
    BY <2>1, <2>2, Zenon DEF Dev!write_CR, With
  <2>4. /\ With(d, "tx_fifo", d.tx_fifo) = d /\ With(d, "sr", d.sr) = d
        /\ With(d, "rx_fifo", d.rx_fifo) = d /\ With(d, "rxempty", d.rxempty) = d
    BY <2>2, Reassigned, Zenon
  <2> QED BY <2>3, <2>4, Zenon
<1>2. /\ Dev!write_IER(d, v) = Dev!lpspi_update_irq(With(d, "ier", v))
      /\ Dev!write_CFGR1(d, v) = Dev!lpspi_update_irq(With(d, "loopback", v))
  BY Zenon DEF Dev!write_IER, Dev!write_CFGR1, With
<1> QED BY <1>1, <1>2, Zenon

\* The controller out of reset.
LEMMA ResetState ==
    ASSUME NEW e, e = Dev!nxps32k358_lpspi_do_reset
    PROVE  /\ Ours(e) /\ e.tx_fifo = <<>> /\ e.rx_fifo = <<>>
           /\ "TEF" \notin e.sr /\ "REF" \notin e.sr
<1>1. PICK r : r =
        [men |-> FALSE, sr |-> {"TDF", "TCF"}, ier |-> {},
         tcr |-> [framesz |-> 32, cont |-> FALSE, rxmsk |-> FALSE], loopback |-> FALSE,
         tx_watermark |-> 0, rx_watermark |-> 0, tx_fifo |-> <<>>, rx_fifo |-> <<>>,
         fsr |-> [tx |-> 0, rx |-> 0], rxempty |-> TRUE, busy |-> FALSE, cs |-> FALSE,
         irq |-> FALSE]
  BY Zenon
<1>2. Record(r)
  <2>1. DOMAIN r = Fields
    BY <1>1, Zenon DEF Fields
  <2>2. r = [f \in DOMAIN r |-> r[f]]
    BY <1>1, Zenon
  <2> QED BY <2>1, <2>2, Zenon DEF Record
<1>3. r.tx_fifo = <<>> /\ r.rx_fifo = <<>> /\ r.sr = {"TDF", "TCF"} /\ r.loopback = FALSE
  BY <1>1, Zenon
<1>4. "TEF" \notin {"TDF", "TCF"} /\ "REF" \notin {"TDF", "TCF"}
  BY Zenon
<1>5. Updated(r, e)
  BY <1>1, <1>2, IrqUpdates, Zenon DEF Dev!nxps32k358_lpspi_do_reset
<1>6. \A f \in Plain : e[f] = r[f]
  BY <1>5, Zenon DEF Updated
<1>7. e.tx_fifo = <<>> /\ e.rx_fifo = <<>> /\ e.loopback = FALSE
  BY <1>3, <1>6, PlainOnes, Zenon
<1> QED BY <1>3, <1>4, <1>5, <1>7, Zenon DEF Ours, Updated

\* Lpspi_TransmitTxInit opens the controller, whatever state it was left in.
LEMMA SetupOpens ==
    ASSUME NEW d, Ours(d), NEW off, off = Dev!write_CR(d, FALSE, FALSE, FALSE),
           NEW fresh, fresh = Lpspi_ErrataHandle(off)
    PROVE  Opened(Dev!write_CR(Dev!write_SR(fresh, fresh.sr), TRUE, FALSE, FALSE), <<>>)
<1>1. Record(off) /\ off.loopback = FALSE
  <2>1. PICK v : v = FALSE
    BY Zenon
  <2>2. off = Dev!lpspi_update_irq(With(d, "men", v)) /\ Record(d)
    BY <2>1, Writes, Zenon DEF Ours
  <2>3. "men" \in Plain /\ "loopback" \in Plain \ {"men"}
    BY Zenon DEF Plain, Fields
  <2>4. Wrote(d, "men", v, off)
    BY <2>2, <2>3, FieldWritten, Zenon
  <2> QED BY <2>3, <2>4, Zenon DEF Ours, Wrote
<1>2. PICK r : r = Dev!nxps32k358_lpspi_do_reset
  BY Zenon
<1>3. /\ Record(r) /\ r.loopback = FALSE /\ r.tx_fifo = <<>> /\ r.rx_fifo = <<>>
      /\ "TEF" \notin r.sr /\ "REF" \notin r.sr
  BY <1>2, ResetState, Zenon DEF Ours
<1>4. PICK v : v = FALSE
  BY Zenon
<1>5. PICK a : a = Dev!lpspi_update_irq(With(r, "men", v))
  BY Zenon
<1>6. fresh = Dev!lpspi_update_irq(With(a, "loopback", v))
  <2>1. fresh = Dev!write_CFGR1(Dev!write_CR(r, v, FALSE, FALSE), off.loopback)
    BY <1>2, <1>4, Zenon DEF Lpspi_ErrataHandle
  <2>2. Dev!write_CR(r, v, FALSE, FALSE) = a
    BY <1>3, <1>5, Writes, Zenon
  <2>3. Record(a)
    <3>1. "men" \in Plain
      BY PlainOnes, Zenon
    <3>2. Wrote(r, "men", v, a)
      BY <1>3, <1>5, <3>1, FieldWritten, Zenon
    <3> QED BY <3>2, Zenon DEF Wrote
  <2>4. Dev!write_CFGR1(a, v) = Dev!lpspi_update_irq(With(a, "loopback", v))
    BY <2>3, Writes, Zenon
  <2> QED BY <1>1, <1>4, <2>1, <2>2, <2>4, Zenon
<1>7. /\ Record(a) /\ a.tx_fifo = <<>> /\ a.rx_fifo = <<>>
      /\ "TEF" \notin a.sr /\ "REF" \notin a.sr
  <2>1. "men" \in Plain /\ "tx_fifo" \in Plain \ {"men"} /\ "rx_fifo" \in Plain \ {"men"}
    BY Zenon DEF Plain, Fields
  <2>2. Wrote(r, "men", v, a)
    BY <1>3, <1>5, <2>1, FieldWritten, Zenon
  <2> QED BY <1>3, <2>1, <2>2, Zenon DEF Wrote
<1>8. /\ Record(fresh) /\ fresh.loopback = FALSE /\ fresh.tx_fifo = <<>> /\ fresh.rx_fifo = <<>>
      /\ "TEF" \notin fresh.sr /\ "REF" \notin fresh.sr
  <2>1. /\ "loopback" \in Plain /\ "tx_fifo" \in Plain \ {"loopback"}
        /\ "rx_fifo" \in Plain \ {"loopback"}
    BY Zenon DEF Plain, Fields
  <2>2. Wrote(a, "loopback", v, fresh)
    BY <1>6, <1>7, <2>1, FieldWritten, Zenon
  <2> QED BY <1>4, <1>7, <2>1, <2>2, Zenon DEF Wrote
<1>9. PICK b : b = Dev!write_SR(fresh, fresh.sr)
  BY Zenon
<1>10. /\ Record(b) /\ b.loopback = FALSE /\ b.tx_fifo = <<>> /\ b.rx_fifo = <<>>
       /\ "TEF" \notin b.sr /\ "REF" \notin b.sr
  <2>1. PICK c : c = With(fresh, "sr", fresh.sr \ fresh.sr)
    BY Zenon
  <2>2. b = Dev!lpspi_update_irq(c)
    BY <1>9, <2>1, Zenon DEF Dev!write_SR, With
  <2>3. "sr" \in Fields /\ "loopback" \in Fields \ {"sr"} /\ "tx_fifo" \in Fields \ {"sr"}
        /\ "rx_fifo" \in Fields \ {"sr"}
    BY Zenon DEF Fields
  <2>4. Assigns(fresh, "sr", fresh.sr \ fresh.sr, With(fresh, "sr", fresh.sr \ fresh.sr))
    BY <1>8, <2>3, Assigned, Zenon
  <2>5. /\ Record(c) /\ c.loopback = FALSE /\ c.tx_fifo = <<>> /\ c.rx_fifo = <<>>
        /\ "TEF" \notin c.sr /\ "REF" \notin c.sr
    BY <1>8, <2>1, <2>3, <2>4, Zenon DEF Assigns
  <2>6. Updated(c, b)
    BY <2>2, <2>5, IrqUpdates, Zenon
  <2> QED BY <2>5, <2>6, PlainOnes, Zenon DEF Updated
<1>11. PICK t : t = TRUE
  BY Zenon
<1>12. PICK e : e = Dev!lpspi_update_irq(With(b, "men", t))
  BY Zenon
<1>13. Dev!write_CR(Dev!write_SR(fresh, fresh.sr), TRUE, FALSE, FALSE) = e
  BY <1>9, <1>10, <1>11, <1>12, Writes, Zenon
<1>14. Opened(e, <<>>)
  <2>1. /\ "men" \in Plain /\ "tx_fifo" \in Plain \ {"men"} /\ "rx_fifo" \in Plain \ {"men"}
        /\ "loopback" \in Plain \ {"men"}
    BY Zenon DEF Plain, Fields
  <2>2. Wrote(b, "men", t, e)
    BY <1>10, <1>12, <2>1, FieldWritten, Zenon
  <2> QED BY <1>10, <1>11, <2>1, <2>2, Zenon DEF Opened, Ours, Wrote
<1> QED BY <1>13, <1>14, Zenon

\* A write of TCR with an empty TX FIFO exchanges nothing.
LEMMA CommandReady ==
    ASSUME NEW d, NEW q, Opened(d, q), NEW sz \in Size,
           NEW e \in Dev!write_TCR(d, TransferCommand(sz))
    PROVE  Ready(e, sz, q)
<1>1. PICK c : c = With(d, "tcr", TransferCommand(sz))
  BY Zenon
<1>2. e = Dev!lpspi_update_irq(c)
  <2>1. d.tx_fifo = <<>>
    BY Zenon DEF Opened
  <2> QED BY <1>1, <2>1, Zenon DEF Dev!write_TCR, With
<1>3. /\ "tcr" \in Fields /\ "sr" \in Fields \ {"tcr"} /\ "men" \in Fields \ {"tcr"}
      /\ "loopback" \in Fields \ {"tcr"} /\ "tx_fifo" \in Fields \ {"tcr"}
      /\ "rx_fifo" \in Fields \ {"tcr"}
  BY Zenon DEF Fields
<1>4. Record(d)
  BY Zenon DEF Opened, Ours
<1>5. Assigns(d, "tcr", TransferCommand(sz), With(d, "tcr", TransferCommand(sz)))
  BY <1>3, <1>4, Assigned, Zenon
<1>6. Opened(c, q) /\ c.tcr = TransferCommand(sz) /\ Record(c)
  BY <1>1, <1>3, <1>5, Zenon DEF Assigns, Opened, Ours
<1>7. Updated(c, e)
  BY <1>2, <1>6, IrqUpdates, Zenon
<1> QED BY <1>6, <1>7, UpdateReady, Zenon

\* A write of IER leaves the controller the driver's.
LEMMA MaskOurs ==
    ASSUME NEW d, Ours(d), NEW v
    PROVE  Ours(Dev!write_IER(d, v))
<1>1. PICK e : e = Dev!lpspi_update_irq(With(d, "ier", v))
  BY Zenon
<1>2. Record(d) /\ "ier" \in Plain /\ "loopback" \in Plain \ {"ier"}
  BY Zenon DEF Ours, Plain, Fields
<1>3. Wrote(d, "ier", v, e)
  BY <1>1, <1>2, FieldWritten, Zenon
<1>4. Ours(e)
  BY <1>2, <1>3, Zenon DEF Wrote, Ours
<1> QED BY <1>1, <1>2, <1>4, Writes, Zenon

\* A read of the status changes nothing a transfer depends on.
LEMMA StatusReady ==
    ASSUME NEW d, NEW sz \in Size, NEW q, Ready(d, sz, q)
    PROVE  Ready(Dev!lpspi_update_status(d), sz, q)
<1>1. Opened(d, q) /\ d.tcr = TransferCommand(sz) /\ Record(d)
  BY Zenon DEF Ready, Opened, Ours
<1>2. Updated(d, Dev!lpspi_update_status(d))
  BY <1>1, StatusUpdates, Zenon
<1> QED BY <1>1, <1>2, UpdateReady, Zenon

\* A read of RDR takes the first frame out of the RX FIFO.
LEMMA ReadTakes ==
    ASSUME NEW d, NEW sz \in Size, NEW q, Ready(d, sz, q), Len(q) \in Nat, sz \div 8 <= Len(q)
    PROVE  /\ Dev!RDR(d) = SubSeq(q, 1, sz \div 8)
           /\ Ready(Dev!read_RDR(d), sz, SubSeq(q, (sz \div 8) + 1, Len(q)))
<1>1. PICK w \in {1, 2, 4} : w = sz \div 8
  BY WordLength, Zenon
<1>2. /\ Opened(d, q) /\ d.tcr = TransferCommand(sz) /\ Record(d) /\ d.rx_fifo = q
      /\ Dev!BytesPerFrame(d.tcr) = w
  BY <1>1, WordLength, Zenon DEF Ready, Opened, Ours
<1>3. Dev!FrontLen(d) = w
  <2>1. ~ (Len(q) < w)
    BY <1>1
  <2> QED BY <1>2, <2>1, Zenon DEF Dev!FrontLen
<1>4. PICK c : c = Dev!lpspi_update_status(d)
  BY Zenon
<1>5. Ready(c, sz, q)
  BY <1>4, StatusReady, Zenon
<1>6. /\ Opened(c, q) /\ c.tcr = TransferCommand(sz) /\ Record(c) /\ c.rx_fifo = q
  BY <1>5, Zenon DEF Ready, Opened, Ours
<1>7. PICK r : r = SubSeq(q, w + 1, Len(q))
  BY Zenon
<1>8. PICK b : b = With(c, "rx_fifo", r)
  BY Zenon
<1>9. Dev!read_RDR(d) = Dev!lpspi_update_status(b)
  BY <1>3, <1>4, <1>6, <1>7, <1>8, Zenon DEF Dev!read_RDR, With
<1>10. Opened(b, r) /\ b.tcr = TransferCommand(sz) /\ Record(b)
  <2>1. /\ "rx_fifo" \in Fields /\ "sr" \in Fields \ {"rx_fifo"} /\ "men" \in Fields \ {"rx_fifo"}
        /\ "loopback" \in Fields \ {"rx_fifo"} /\ "tx_fifo" \in Fields \ {"rx_fifo"}
        /\ "tcr" \in Fields \ {"rx_fifo"}
    BY Zenon DEF Fields
  <2>2. Assigns(c, "rx_fifo", r, With(c, "rx_fifo", r))
    BY <1>6, <2>1, Assigned, Zenon
  <2> QED BY <1>6, <1>8, <2>1, <2>2, Zenon DEF Assigns, Opened, Ours
<1>11. Updated(b, Dev!lpspi_update_status(b))
  BY <1>10, StatusUpdates, Zenon
<1>12. Ready(Dev!lpspi_update_status(b), sz, r)
  BY <1>10, <1>11, UpdateReady, Zenon
<1> QED BY <1>1, <1>2, <1>3, <1>7, <1>9, <1>12, Zenon DEF Dev!RDR

\* The FIFOs hold two frames at least.
LEMMA Capacity == LPSPI_IP_FIFO_SIZE_U8 \in Nat /\ LPSPI_IP_FIFO_SIZE_U8 >= 2
BY SyncAssumption

\* A word written into the empty TX FIFO, w bytes long, with room for the answer.
LEMMA WordExchanged ==
    ASSUME NEW d, NEW sz \in Size, NEW q, Opened(d, q), d.tcr = TransferCommand(sz),
           NEW word, SubSeq(word, (sz \div 8) + 1, Len(word)) = <<>>,
           Len(q) + (sz \div 8) <= 4 * LPSPI_IP_FIFO_SIZE_U8,
           SubSeq(q \o word, 1, Len(q) + (sz \div 8)) = q \o word
    PROVE  /\ Opened(Dev!Exchange(With(d, "tx_fifo", word), word), q \o word)
           /\ Dev!Exchange(With(d, "tx_fifo", word), word).tcr = TransferCommand(sz)
<1>0. PICK w : w = sz \div 8
  BY Zenon
<1>1. /\ "tx_fifo" \in Fields /\ "rx_fifo" \in Fields /\ "sr" \in Fields /\ "cs" \in Fields
      /\ "busy" \in Fields /\ "men" \in Fields /\ "tcr" \in Fields /\ "loopback" \in Fields
  BY Zenon DEF Fields
<1>2. PICK c : c = With(d, "tx_fifo", word) /\ Assigns(d, "tx_fifo", word, c)
  <2>1. Record(d)
    BY Zenon DEF Opened, Ours
  <2>2. Assigns(d, "tx_fifo", word, With(d, "tx_fifo", word))
    BY <1>1, <2>1, Assigned, Zenon
  <2> QED BY <2>2, Zenon
<1>3. /\ Record(c) /\ c.men = TRUE /\ c.loopback = FALSE /\ c.tcr = TransferCommand(sz)
      /\ c.tx_fifo = word /\ c.rx_fifo = q /\ "TEF" \notin c.sr /\ "REF" \notin c.sr
  BY <1>1, <1>2, Zenon DEF Opened, Ours, Assigns
<1>4. Dev!BytesPerFrame(c.tcr) = w /\ c.tcr.rxmsk = FALSE
  <2>1. TransferCommand(sz).rxmsk = FALSE
    BY Zenon DEF TransferCommand
  <2> QED BY <1>0, <1>3, <2>1, WordLength, Zenon
<1>x. PICK x : x = Dev!Exchange(c, word)
  BY Zenon
<1> DEFINE opens == ~c.busy \/ ~c.tcr.cont
           sr == IF opens THEN c.sr \cup {"MBF"} ELSE c.sr
           cs == IF opens THEN TRUE ELSE c.cs
<1>5. x = [c EXCEPT !.tx_fifo = <<>>, !.rx_fifo = q \o word, !.sr = sr, !.cs = cs, !.busy = TRUE]
  <2>1. DOMAIN c = Fields
    BY <1>3, Zenon DEF Record
  <2> QED BY <1>0, <1>1, <1>3, <1>4, <1>x, <2>1, Zenon DEF Dev!Exchange
<1>6. "TEF" \notin sr /\ "REF" \notin sr
  BY <1>3, Zenon
<1>7. PICK sr1, cs1 : sr1 = sr /\ cs1 = cs
  BY Zenon
<1>8. x = With(With(With(With(With(c, "tx_fifo", <<>>), "rx_fifo", q \o word), "sr", sr1), "cs", cs1),
               "busy", TRUE)
  BY <1>5, <1>7, Zenon DEF With
<1> HIDE DEF sr, cs, opens
<1>9. PICK c1 : c1 = With(c, "tx_fifo", <<>>) /\ Assigns(c, "tx_fifo", <<>>, c1) /\ Record(c1)
  <2>1. Assigns(c, "tx_fifo", <<>>, With(c, "tx_fifo", <<>>))
    BY <1>1, <1>3, Assigned, Zenon
  <2> QED BY <2>1, Zenon DEF Assigns
<1>10. PICK c2 : c2 = With(c1, "rx_fifo", q \o word) /\ Assigns(c1, "rx_fifo", q \o word, c2)
                 /\ Record(c2)
  <2>1. Assigns(c1, "rx_fifo", q \o word, With(c1, "rx_fifo", q \o word))
    BY <1>1, <1>9, Assigned, Zenon
  <2> QED BY <2>1, Zenon DEF Assigns
<1>11. PICK c3 : c3 = With(c2, "sr", sr1) /\ Assigns(c2, "sr", sr1, c3) /\ Record(c3)
  <2>1. Assigns(c2, "sr", sr1, With(c2, "sr", sr1))
    BY <1>1, <1>10, Assigned, Zenon
  <2> QED BY <2>1, Zenon DEF Assigns
<1>12. PICK c4 : c4 = With(c3, "cs", cs1) /\ Assigns(c3, "cs", cs1, c4) /\ Record(c4)
  <2>1. Assigns(c3, "cs", cs1, With(c3, "cs", cs1))
    BY <1>1, <1>11, Assigned, Zenon
  <2> QED BY <2>1, Zenon DEF Assigns
<1>13. PICK t : t = TRUE
  BY Zenon
<1>14. Assigns(c4, "busy", t, With(c4, "busy", t))
  BY <1>1, <1>12, Assigned, Zenon
<1>15. Assigns(c4, "busy", t, x)
  BY <1>8, <1>9, <1>10, <1>11, <1>12, <1>13, <1>14, Zenon
<1>16. /\ Record(x) /\ x.tx_fifo = <<>> /\ x.rx_fifo = q \o word /\ x.sr = sr1
       /\ x.men = c.men /\ x.tcr = c.tcr /\ x.loopback = c.loopback
  <2>1. Record(x) /\ \A f \in Fields \ {"busy"} : x[f] = c4[f]
    BY <1>15, Zenon DEF Assigns
  <2>2. c4.sr = sr1 /\ \A f \in Fields \ {"sr", "cs"} : c4[f] = c2[f]
    BY <1>1, <1>11, <1>12, Zenon DEF Assigns
  <2>3. /\ c2.tx_fifo = <<>> /\ c2.rx_fifo = q \o word
        /\ \A f \in Fields \ {"tx_fifo", "rx_fifo"} : c2[f] = c[f]
    BY <1>1, <1>9, <1>10, Zenon DEF Assigns
  <2> QED BY <1>1, <2>1, <2>2, <2>3, Zenon
<1>17. Opened(x, q \o word) /\ x.tcr = TransferCommand(sz)
  BY <1>3, <1>6, <1>7, <1>16, Zenon DEF Opened, Ours
<1> QED BY <1>2, <1>x, <1>17, Zenon

\* The end of an exchange in continuous mode.
LEMMA CompleteReady ==
    ASSUME NEW d, NEW sz \in Size, NEW q, Opened(d, q), d.tcr = TransferCommand(sz)
    PROVE  Opened(Dev!Complete(d), q) /\ Dev!Complete(d).tcr = TransferCommand(sz)
<1>1. PICK e : e = With(d, "sr", d.sr \cup {"TCF"})
  BY Zenon
<1>2. e = Dev!Complete(d)
  <2>1. TransferCommand(sz).cont = TRUE
    BY Zenon DEF TransferCommand
  <2>2. d.tcr.cont = TRUE
    BY <2>1, Zenon
  <2>3. d.tx_fifo = <<>>
    BY Zenon DEF Opened
  <2> QED BY <1>1, <2>2, <2>3, Zenon DEF Dev!Complete, With
<1>3. /\ "sr" \in Fields /\ "tcr" \in Fields \ {"sr"} /\ "men" \in Fields \ {"sr"}
      /\ "loopback" \in Fields \ {"sr"} /\ "tx_fifo" \in Fields \ {"sr"}
      /\ "rx_fifo" \in Fields \ {"sr"}
  BY Zenon DEF Fields
<1>4. Record(d) /\ "TEF" \notin d.sr \cup {"TCF"} /\ "REF" \notin d.sr \cup {"TCF"}
  BY Zenon DEF Opened, Ours
<1>5. Assigns(d, "sr", d.sr \cup {"TCF"}, With(d, "sr", d.sr \cup {"TCF"}))
  BY <1>3, <1>4, Assigned, Zenon
<1>6. Opened(e, q) /\ e.tcr = TransferCommand(sz)
  BY <1>1, <1>3, <1>4, <1>5, Zenon DEF Assigns, Opened, Ours
<1> QED BY <1>2, <1>6, Zenon

\* A write of TDR with room for the answer: the word is exchanged at once and
\* its answer is behind the ones received before.
LEMMA SendExchanges ==
    ASSUME NEW d, NEW sz \in Size, NEW B, NEW q \in Seq(B), Ready(d, sz, q),
           NEW word \in Seq(B), Len(word) = sz \div 8,
           Len(q) + (sz \div 8) <= 4 * LPSPI_IP_FIFO_SIZE_U8,
           NEW e \in Dev!write_TDR(d, word)
    PROVE  Ready(e, sz, q \o word)
<1>1. PICK w \in {1, 2, 4} : w = sz \div 8
  BY WordLength, Zenon
<1>2. /\ Opened(d, q) /\ d.tcr = TransferCommand(sz) /\ d.tcr.rxmsk = FALSE
      /\ d.men = TRUE /\ d.tx_fifo = <<>> /\ d.rx_fifo = q /\ d.loopback = FALSE
      /\ Record(d) /\ Dev!BytesPerFrame(d.tcr) = w
  <2>1. TransferCommand(sz).rxmsk = FALSE
    BY Zenon DEF TransferCommand
  <2> QED BY <1>1, <2>1, WordLength, Zenon DEF Ready, Opened, Ours
<1>3. /\ <<>> \o word = word /\ Len(<<>>) = 0
      /\ SubSeq(word, w + 1, Len(word)) = <<>> /\ SubSeq(word, 1, w) = word
      /\ SubSeq(q \o word, 1, Len(q) + w) = q \o word
      /\ Len(q) \in Nat
  <2>1. Len(word) = w
    BY <1>1, Zenon
  <2>2. SubSeq(word, w + 1, Len(word)) = <<>> /\ SubSeq(word, 1, w) = word
    BY <2>1
  <2>3. q \o word \in Seq(B) /\ Len(q \o word) = Len(q) + w
    BY <2>1
  <2>4. \A r \in Seq(B) : SubSeq(r, 1, Len(r)) = r
    OBVIOUS
  <2>5. SubSeq(q \o word, 1, Len(q) + w) = q \o word
    BY <2>3, <2>4, Zenon
  <2>6. <<>> \o word = word /\ Len(<<>>) = 0 /\ Len(q) \in Nat
    OBVIOUS
  <2> QED BY <2>2, <2>5, <2>6, Zenon
<1>4. PICK c : c = With(d, "tx_fifo", word)
  BY Zenon
<1>5. /\ c.tx_fifo = word /\ c.rx_fifo = q /\ c.tcr = d.tcr /\ c.loopback = FALSE /\ Record(c)
  <2>1. /\ "tx_fifo" \in Fields /\ "tcr" \in Fields \ {"tx_fifo"}
        /\ "loopback" \in Fields \ {"tx_fifo"} /\ "rx_fifo" \in Fields \ {"tx_fifo"}
    BY Zenon DEF Fields
  <2>2. Assigns(d, "tx_fifo", word, With(d, "tx_fifo", word))
    BY <1>2, <2>1, Assigned, Zenon
  <2> QED BY <1>2, <1>4, <2>1, <2>2, Zenon DEF Assigns
<1>6. PICK f \in Dev!lpspi_flush_txfifo(c) : e = Dev!lpspi_update_irq(f)
  <2>1. ~ (4 * LPSPI_IP_FIFO_SIZE_U8 - 0 < w)
    BY Capacity
  <2>2. ~ (Dev!Free(d.tx_fifo) < Dev!BytesPerFrame(d.tcr))
    BY <1>2, <1>3, <2>1, Zenon DEF Dev!Free
  <2>3. c = [d EXCEPT !.tx_fifo = d.tx_fifo \o word]
    BY <1>2, <1>3, <1>4, Zenon DEF With
  <2> QED BY <1>2, <2>2, <2>3, Zenon DEF Dev!write_TDR
<1>7. Dev!CanExchange(c)
  <2>1. Len(word) >= w /\ 4 * LPSPI_IP_FIFO_SIZE_U8 - Len(q) >= w
    BY <1>1, <1>3, Capacity
  <2> QED BY <1>2, <1>5, <2>1, Zenon DEF Dev!CanExchange, Dev!Free
<1>8. f = Dev!lpspi_update_irq(Dev!Complete(Dev!lpspi_update_status(Dev!Exchange(c, word))))
  BY <1>2, <1>3, <1>5, <1>6, <1>7, Zenon DEF Dev!lpspi_flush_txfifo, Slave
<1>9. PICK x : x = Dev!Exchange(c, word) /\ Opened(x, q \o word) /\ x.tcr = TransferCommand(sz)
  <2>1. /\ SubSeq(word, (sz \div 8) + 1, Len(word)) = <<>>
        /\ SubSeq(q \o word, 1, Len(q) + (sz \div 8)) = q \o word
    BY <1>1, <1>3, Zenon
  <2> QED BY <1>2, <1>4, <2>1, WordExchanged, Zenon
<1>10. PICK y : y = Dev!lpspi_update_status(x) /\ Opened(y, q \o word) /\ y.tcr = TransferCommand(sz)
  <2>1. Record(x)
    BY <1>9, Zenon DEF Opened, Ours
  <2>2. Updated(x, Dev!lpspi_update_status(x))
    BY <2>1, StatusUpdates, Zenon
  <2> QED BY <1>9, <2>2, UpdateKeeps, Zenon
<1>11. PICK z : z = Dev!Complete(y) /\ Opened(z, q \o word) /\ z.tcr = TransferCommand(sz)
  BY <1>10, CompleteReady, Zenon
<1>r. Record(z)
  BY <1>11, Zenon DEF Opened, Ours
<1>12. Updated(z, f)
  BY <1>r, <1>8, <1>9, <1>10, <1>11, IrqUpdates, Zenon
<1>13. Opened(f, q \o word) /\ f.tcr = TransferCommand(sz) /\ Record(f)
  <2>1. Opened(f, q \o word) /\ f.tcr = TransferCommand(sz)
    BY <1>11, <1>12, UpdateKeeps, Zenon
  <2> QED BY <2>1, Zenon DEF Opened, Ours
<1>14. Updated(f, e)
  BY <1>6, <1>13, IrqUpdates, Zenon
<1> QED BY <1>13, <1>14, UpdateReady, Zenon

-----------------------------------------------------------------------------
(* The bytes of a transfer. *)

\* s holds the n values of g after the i-th.
Lists(s, B, g, i, n) ==
    s \in Seq(B) /\ Len(s) = n /\ \A k \in 1 .. n : s[k] = g[i + k]

\* A stream cut after its first m values.
Joins(g, i, m, n) == Stream(g, i, m) \o Stream(g, i + m, n) = Stream(g, i, m + n)

Cuts(g, i, n, m) ==
    /\ SubSeq(Stream(g, i, n), 1, m) = Stream(g, i, m)
    /\ SubSeq(Stream(g, i, n), m + 1, n) = Stream(g, i + m, n - m)

\* Sequences with the same values are equal.
LEMMA SameSequence ==
    ASSUME NEW B, NEW s \in Seq(B), NEW t \in Seq(B), Len(s) = Len(t),
           \A k \in 1 .. Len(s) : s[k] = t[k]
    PROVE  s = t
<1>1. s \in [1 .. Len(s) -> B]
  OBVIOUS
<1>2. t \in [1 .. Len(s) -> B]
  OBVIOUS
<1>3. s = [k \in 1 .. Len(s) |-> s[k]] /\ t = [k \in 1 .. Len(s) |-> t[k]]
  BY <1>1, <1>2, Zenon
<1> QED BY <1>3, Zenon

\* Streams are sequences, and may be cut and joined.
LEMMA StreamSeq ==
    ASSUME NEW B, NEW g \in [Nat -> B], NEW i \in Nat, NEW n \in Nat
    PROVE  Lists(Stream(g, i, n), B, g, i, n)
<1>1. \A k \in 1 .. n : g[i + k] \in B
  OBVIOUS
<1>2. Stream(g, i, n) \in Seq(B) /\ Len(Stream(g, i, n)) = n
  BY <1>1 DEF Stream
<1>3. \A k \in 1 .. n : Stream(g, i, n)[k] = g[i + k]
  BY Zenon DEF Stream
<1> QED BY <1>2, <1>3, Zenon DEF Lists

\* Two streams that follow each other.
LEMMA StreamJoin ==
    ASSUME NEW B, NEW g \in [Nat -> B], NEW i \in Nat, NEW m \in Nat, NEW n \in Nat
    PROVE  Joins(g, i, m, n)
<1>0. i + m \in Nat /\ m + n \in Nat
  OBVIOUS
<1>1. PICK s : s = Stream(g, i, m) /\ Lists(s, B, g, i, m)
  BY StreamSeq, Zenon
<1>2. PICK t : t = Stream(g, i + m, n) /\ Lists(t, B, g, i + m, n)
  BY <1>0, StreamSeq, Zenon
<1>3. PICK u : u = Stream(g, i, m + n) /\ Lists(u, B, g, i, m + n)
  BY <1>0, StreamSeq, Zenon
<1>4. s \in Seq(B) /\ t \in Seq(B) /\ Len(s) = m /\ Len(t) = n
  BY <1>1, <1>2, Zenon DEF Lists
<1>5. s \o t \in Seq(B) /\ Len(s \o t) = m + n
  BY <1>4, SMTT(30)
<1>6. \A k \in 1 .. m + n : (s \o t)[k] = u[k]
  <2> SUFFICES ASSUME NEW k \in 1 .. m + n PROVE (s \o t)[k] = u[k]
    BY Zenon
  <2>1. CASE k <= m
    <3>1. k \in 1 .. m /\ (s \o t)[k] = s[k]
      BY <1>1, <1>2, <2>1 DEF Lists
    <3> QED BY <1>1, <1>3, <3>1, Zenon DEF Lists
  <2>2. CASE ~ (k <= m)
    <3>1. k - m \in 1 .. n /\ (i + m) + (k - m) = i + k
      BY <2>2
    <3>2. (s \o t)[k] = t[k - m]
      BY <1>1, <1>2, <2>2 DEF Lists
    <3>3. t[k - m] = g[i + k]
      BY <1>2, <3>1, Zenon DEF Lists
    <3> QED BY <1>3, <3>2, <3>3, Zenon DEF Lists
  <2> QED BY <2>1, <2>2, Zenon
<1>7. s \o t = u
  BY <1>3, <1>5, <1>6, SameSequence, Zenon DEF Lists
<1> QED BY <1>1, <1>2, <1>3, <1>7, Zenon DEF Joins

\* The beginning and the rest of a stream.
LEMMA StreamCut ==
    ASSUME NEW B, NEW g \in [Nat -> B], NEW i \in Nat, NEW n \in Nat, NEW m \in 0 .. n
    PROVE  Cuts(g, i, n, m)
<1>0. m \in Nat /\ i + m \in Nat /\ n - m \in Nat
  OBVIOUS
<1>1. PICK s : s = Stream(g, i, n) /\ Lists(s, B, g, i, n)
  BY StreamSeq, Zenon
<1>2. PICK t : t = Stream(g, i, m) /\ Lists(t, B, g, i, m)
  BY <1>0, StreamSeq, Zenon
<1>3. PICK u : u = Stream(g, i + m, n - m) /\ Lists(u, B, g, i + m, n - m)
  BY <1>0, StreamSeq, Zenon
<1>5. SubSeq(s, 1, m) = t
  <2>1. SubSeq(s, 1, m) \in Seq(B) /\ Len(SubSeq(s, 1, m)) = m
    BY <1>1 DEF Lists
  <2>2. \A k \in 1 .. m : SubSeq(s, 1, m)[k] = t[k]
    <3> SUFFICES ASSUME NEW k \in 1 .. m PROVE SubSeq(s, 1, m)[k] = t[k]
      BY Zenon
    <3>1. k \in 1 .. n /\ SubSeq(s, 1, m)[k] = s[k]
      BY <1>1 DEF Lists
    <3> QED BY <1>1, <1>2, <3>1, Zenon DEF Lists
  <2> QED BY <1>2, <2>1, <2>2, SameSequence, Zenon DEF Lists
<1>6. SubSeq(s, m + 1, n) = u
  <2>1. SubSeq(s, m + 1, n) \in Seq(B) /\ Len(SubSeq(s, m + 1, n)) = n - m
    BY <1>1 DEF Lists
  <2>2. \A k \in 1 .. n - m : SubSeq(s, m + 1, n)[k] = u[k]
    <3> SUFFICES ASSUME NEW k \in 1 .. n - m PROVE SubSeq(s, m + 1, n)[k] = u[k]
      BY Zenon
    <3>1. SubSeq(s, m + 1, n)[k] = s[m + k] /\ m + k \in 1 .. n /\ i + (m + k) = (i + m) + k
      BY <1>1 DEF Lists
    <3> QED BY <1>1, <1>3, <3>1, Zenon DEF Lists
  <2> QED BY <1>3, <2>1, <2>2, SameSequence, Zenon DEF Lists
<1> QED BY <1>1, <1>2, <1>3, <1>5, <1>6, Zenon DEF Cuts

\* Numbers of bytes of whole frames.
LEMMA Multiples ==
    ASSUME NEW w \in {1, 2, 4}, NEW a \in Nat, NEW b \in Nat, a <= b
    PROVE  /\ a * w \in Nat /\ (b - a) * w \in Nat /\ w \in Nat
           /\ a * w + (b - a) * w = b * w
           /\ (b - a) * w + w = ((b + 1) - a) * w
           /\ ((a + 1) - a) * w = w /\ 0 * w = 0 /\ a * w + w = (a + 1) * w
           /\ a < b => w \in 0 .. (b - a) * w /\ (b - a) * w - w = (b - (a + 1)) * w
<1>1. CASE w = 1
  BY <1>1
<1>2. CASE w = 2
  BY <1>2
<1>3. CASE w = 4
  BY <1>3
<1> QED BY <1>1, <1>2, <1>3, Zenon

\* A word is the next frame of its transfer.
LEMMA WordPart ==
    ASSUME NEW j, j.framesz \in Size, NEW b \in Nat
    PROVE  Word(j, b) = Stream(Bytes(j), b * Width(j), Width(j))
<1>1. PICK w \in {1, 2, 4} : w = Width(j)
  BY WordLength, Zenon DEF Width
<1>2. \A k \in 1 .. w : /\ b * w + k \in Nat
                        /\ (b * w + k - 1) \div w = b /\ ((b * w + k - 1) % w) + 1 = k
  <2>1. CASE w = 1
    BY <2>1
  <2>2. CASE w = 2
    BY <2>2
  <2>3. CASE w = 4
    BY <2>3
  <2> QED BY <2>1, <2>2, <2>3, Zenon
<1>3. \A k \in 1 .. w : Bytes(j)[b * w + k] = <<j.by, j.turn, b, k>>
  <2> SUFFICES ASSUME NEW k \in 1 .. w PROVE Bytes(j)[b * w + k] = <<j.by, j.turn, b, k>>
    BY Zenon
  <2>1. PICK n : n = b * w + k
    BY Zenon
  <2>2. n \in Nat /\ (n - 1) \div w = b /\ ((n - 1) % w) + 1 = k
    BY <1>2, <2>1
  <2>3. Bytes(j)[n] = <<j.by, j.turn, (n - 1) \div w, ((n - 1) % w) + 1>>
    BY <1>1, <2>2, Zenon DEF Bytes
  <2> QED BY <2>1, <2>2, <2>3, Zenon
<1>4. Word(j, b) = [k \in 1 .. w |-> <<j.by, j.turn, b, k>>]
  BY <1>1, Zenon DEF Word, Width
<1>5. Stream(Bytes(j), b * w, w) = [k \in 1 .. w |-> Bytes(j)[b * w + k]]
  BY Zenon DEF Stream
<1> QED BY <1>1, <1>3, <1>4, <1>5, Zenon

\* The bytes have a range.
LEMMA BytesRange ==
    ASSUME NEW j
    PROVE  \E B : Bytes(j) \in [Nat -> B]
<1>1. \A n \in Nat : Bytes(j)[n] \in {Bytes(j)[m] : m \in Nat}
  BY Zenon
<1>2. Bytes(j) = [n \in Nat |-> Bytes(j)[n]]
  BY Zenon DEF Bytes
<1>3. Bytes(j) \in [Nat -> {Bytes(j)[m] : m \in Nat}]
  BY <1>1, <1>2, Zenon
<1> QED BY <1>3, Zenon

\* A part of a transfer goes on with the next word.
LEMMA PartNext ==
    ASSUME NEW j, j.framesz \in Size, NEW a \in Nat, NEW b \in Nat, a <= b
    PROVE  /\ Len(Part(j, a, b)) = (b - a) * Width(j)
           /\ Part(j, a, b) \o Word(j, b) = Part(j, a, b + 1)
           /\ Len(Word(j, b)) = Width(j)
           /\ \E B : Part(j, a, b) \in Seq(B) /\ Word(j, b) \in Seq(B)
<1>1. PICK w \in {1, 2, 4} : w = Width(j)
  BY WordLength, Zenon DEF Width
<1>2. PICK g, B : g = Bytes(j) /\ g \in [Nat -> B]
  BY BytesRange, Zenon
<1>3. /\ a * w \in Nat /\ (b - a) * w \in Nat /\ w \in Nat
      /\ a * w + (b - a) * w = b * w
      /\ (b - a) * w + w = ((b + 1) - a) * w /\ b * w \in Nat
  BY Multiples
<1>4. /\ Part(j, a, b) = Stream(g, a * w, (b - a) * w)
      /\ Part(j, a, b + 1) = Stream(g, a * w, ((b + 1) - a) * w)
      /\ Word(j, b) = Stream(g, b * w, w)
  <2>1. Word(j, b) = Stream(g, b * w, w)
    BY <1>1, <1>2, WordPart, Zenon
  <2>2. \A c \in Nat : Part(j, a, c) = Stream(g, a * w, (c - a) * w)
    BY <1>1, <1>2, Zenon DEF Part
  <2>3. b + 1 \in Nat
    OBVIOUS
  <2> QED BY <2>1, <2>2, <2>3, Zenon
<1>5. PICK i, n : i = a * w /\ n = (b - a) * w
  BY Zenon
<1>6. i \in Nat /\ n \in Nat /\ i + n = b * w /\ n + w = ((b + 1) - a) * w
  BY <1>3, <1>5, Zenon
<1>a. g \in [Nat -> B] /\ i \in Nat /\ n \in Nat /\ w \in Nat /\ i + n \in Nat
  BY <1>2, <1>3, <1>6, Zenon
<1>7. Stream(g, i, n) \o Stream(g, i + n, w) = Stream(g, i, n + w)
  <2>1. Joins(g, i, n, w)
    BY <1>a, StreamJoin, Zenon
  <2> QED BY <2>1, Zenon DEF Joins
<1>8. Lists(Stream(g, i, n), B, g, i, n) /\ Lists(Stream(g, i + n, w), B, g, i + n, w)
  BY <1>a, StreamSeq, Zenon
<1>9. Part(j, a, b) = Stream(g, i, n) /\ Word(j, b) = Stream(g, i + n, w)
      /\ Part(j, a, b + 1) = Stream(g, i, n + w)
  BY <1>4, <1>5, <1>6, Zenon
<1> QED BY <1>1, <1>5, <1>7, <1>8, <1>9, Zenon DEF Lists

\* The first frame of a part is taken, and joins the ones before.
LEMMA PartTaken ==
    ASSUME NEW j, j.framesz \in Size, NEW a \in Nat, NEW b \in Nat, a < b
    PROVE  /\ Width(j) <= Len(Part(j, a, b)) /\ Len(Part(j, a, b)) \in Nat
           /\ SubSeq(Part(j, a, b), Width(j) + 1, Len(Part(j, a, b))) = Part(j, a + 1, b)
           /\ Part(j, 0, a) \o SubSeq(Part(j, a, b), 1, Width(j)) = Part(j, 0, a + 1)
<1>1. PICK w \in {1, 2, 4} : w = Width(j)
  BY WordLength, Zenon DEF Width
<1>2. PICK g, B : g = Bytes(j) /\ g \in [Nat -> B]
  BY BytesRange, Zenon
<1>3. PICK i, n : i = a * w /\ n = (b - a) * w
  BY Zenon
<1>4. a <= b /\ 0 <= a
  OBVIOUS
<1>5. /\ i \in Nat /\ n \in Nat /\ w \in 0 .. n /\ n - w = (b - (a + 1)) * w
      /\ i + w = (a + 1) * w
  BY <1>3, <1>4, Multiples
<1>6. /\ (a - 0) * w = i /\ ((a + 1) - 0) * w = i + w /\ 0 * w = 0 /\ 0 + i = i
      /\ w \in Nat /\ w <= n
  BY <1>3, <1>5
<1>7. /\ Part(j, a, b) = Stream(g, i, n) /\ Part(j, a + 1, b) = Stream(g, i + w, n - w)
      /\ Part(j, 0, a) = Stream(g, 0, i) /\ Part(j, 0, a + 1) = Stream(g, 0, i + w)
  <2>1. \A x, y : Part(j, x, y) = Stream(g, x * w, (y - x) * w)
    BY <1>1, <1>2, Zenon DEF Part
  <2>2. Part(j, a, b) = Stream(g, i, n)
    BY <1>3, <2>1, Zenon
  <2>3. Part(j, a + 1, b) = Stream(g, i + w, n - w)
    BY <1>5, <2>1, Zenon
  <2>4. Part(j, 0, a) = Stream(g, 0, i)
    BY <1>6, <2>1, Zenon
  <2>5. Part(j, 0, a + 1) = Stream(g, 0, i + w)
    BY <1>6, <2>1, Zenon
  <2> QED BY <2>2, <2>3, <2>4, <2>5, Zenon
<1>8. Len(Stream(g, i, n)) = n
  <2>1. Lists(Stream(g, i, n), B, g, i, n)
    BY <1>2, <1>5, StreamSeq, Zenon
  <2> QED BY <2>1, Zenon DEF Lists
<1>9. /\ SubSeq(Stream(g, i, n), 1, w) = Stream(g, i, w)
      /\ SubSeq(Stream(g, i, n), w + 1, n) = Stream(g, i + w, n - w)
  <2>1. Cuts(g, i, n, w)
    BY <1>2, <1>5, StreamCut, Zenon
  <2> QED BY <2>1, Zenon DEF Cuts
<1>10. Stream(g, 0, i) \o Stream(g, 0 + i, w) = Stream(g, 0, i + w)
  <2>1. 0 \in Nat /\ i \in Nat /\ w \in Nat /\ g \in [Nat -> B]
    BY <1>2, <1>5, <1>6
  <2>2. Joins(g, 0, i, w)
    BY <2>1, StreamJoin, Zenon
  <2> QED BY <2>2, Zenon DEF Joins
<1>11. Part(j, 0, a) \o SubSeq(Part(j, a, b), 1, w) = Part(j, 0, a + 1)
  BY <1>6, <1>7, <1>9, <1>10, Zenon
<1>12. SubSeq(Part(j, a, b), w + 1, Len(Part(j, a, b))) = Part(j, a + 1, b)
  BY <1>7, <1>8, <1>9, Zenon
<1>13. w <= Len(Part(j, a, b)) /\ Len(Part(j, a, b)) \in Nat
  BY <1>5, <1>6, <1>7, <1>8, Zenon
<1> QED BY <1>1, <1>11, <1>12, <1>13, Zenon

\* The first frames of a transfer, and all of them.
LEMMA PartSent ==
    ASSUME NEW j, j.framesz \in Size, j.frames \in Nat, NEW b \in Nat, b <= j.frames
    PROVE  /\ Part(j, 0, b) = SubSeq(Sent(j), 1, Len(Part(j, 0, b)))
           /\ b = j.frames => Part(j, 0, b) = Sent(j)
<1>1. PICK w \in {1, 2, 4} : w = Width(j)
  BY WordLength, Zenon DEF Width
<1>2. PICK g, B : g = Bytes(j) /\ g \in [Nat -> B]
  BY BytesRange, Zenon
<1>3. PICK m, n : m = b * w /\ n = j.frames * w
  BY Zenon
<1>4. m \in 0 .. n /\ n \in Nat /\ 0 \in Nat /\ m \in Nat
  <2>1. CASE w = 1
    BY <1>3, <2>1
  <2>2. CASE w = 2
    BY <1>3, <2>2
  <2>3. CASE w = 4
    BY <1>3, <2>3
  <2> QED BY <2>1, <2>2, <2>3, Zenon
<1>5. 0 * w = 0 /\ (b - 0) * w = m /\ \A k \in 1 .. n : k \in Nat /\ 0 + k = k
  BY <1>3, <1>4
<1>6. Part(j, 0, b) = Stream(g, 0, m)
  BY <1>1, <1>2, <1>5, Zenon DEF Part
<1>7. Sent(j) = Stream(g, 0, n)
  <2>1. Sent(j) = [k \in 1 .. n |-> <<j.by, j.turn, (k - 1) \div w, ((k - 1) % w) + 1>>]
    BY <1>1, <1>3, Zenon DEF Sent, Width
  <2>2. \A k \in Nat : g[k] = <<j.by, j.turn, (k - 1) \div w, ((k - 1) % w) + 1>>
    BY <1>1, <1>2, Zenon DEF Bytes
  <2>3. Stream(g, 0, n) = [k \in 1 .. n |-> g[0 + k]]
    BY Zenon DEF Stream
  <2>4. \A k \in 1 .. n : g[0 + k] = <<j.by, j.turn, (k - 1) \div w, ((k - 1) % w) + 1>>
    BY <1>5, <2>2, Zenon
  <2> QED BY <2>1, <2>3, <2>4, Zenon
<1>8. SubSeq(Stream(g, 0, n), 1, m) = Stream(g, 0, m)
  <2>1. Cuts(g, 0, n, m)
    BY <1>2, <1>4, StreamCut, Zenon
  <2> QED BY <2>1, Zenon DEF Cuts
<1>9. Len(Stream(g, 0, m)) = m
  <2>1. Lists(Stream(g, 0, m), B, g, 0, m)
    BY <1>2, <1>4, StreamSeq, Zenon
  <2> QED BY <2>1, Zenon DEF Lists
<1>10. Part(j, 0, b) = SubSeq(Sent(j), 1, Len(Part(j, 0, b)))
  BY <1>6, <1>7, <1>8, <1>9, Zenon
<1>11. b = j.frames => Part(j, 0, b) = Sent(j)
  BY <1>3, <1>6, <1>7, Zenon
<1> QED BY <1>10, <1>11, Zenon

-----------------------------------------------------------------------------
(* The steps of a caller. *)

\* A field of the driver's state is assigned.
Sets(s, g, v, e) ==
    DOMAIN e = StateFields /\ e[g] = v /\ \A f \in StateFields \ {g} : e[f] = s[f]

\* Assignments to a field of State leave the others alone.
LEMMA FieldSet ==
    ASSUME NEW s, DOMAIN s = StateFields, NEW g \in StateFields, NEW v
    PROVE  Sets(s, g, v, [s EXCEPT ![g] = v])
BY Zenon DEF Sets

\* Who is not inside SyncTransmit has nothing to keep.
LEMMA IdlePlace == At("idle")'
BY Zenon DEF At, Exchanging

\* While a task is inside SyncTransmit, no other one is.
LEMMA Alone ==
    ASSUME Inv, NEW c \in Caller, pc[c] # "idle"
    PROVE  Status = "BUSY" /\ \A d \in Caller \ {c} : pc[d] = "idle"
BY Zenon DEF Inv, Control

\* A step of the one task inside SyncTransmit, to place p.
LEMMA GoesOn ==
    ASSUME Inv, NEW c \in Caller, \A d \in Caller \ {c} : pc[d] = "idle",
           NEW p \in Places, p # "idle", pc' = [pc EXCEPT ![c] = p],
           Status' = "BUSY", Types', At(p)'
    PROVE  Inv'
<1>1. pc \in [Caller -> Places]
  BY Zenon DEF Inv, Control
<1>2. pc' \in [Caller -> Places] /\ pc'[c] = p /\ \A d \in Caller \ {c} : pc'[d] = "idle"
  BY <1>1, Zenon DEF Places
<1>3. Control'
  BY <1>2, Zenon DEF Control
<1>4. Ended'
  BY Zenon DEF Ended
<1>5. \A d \in Caller : At(pc[d])'
  <2> SUFFICES ASSUME NEW d \in Caller PROVE At(pc[d])'
    BY Zenon
  <2>1. PICK q : q = pc'[d] /\ At(q)'
    BY <1>2, IdlePlace, Zenon
  <2> QED BY <2>1, Zenon DEF At, Underway, Progress, Owed
<1> QED BY <1>3, <1>4, <1>5, Zenon DEF Inv

\* The task inside SyncTransmit returns.
LEMMA Returns ==
    ASSUME Inv, NEW c \in Caller, \A d \in Caller \ {c} : pc[d] = "idle",
           pc' = [pc EXCEPT ![c] = "idle"], Status' # "BUSY", Types', Ended'
    PROVE  Inv'
<1>1. pc \in [Caller -> Places]
  BY Zenon DEF Inv, Control
<1>2. pc' \in [Caller -> Places] /\ \A d \in Caller : pc'[d] = "idle"
  BY <1>1, Zenon DEF Places
<1>3. Control'
  BY <1>2, Zenon DEF Control
<1>4. \A d \in Caller : At(pc[d])'
  <2> SUFFICES ASSUME NEW d \in Caller PROVE At(pc[d])'
    BY Zenon
  <2> QED BY <1>2, Zenon DEF At, Exchanging
<1> QED BY <1>3, <1>4, Zenon DEF Inv

\* A call that finds the hardware busy, and a stuttering step.
LEMMA NothingNew ==
    ASSUME Inv, UNCHANGED <<dev, Status, State, pc, todo, Elapsed, job>>
    PROVE  Inv'
<1>1. Control' /\ Types' /\ Ended'
  BY Zenon DEF Inv, Control, Types, Ended
<1>2. \A c \in Caller : At(pc[c])'
  BY Zenon DEF Inv, At, Underway, Progress, Owed
<1> QED BY <1>1, <1>2, Zenon DEF Inv

\* What holds of the job and of the controller holds on.
LEMMA TypesKept ==
    ASSUME Types, job' = job, DOMAIN State' = StateFields, Ours(dev')
    PROVE  Types'
BY Zenon DEF Types

\* SyncTransmit claims the hardware, or fails.
LEMMA CallKeeps ==
    ASSUME Inv, NEW c \in Caller, Call(c)
    PROVE  Inv'
<1>1. CASE NotBusy(c)
  <2>1. \A d \in Caller : pc[d] = "idle"
    BY <1>1, Zenon DEF Inv, Control, NotBusy
  <2>2. /\ Status' = "BUSY" /\ pc' = [pc EXCEPT ![c] = "begin"]
        /\ job' \in [by : {c}, turn : {1 - job.turn}, frames : Frames,
                     framesz : FrameSize, timeout : TimeOut]
        /\ dev' = dev /\ State' = State
    BY <1>1, Zenon DEF Call
  <2>3. job'.frames \in Frames /\ job'.framesz \in FrameSize /\ job'.timeout \in TimeOut
    BY <2>2
  <2>4. job'.frames \in Nat /\ job'.framesz \in Size /\ job'.timeout \in Nat \ {0}
    BY <2>3, SyncAssumption, Zenon DEF Size
  <2>5. Types'
    BY <2>2, <2>4, Zenon DEF Inv, Types
  <2>6. At("begin")'
    BY Zenon DEF At, Exchanging
  <2>7. "begin" \in Places
    BY Zenon DEF Places
  <2> QED BY <2>1, <2>2, <2>5, <2>6, <2>7, GoesOn, Zenon
<1>2. CASE ~ NotBusy(c)
  <2>1. UNCHANGED <<dev, Status, State, pc, todo, Elapsed, job>>
    BY <1>2, Zenon DEF Call
  <2> QED BY <2>1, NothingNew, Zenon
<1> QED BY <1>1, <1>2, Zenon

\* Interrupts off, all slots of the FIFO free.
LEMMA BeginKeeps ==
    ASSUME Inv, NEW c \in Caller, Begin(c)
    PROVE  Inv'
<1>1. pc[c] = "begin" /\ pc' = [pc EXCEPT ![c] = "setup"] /\ Status' = Status /\ job' = job
  BY Zenon DEF Begin
<1>2. Status = "BUSY" /\ \A d \in Caller \ {c} : pc[d] = "idle"
  BY <1>1, Alone, Zenon
<1>3. Types
  BY Zenon DEF Inv
<1>4. Ours(dev')
  BY <1>3, MaskOurs, Zenon DEF Begin, Types
<1>5. DOMAIN State' = StateFields /\ State'.CurrentTxFifoSlot = LPSPI_IP_FIFO_SIZE_U8
  BY <1>3, Zenon DEF Begin, Types, StateFields
<1>6. Types'
  BY <1>1, <1>3, <1>4, <1>5, TypesKept, Zenon
<1>7. "setup" \in Places /\ At("setup")'
  BY <1>5, Zenon DEF Places, At, Exchanging
<1> QED BY <1>1, <1>2, <1>6, <1>7, GoesOn, Zenon

\* Lpspi_TransmitTxInit leaves the controller on, with empty FIFOs, whatever an
\* earlier transfer left in them.
LEMMA SetupKeeps ==
    ASSUME Inv, NEW c \in Caller, Setup(c)
    PROVE  Inv'
<1>1. /\ pc[c] = "setup" /\ pc' = [pc EXCEPT ![c] = "command"]
      /\ Status' = Status /\ job' = job /\ State' = State
  BY Zenon DEF Setup
<1>2. Status = "BUSY" /\ \A d \in Caller \ {c} : pc[d] = "idle"
  BY <1>1, Alone, Zenon
<1>3. Types /\ At(pc[c])
  BY Zenon DEF Inv
<1>4. State'.CurrentTxFifoSlot = LPSPI_IP_FIFO_SIZE_U8
  BY <1>1, <1>3, Zenon DEF At
<1>5. Opened(dev', <<>>)
  <2>1. PICK off : off = Dev!write_CR(dev, FALSE, FALSE, FALSE)
    BY Zenon
  <2>2. PICK fresh : fresh = Lpspi_ErrataHandle(off)
    BY Zenon
  <2>3. dev' = Dev!write_CR(Dev!write_SR(fresh, fresh.sr), TRUE, FALSE, FALSE)
    BY <2>1, <2>2, Zenon DEF Setup
  <2>4. Ours(dev)
    BY <1>3, Zenon DEF Types
  <2> QED BY <2>1, <2>2, <2>3, <2>4, SetupOpens, Zenon
<1>6. Types'
  BY <1>1, <1>3, <1>5, Zenon DEF Types, Opened
<1>7. "command" \in Places /\ At("command")'
  BY <1>4, <1>5, Zenon DEF Places, At, Exchanging
<1> QED BY <1>1, <1>2, <1>6, <1>7, GoesOn, Zenon

\* A task inside the loop of SyncTransmit.
LEMMA Inside ==
    ASSUME Inv, NEW c \in Caller, NEW p \in Exchanging, pc[c] = p
    PROVE  /\ Status = "BUSY" /\ \A d \in Caller \ {c} : pc[d] = "idle"
           /\ Types /\ Flow(dev, State, job, Owed(p)) /\ Progress(p)
<1>1. p # "idle"
  BY Zenon DEF Exchanging
<1>2. Status = "BUSY" /\ \A d \in Caller \ {c} : pc[d] = "idle"
  BY <1>1, Alone, Zenon
<1>3. At(pc[c]) /\ Types
  BY Zenon DEF Inv
<1>4. At(p)
  BY <1>3, Zenon
<1>5. Underway(p) /\ Progress(p)
  BY <1>4, Zenon DEF At
<1> QED BY <1>2, <1>3, <1>5, Zenon DEF Underway

\* It goes on to another place of the loop.
LEMMA LoopsOn ==
    ASSUME Inv, NEW c \in Caller, \A d \in Caller \ {c} : pc[d] = "idle",
           NEW p \in Exchanging, pc' = [pc EXCEPT ![c] = p], Status' = "BUSY",
           Types, job' = job, DOMAIN State' = StateFields,
           NEW owed, owed = Owed(p)', Flow(dev', State', job, owed), Progress(p)'
    PROVE  Inv'
<1>1. Ours(dev')
  BY Zenon DEF Flow, Ready, Opened
<1>2. Types'
  BY <1>1, TypesKept, Zenon
<1>3. p \in Places /\ p # "idle"
  BY Zenon DEF Places, Exchanging
<1>4. Underway(p)'
  BY Zenon DEF Underway
<1>5. At(p)'
  BY <1>4, Zenon DEF At, Exchanging
<1> QED BY <1>2, <1>3, <1>5, GoesOn, Zenon

\* Before the first frame.
LEMMA PartEmpty ==
    ASSUME NEW j, j.framesz \in Size
    PROVE  Part(j, 0, 0) = <<>>
<1>1. PICK w \in {1, 2, 4} : w = Width(j)
  BY WordLength, Zenon DEF Width
<1>2. (0 - 0) * w = 0 /\ 1 .. 0 = {}
  OBVIOUS
<1>3. Part(j, 0, 0) = Stream(Bytes(j), 0 * w, 0)
  BY <1>1, <1>2, Zenon DEF Part
<1>4. Stream(Bytes(j), 0 * w, 0) = <<>>
  BY <1>2 DEF Stream
<1> QED BY <1>3, <1>4, Zenon

\* The command is written; the transfer is underway with no frame.
LEMMA CommandKeeps ==
    ASSUME Inv, NEW c \in Caller, Command(c)
    PROVE  Inv'
<1>1. /\ pc[c] = "command" /\ pc' = [pc EXCEPT ![c] = "loop"]
      /\ Status' = Status /\ job' = job
      /\ dev' \in Dev!write_TCR(dev, TransferCommand(job.framesz))
      /\ State' = [CurrentTxFifoSlot |-> State.CurrentTxFifoSlot - 1,
                   TxIndex |-> 0, RxIndex |-> 0, RxBuffer |-> <<>>, CONT |-> TRUE]
  BY Zenon DEF Command
<1>2. Status = "BUSY" /\ \A d \in Caller \ {c} : pc[d] = "idle"
  BY <1>1, Alone, Zenon
<1>3. Types /\ At(pc[c]) /\ job.framesz \in Size /\ job.frames \in Nat
  BY Zenon DEF Inv, Types
<1>4. State.CurrentTxFifoSlot = LPSPI_IP_FIFO_SIZE_U8 /\ Opened(dev, <<>>)
  BY <1>1, <1>3, Zenon DEF At
<1>5. Ready(dev', job.framesz, <<>>)
  BY <1>1, <1>3, <1>4, CommandReady, Zenon
<1>6. PICK slot : slot = State.CurrentTxFifoSlot - 1
  BY Zenon
<1>7. PICK s : s = State'
  BY Zenon
<1>8. /\ DOMAIN s = StateFields /\ s.CurrentTxFifoSlot = slot /\ s.TxIndex = 0
      /\ s.RxIndex = 0 /\ s.RxBuffer = <<>>
  BY <1>1, <1>6, <1>7, Zenon DEF StateFields
<1>9. slot \in Nat /\ slot + (0 - 0) + 1 = LPSPI_IP_FIFO_SIZE_U8 /\ ~ (0 > 0) /\ 0 \in Nat
      /\ 0 <= 0 /\ 0 <= job.frames
  BY <1>3, <1>4, <1>6, Capacity
<1>10. Flow(dev', s, job, 1)
  BY <1>3, <1>5, <1>8, <1>9, PartEmpty, Zenon DEF Flow
<1>11. Owed("loop")' = 1
  BY <1>7, <1>8, <1>9, Zenon DEF Owed
<1>12. "loop" \in Exchanging /\ Progress("loop")'
  BY Zenon DEF Exchanging, Progress
<1> QED BY <1>1, <1>2, <1>3, <1>7, <1>8, <1>10, <1>11, <1>12, LoopsOn, Zenon

\* FSR counts the frames sent and not read yet.
LEMMA FramesWaiting ==
    ASSUME NEW d, NEW s, NEW j, NEW owed, Flow(d, s, j, owed), j.framesz \in Size
    PROVE  d.fsr.rx = s.TxIndex - s.RxIndex
<1>1. PICK w \in {1, 2, 4} : w = Width(j)
  BY WordLength, Zenon DEF Width
<1>2. PICK a \in Nat, b \in Nat : a = s.RxIndex /\ b = s.TxIndex /\ a <= b
  BY Zenon DEF Flow
<1>3. Len(Part(j, a, b)) = (b - a) * w
  BY <1>1, <1>2, PartNext, Zenon
<1>4. Ready(d, j.framesz, Part(j, a, b))
  BY <1>2, Zenon DEF Flow
<1>5. d.fsr.rx = ((b - a) * w) \div w
  BY <1>1, <1>3, <1>4, Zenon DEF Ready, Width
<1>6. ((b - a) * w) \div w = b - a
  <2>1. CASE w = 1
    BY <1>2, <2>1
  <2>2. CASE w = 2
    BY <1>2, <2>2
  <2>3. CASE w = 4
    BY <1>2, <2>3
  <2> QED BY <2>1, <2>2, <2>3, Zenon
<1> QED BY <1>2, <1>5, <1>6, Zenon

\* The loop ends with all frames received.
LEMMA LoopEnds ==
    ASSUME Inv, NEW c \in Caller, LoopTest(c), State.RxIndex = job.frames
    PROVE  Inv'
<1>1. /\ pc[c] = "loop" /\ Status' = "IDLE" /\ pc' = [pc EXCEPT ![c] = "idle"]
      /\ dev' = dev /\ State' = State /\ job' = job
  BY Zenon DEF LoopTest
<1>2. "loop" \in Exchanging
  BY Zenon DEF Exchanging
<1>3. /\ \A d \in Caller \ {c} : pc[d] = "idle"
      /\ Types /\ Flow(dev, State, job, Owed("loop"))
  BY <1>1, <1>2, Inside, Zenon
<1>4. Types'
  BY <1>1, <1>3, Zenon DEF Types
<1>5. State.RxBuffer = Sent(job)
  <2>1. /\ job.framesz \in Size /\ job.frames \in Nat /\ State.RxIndex \in Nat
        /\ State.RxBuffer = Part(job, 0, State.RxIndex)
    BY <1>3, Zenon DEF Types, Flow
  <2>2. State.RxIndex <= job.frames
    BY <2>1
  <2> QED BY <2>1, <2>2, PartSent, Zenon
<1>6. Ended'
  BY <1>1, <1>5, Zenon DEF Ended
<1>7. Status' # "BUSY"
  BY <1>1, Zenon
<1> QED BY <1>1, <1>3, <1>4, <1>6, <1>7, Returns, Zenon

\* Another turn of the loop: the command's slot is free with the first frames.
LEMMA LoopTurns ==
    ASSUME Inv, NEW c \in Caller, LoopTest(c), State.RxIndex # job.frames
    PROVE  Inv'
<1>0. PICK n : n = LeastOf(dev.fsr.rx, job.frames - State.RxIndex)
  BY Zenon
<1>1. /\ pc[c] = "loop" /\ Status' = Status /\ pc' = [pc EXCEPT ![c] = "receive"]
      /\ dev' = Dev!lpspi_update_status(dev)
      /\ State' = [State EXCEPT !.CurrentTxFifoSlot = @ + CommandSlot(n)]
      /\ todo' = n /\ Elapsed' = ElapsedAfter(n) /\ job' = job
  BY <1>0, Zenon DEF LoopTest
<1>2. "loop" \in Exchanging /\ "receive" \in Exchanging
  BY Zenon DEF Exchanging
<1>3. /\ Status = "BUSY" /\ \A d \in Caller \ {c} : pc[d] = "idle"
      /\ Types /\ Flow(dev, State, job, Owed("loop"))
  BY <1>1, <1>2, Inside, Zenon
<1>4. job.framesz \in Size /\ job.frames \in Nat /\ DOMAIN State = StateFields
  BY <1>3, Zenon DEF Types
<1>5. PICK a, b, k, o : /\ a = State.RxIndex /\ b = State.TxIndex
                        /\ k = State.CurrentTxFifoSlot /\ o = Owed("loop")
  BY Zenon
<1>6. /\ a \in Nat /\ b \in Nat /\ a <= b /\ b <= job.frames /\ k \in Nat
      /\ k + (b - a) + o = LPSPI_IP_FIFO_SIZE_U8
      /\ State.RxBuffer = Part(job, 0, a) /\ Ready(dev, job.framesz, Part(job, a, b))
  BY <1>3, <1>5, Zenon DEF Flow
<1>7. o = IF a > 0 THEN 0 ELSE 1
  BY <1>5, Zenon DEF Owed
<1>8. n = b - a
  <2>1. dev.fsr.rx = b - a
    BY <1>3, <1>4, <1>5, FramesWaiting, Zenon
  <2>2. n = LeastOf(b - a, job.frames - a)
    BY <1>0, <1>5, <2>1, Zenon
  <2> QED BY <1>4, <1>6, <2>2 DEF LeastOf
<1>9. PICK k2 : k2 = k + (IF n # 0 /\ a = 0 THEN 1 ELSE 0)
  BY Zenon
<1>10. PICK s : s = State'
  BY Zenon
<1>11. Sets(State, "CurrentTxFifoSlot", k2, s)
  <2>1. "CurrentTxFifoSlot" \in StateFields
    BY Zenon DEF StateFields
  <2>2. s = [State EXCEPT !["CurrentTxFifoSlot"] = k2]
    BY <1>1, <1>5, <1>9, <1>10, Zenon DEF CommandSlot
  <2> QED BY <1>4, <2>1, <2>2, FieldSet, Zenon
<1>12. /\ DOMAIN s = StateFields /\ s.CurrentTxFifoSlot = k2 /\ s.RxIndex = a
       /\ s.TxIndex = b /\ s.RxBuffer = Part(job, 0, a)
  BY <1>5, <1>6, <1>11, Zenon DEF Sets, StateFields
<1>13. PICK o2 : o2 = IF a > 0 \/ n > 0 THEN 0 ELSE 1
  BY Zenon
<1>14. k2 \in Nat /\ k2 + (b - a) + o2 = LPSPI_IP_FIFO_SIZE_U8
  BY <1>6, <1>7, <1>8, <1>9, <1>13
<1>15. Ready(dev', job.framesz, Part(job, a, b))
  BY <1>1, <1>4, <1>6, StatusReady, Zenon
<1>16. Flow(dev', s, job, o2)
  BY <1>6, <1>12, <1>14, <1>15, Zenon DEF Flow
<1>17. o2 = Owed("receive")'
  BY <1>1, <1>10, <1>12, <1>13, Zenon DEF Owed
<1>18. Progress("receive")'
  <2>1. n = 0 => b < job.frames
    BY <1>4, <1>5, <1>6, <1>8
  <2>2. Elapsed' = 0 \/ n = 0
    BY <1>1, Zenon DEF ElapsedAfter
  <2> QED BY <1>1, <1>8, <1>10, <1>12, <2>1, <2>2, Zenon DEF Progress
<1> QED BY <1>1, <1>2, <1>3, <1>10, <1>12, <1>16, <1>17, <1>18, LoopsOn, Zenon

\* A frame is read out of the RX FIFO.
LEMMA FrameRead ==
    ASSUME Inv, NEW c \in Caller, Receive(c), todo > 0
    PROVE  Inv'
<1>1. /\ pc[c] = "receive" /\ pc' = pc /\ dev' = Dev!read_RDR(dev)
      /\ State' = [State EXCEPT !.RxBuffer = @ \o Dev!RDR(dev),
                                !.RxIndex = @ + 1,
                                !.CurrentTxFifoSlot = @ + 1]
      /\ todo' = todo - 1 /\ Status' = Status /\ Elapsed' = Elapsed /\ job' = job
  BY Zenon DEF Receive
<1>2. "receive" \in Exchanging
  BY Zenon DEF Exchanging
<1>3. /\ Status = "BUSY" /\ \A d \in Caller \ {c} : pc[d] = "idle"
      /\ Types /\ Flow(dev, State, job, Owed("receive")) /\ Progress("receive")
  BY <1>1, <1>2, Inside, Zenon
<1>4. /\ job.framesz \in Size /\ job.frames \in Nat /\ DOMAIN State = StateFields
      /\ pc \in [Caller -> Places]
  BY <1>3, Zenon DEF Types, Inv, Control
<1>5. PICK a, b, k : /\ a = State.RxIndex /\ b = State.TxIndex
                     /\ k = State.CurrentTxFifoSlot
  BY Zenon
<1>6. Owed("receive") = 0
  BY Zenon DEF Owed
<1>7. /\ a \in Nat /\ b \in Nat /\ a <= b /\ b <= job.frames /\ k \in Nat
      /\ k + (b - a) + 0 = LPSPI_IP_FIFO_SIZE_U8
      /\ State.RxBuffer = Part(job, 0, a) /\ Ready(dev, job.framesz, Part(job, a, b))
  BY <1>3, <1>5, <1>6, Zenon DEF Flow
<1>8. todo = b - a /\ (Elapsed = 0 \/ todo = 0)
  BY <1>3, <1>5, Zenon DEF Progress
<1>9. /\ a < b /\ Elapsed = 0 /\ a + 1 \in Nat /\ a + 1 <= b /\ a + 1 > 0 /\ k + 1 \in Nat
      /\ (k + 1) + (b - (a + 1)) + 0 = LPSPI_IP_FIFO_SIZE_U8 /\ todo - 1 = b - (a + 1)
  BY <1>7, <1>8
<1>10. PICK q, w : q = Part(job, a, b) /\ w = job.framesz \div 8
  BY Zenon
<1>11. /\ w <= Len(q) /\ Len(q) \in Nat
       /\ SubSeq(q, w + 1, Len(q)) = Part(job, a + 1, b)
       /\ Part(job, 0, a) \o SubSeq(q, 1, w) = Part(job, 0, a + 1)
  BY <1>4, <1>7, <1>9, <1>10, PartTaken, ZenonT(30) DEF Width
<1>12. /\ Dev!RDR(dev) = SubSeq(q, 1, w)
       /\ Ready(dev', job.framesz, Part(job, a + 1, b))
  <2>1. Ready(dev, job.framesz, q) /\ Len(q) \in Nat /\ job.framesz \div 8 <= Len(q)
    BY <1>7, <1>10, <1>11, Zenon
  <2>2. /\ Dev!RDR(dev) = SubSeq(q, 1, job.framesz \div 8)
        /\ Ready(Dev!read_RDR(dev), job.framesz,
                 SubSeq(q, (job.framesz \div 8) + 1, Len(q)))
    BY <1>4, <2>1, ReadTakes, Zenon
  <2> QED BY <1>1, <1>10, <1>11, <2>2, Zenon
<1>13. PICK s : s = State'
  BY Zenon
<1>14. /\ DOMAIN s = StateFields /\ s.CurrentTxFifoSlot = k + 1 /\ s.RxIndex = a + 1
       /\ s.TxIndex = b /\ s.RxBuffer = Part(job, 0, a + 1)
  <2>0. /\ "RxBuffer" \in StateFields /\ "RxIndex" \in StateFields \ {"RxBuffer"}
        /\ "CurrentTxFifoSlot" \in StateFields \ {"RxBuffer", "RxIndex"}
        /\ "TxIndex" \in StateFields \ {"RxBuffer", "RxIndex", "CurrentTxFifoSlot"}
    BY Zenon DEF StateFields
  <2>1. PICK v : v = Part(job, 0, a + 1) /\ v = State.RxBuffer \o Dev!RDR(dev)
    BY <1>7, <1>11, <1>12, Zenon
  <2>2. PICK s1 : s1 = [State EXCEPT !["RxBuffer"] = v] /\ Sets(State, "RxBuffer", v, s1)
    BY <1>4, <2>0, FieldSet, Zenon
  <2>3. DOMAIN s1 = StateFields
    BY <2>2, Zenon DEF Sets
  <2>4. PICK s2 : s2 = [s1 EXCEPT !["RxIndex"] = a + 1] /\ Sets(s1, "RxIndex", a + 1, s2)
    BY <2>0, <2>3, FieldSet, Zenon
  <2>5. DOMAIN s2 = StateFields
    BY <2>4, Zenon DEF Sets
  <2>6. PICK s3 : /\ s3 = [s2 EXCEPT !["CurrentTxFifoSlot"] = k + 1]
                  /\ Sets(s2, "CurrentTxFifoSlot", k + 1, s3)
    BY <2>0, <2>5, FieldSet, Zenon
  <2>7. s = [[[State EXCEPT !["RxBuffer"] = v] EXCEPT !["RxIndex"] = a + 1]
                 EXCEPT !["CurrentTxFifoSlot"] = k + 1]
    BY <1>1, <1>5, <1>13, <2>1, Zenon
  <2>8. s = s3
    BY <2>2, <2>4, <2>6, <2>7, Zenon
  <2> QED BY <1>5, <2>0, <2>1, <2>2, <2>4, <2>6, <2>8, Zenon DEF Sets
<1>15. Flow(dev', s, job, 0)
  BY <1>7, <1>9, <1>12, <1>14, Zenon DEF Flow
<1>16. 0 = Owed("receive")'
  BY <1>9, <1>13, <1>14, Zenon DEF Owed
<1>17. Progress("receive")'
  BY <1>1, <1>9, <1>13, <1>14, Zenon DEF Progress
<1>18. pc' = [pc EXCEPT ![c] = "receive"]
  BY <1>1, <1>4, Zenon
<1> QED BY <1>1, <1>2, <1>3, <1>13, <1>14, <1>15, <1>16, <1>17, <1>18, LoopsOn, Zenon

\* Nothing is left to read: the driver sends, or has sent everything.
LEMMA ReceiveEnds ==
    ASSUME Inv, NEW c \in Caller, Receive(c), ~ (todo > 0)
    PROVE  Inv'
<1>0. PICK p : p = IF State.CurrentTxFifoSlot = 0 THEN "elapse"
                   ELSE IF State.TxIndex = job.frames THEN "clear" ELSE "send"
  BY Zenon
<1>1. /\ pc[c] = "receive" /\ pc' = [pc EXCEPT ![c] = p] /\ dev' = dev /\ State' = State
      /\ todo' = LeastOf(State.CurrentTxFifoSlot, job.frames - State.TxIndex)
      /\ Status' = Status /\ Elapsed' = Elapsed /\ job' = job
  BY <1>0, Zenon DEF Receive
<1>2. "receive" \in Exchanging /\ p \in Exchanging /\ p # "receive"
  BY <1>0, Zenon DEF Exchanging
<1>3. /\ Status = "BUSY" /\ \A d \in Caller \ {c} : pc[d] = "idle"
      /\ Types /\ Flow(dev, State, job, Owed("receive")) /\ Progress("receive")
  BY <1>1, <1>2, Inside, Zenon
<1>4. job.frames \in Nat /\ DOMAIN State = StateFields
  BY <1>3, Zenon DEF Types
<1>5. PICK a, b, k, o : /\ a = State.RxIndex /\ b = State.TxIndex
                        /\ k = State.CurrentTxFifoSlot /\ o = Owed("receive")
  BY Zenon
<1>6. /\ a \in Nat /\ b \in Nat /\ a <= b /\ b <= job.frames /\ k \in Nat
      /\ k + (b - a) + o = LPSPI_IP_FIFO_SIZE_U8
  BY <1>3, <1>5, Zenon DEF Flow
<1>7. todo = b - a /\ (Elapsed = 0 \/ b < job.frames)
  BY <1>3, <1>5, Zenon DEF Progress
<1>8. o = (IF a > 0 THEN 0 ELSE 1) /\ o = Owed(p)'
  BY <1>1, <1>2, <1>5, Zenon DEF Owed
<1>9. k # 0
  BY <1>6, <1>7, <1>8, Capacity
<1>10. Progress(p)'
  <2>1. CASE b = job.frames
    <3>1. p = "clear"
      BY <1>0, <1>5, <1>9, <2>1, Zenon
    <3>2. Elapsed' = 0
      BY <1>1, <1>4, <1>7, <2>1
    <3> QED BY <3>1, <3>2, Zenon DEF Progress
  <2>2. CASE b # job.frames
    <3>1. p = "send"
      BY <1>0, <1>5, <1>9, <2>2, Zenon
    <3>2. PICK m : m = LeastOf(k, job.frames - b)
      BY Zenon
    <3>3. m \in Nat /\ m <= k /\ m <= job.frames - b /\ m > 0
      BY <1>4, <1>6, <1>9, <2>2, <3>2 DEF LeastOf
    <3>4. todo' = m /\ State'.CurrentTxFifoSlot = k /\ State'.TxIndex = b /\ job' = job
      BY <1>1, <1>5, <3>2, Zenon
    <3> QED BY <3>1, <3>3, <3>4, Zenon DEF Progress
  <2> QED BY <2>1, <2>2, Zenon
<1>11. Flow(dev', State', job, o)
  BY <1>1, <1>3, <1>5, Zenon
<1> QED BY <1>1, <1>2, <1>3, <1>4, <1>8, <1>10, <1>11, LoopsOn, Zenon

\* A frame is written, and exchanged for the slave's answer at once.
LEMMA FrameSent ==
    ASSUME Inv, NEW c \in Caller, Send(c), todo > 0
    PROVE  Inv'
<1>1. /\ pc[c] = "send" /\ pc' = pc
      /\ dev' \in Dev!write_TDR(dev, Word(job, State.TxIndex))
      /\ State' = [State EXCEPT !.TxIndex = @ + 1, !.CurrentTxFifoSlot = @ - 1]
      /\ todo' = todo - 1 /\ Elapsed' = 0 /\ Status' = Status /\ job' = job
  BY Zenon DEF Send
<1>2. "send" \in Exchanging
  BY Zenon DEF Exchanging
<1>3. /\ Status = "BUSY" /\ \A d \in Caller \ {c} : pc[d] = "idle"
      /\ Types /\ Flow(dev, State, job, Owed("send")) /\ Progress("send")
  BY <1>1, <1>2, Inside, Zenon
<1>4. /\ job.framesz \in Size /\ job.frames \in Nat /\ DOMAIN State = StateFields
      /\ pc \in [Caller -> Places]
  BY <1>3, Zenon DEF Types, Inv, Control
<1>5. PICK a, b, k, o : /\ a = State.RxIndex /\ b = State.TxIndex
                        /\ k = State.CurrentTxFifoSlot /\ o = Owed("send")
  BY Zenon
<1>6. /\ a \in Nat /\ b \in Nat /\ a <= b /\ b <= job.frames /\ k \in Nat
      /\ k + (b - a) + o = LPSPI_IP_FIFO_SIZE_U8
      /\ State.RxBuffer = Part(job, 0, a) /\ Ready(dev, job.framesz, Part(job, a, b))
  BY <1>3, <1>5, Zenon DEF Flow
<1>7. todo \in Nat /\ todo <= k /\ todo <= job.frames - b
  BY <1>3, <1>5, Zenon DEF Progress
<1>8. o = IF a > 0 THEN 0 ELSE 1
  BY <1>5, Zenon DEF Owed
<1>9. /\ b + 1 \in Nat /\ a <= b + 1 /\ b + 1 <= job.frames /\ k - 1 \in Nat
      /\ (k - 1) + ((b + 1) - a) + o = LPSPI_IP_FIFO_SIZE_U8
      /\ todo - 1 \in Nat /\ todo - 1 <= k - 1 /\ todo - 1 <= job.frames - (b + 1)
  BY <1>4, <1>6, <1>7, <1>8, Capacity
<1>10. PICK q, word, w : q = Part(job, a, b) /\ word = Word(job, b) /\ w = Width(job)
  BY Zenon
<1>11. /\ Len(q) = (b - a) * w /\ q \o word = Part(job, a, b + 1) /\ Len(word) = w
       /\ \E B : q \in Seq(B) /\ word \in Seq(B)
  BY <1>4, <1>6, <1>10, PartNext, Zenon
<1>12. Len(q) + w <= 4 * LPSPI_IP_FIFO_SIZE_U8
  <2>1. w \in {1, 2, 4}
    BY <1>4, <1>10, WordLength, Zenon DEF Width
  <2>2. (b - a) + 1 <= LPSPI_IP_FIFO_SIZE_U8 /\ b - a \in Nat
    BY <1>6, <1>7, <1>8
  <2>3. CASE w = 1
    BY <1>11, <2>2, <2>3, Capacity
  <2>4. CASE w = 2
    BY <1>11, <2>2, <2>4, Capacity
  <2>5. CASE w = 4
    BY <1>11, <2>2, <2>5, Capacity
  <2> QED BY <2>1, <2>3, <2>4, <2>5, Zenon
<1>13. Ready(dev', job.framesz, Part(job, a, b + 1))
  <2>1. PICK B : q \in Seq(B) /\ word \in Seq(B)
    BY <1>11, Zenon
  <2>2. /\ Ready(dev, job.framesz, q) /\ Len(word) = job.framesz \div 8
        /\ Len(q) + (job.framesz \div 8) <= 4 * LPSPI_IP_FIFO_SIZE_U8
    BY <1>6, <1>10, <1>11, <1>12, Zenon DEF Width
  <2>3. dev' \in Dev!write_TDR(dev, word)
    BY <1>1, <1>5, <1>10, Zenon
  <2>4. Ready(dev', job.framesz, q \o word)
    BY <1>4, <2>1, <2>2, <2>3, SendExchanges, Zenon
  <2> QED BY <1>11, <2>4, Zenon
<1>14. PICK s : s = State'
  BY Zenon
<1>15. /\ DOMAIN s = StateFields /\ s.CurrentTxFifoSlot = k - 1 /\ s.RxIndex = a
       /\ s.TxIndex = b + 1 /\ s.RxBuffer = Part(job, 0, a)
  <2>0. /\ "TxIndex" \in StateFields /\ "CurrentTxFifoSlot" \in StateFields \ {"TxIndex"}
        /\ "RxIndex" \in StateFields \ {"TxIndex", "CurrentTxFifoSlot"}
        /\ "RxBuffer" \in StateFields \ {"TxIndex", "CurrentTxFifoSlot"}
    BY Zenon DEF StateFields
  <2>1. PICK s1 : s1 = [State EXCEPT !["TxIndex"] = b + 1] /\ Sets(State, "TxIndex", b + 1, s1)
    BY <1>4, <2>0, FieldSet, Zenon
  <2>2. DOMAIN s1 = StateFields
    BY <2>1, Zenon DEF Sets
  <2>3. PICK s2 : /\ s2 = [s1 EXCEPT !["CurrentTxFifoSlot"] = k - 1]
                  /\ Sets(s1, "CurrentTxFifoSlot", k - 1, s2)
    BY <2>0, <2>2, FieldSet, Zenon
  <2>4. s = [[State EXCEPT !["TxIndex"] = b + 1] EXCEPT !["CurrentTxFifoSlot"] = k - 1]
    BY <1>1, <1>5, <1>14, Zenon
  <2>5. s = s2
    BY <2>1, <2>3, <2>4, Zenon
  <2> QED BY <1>5, <1>6, <2>0, <2>1, <2>3, <2>5, Zenon DEF Sets
<1>16. Flow(dev', s, job, o)
  BY <1>6, <1>9, <1>13, <1>15, Zenon DEF Flow
<1>17. o = Owed("send")'
  BY <1>8, <1>14, <1>15, Zenon DEF Owed
<1>18. Progress("send")'
  BY <1>1, <1>9, <1>14, <1>15, Zenon DEF Progress
<1>19. pc' = [pc EXCEPT ![c] = "send"]
  BY <1>1, <1>4, Zenon
<1> QED BY <1>1, <1>2, <1>3, <1>14, <1>15, <1>16, <1>17, <1>18, <1>19, LoopsOn, Zenon

\* All the frames there was room for are written.
LEMMA SendEnds ==
    ASSUME Inv, NEW c \in Caller, Send(c), ~ (todo > 0)
    PROVE  Inv'
<1>1. /\ pc[c] = "send" /\ pc' = [pc EXCEPT ![c] = "elapse"] /\ dev' = dev
      /\ State' = State /\ Status' = Status /\ Elapsed' = Elapsed /\ job' = job
  BY Zenon DEF Send
<1>2. "send" \in Exchanging /\ "elapse" \in Exchanging
  BY Zenon DEF Exchanging
<1>3. /\ Status = "BUSY" /\ \A d \in Caller \ {c} : pc[d] = "idle"
      /\ Types /\ Flow(dev, State, job, Owed("send")) /\ Progress("send")
  BY <1>1, <1>2, Inside, Zenon
<1>4. DOMAIN State = StateFields
  BY <1>3, Zenon DEF Types
<1>5. PICK o : o = Owed("send") /\ o = Owed("elapse")'
  BY <1>1, Zenon DEF Owed
<1>6. Flow(dev', State', job, o)
  BY <1>1, <1>3, <1>5, Zenon
<1>7. Progress("elapse")'
  BY <1>1, <1>3, Zenon DEF Progress
<1> QED BY <1>1, <1>2, <1>3, <1>4, <1>5, <1>6, <1>7, LoopsOn, Zenon

\* The driver's CONT bit is cleared; the command stays what it was.
LEMMA ClearCsKeeps ==
    ASSUME Inv, NEW c \in Caller, ClearCs(c)
    PROVE  Inv'
<1>1. /\ pc[c] = "clear" /\ pc' = [pc EXCEPT ![c] = "elapse"]
      /\ dev' \in (IF State.CONT THEN Dev!write_TCR(dev, dev.tcr) ELSE {dev})
      /\ State' = [State EXCEPT !.CONT = FALSE]
      /\ Status' = Status /\ Elapsed' = Elapsed /\ job' = job
  BY Zenon DEF ClearCs
<1>2. "clear" \in Exchanging /\ "elapse" \in Exchanging
  BY Zenon DEF Exchanging
<1>3. /\ Status = "BUSY" /\ \A d \in Caller \ {c} : pc[d] = "idle"
      /\ Types /\ Flow(dev, State, job, Owed("clear")) /\ Progress("clear")
  BY <1>1, <1>2, Inside, Zenon
<1>4. job.framesz \in Size /\ DOMAIN State = StateFields
  BY <1>3, Zenon DEF Types
<1>5. PICK s : s = State'
  BY Zenon
<1>6. DOMAIN s = StateFields /\ \A f \in StateFields \ {"CONT"} : s[f] = State[f]
  BY <1>1, <1>4, <1>5, Zenon DEF StateFields
<1>7. /\ s.RxIndex = State.RxIndex /\ s.TxIndex = State.TxIndex
      /\ s.RxBuffer = State.RxBuffer /\ s.CurrentTxFifoSlot = State.CurrentTxFifoSlot
  BY <1>6, Zenon DEF StateFields
<1>8. PICK q : q = Part(job, State.RxIndex, State.TxIndex) /\ Ready(dev, job.framesz, q)
  BY <1>3, Zenon DEF Flow
<1>9. Ready(dev', job.framesz, q)
  <2>1. CASE State.CONT
    <3>1. Opened(dev, q) /\ dev.tcr = TransferCommand(job.framesz)
      BY <1>8, Zenon DEF Ready
    <3>2. dev' \in Dev!write_TCR(dev, TransferCommand(job.framesz))
      BY <1>1, <2>1, <3>1, Zenon
    <3> QED BY <1>4, <3>1, <3>2, CommandReady, Zenon
  <2>2. CASE ~ State.CONT
    BY <1>1, <1>8, <2>2, Zenon
  <2> QED BY <2>1, <2>2, Zenon
<1>10. PICK o : o = Owed("clear") /\ o = Owed("elapse")'
  BY <1>5, <1>7, Zenon DEF Owed
<1>11. Flow(dev', s, job, o)
  BY <1>3, <1>7, <1>8, <1>9, <1>10, Zenon DEF Flow
<1>12. Progress("elapse")'
  BY <1>1, <1>3, Zenon DEF Progress
<1> QED BY <1>1, <1>2, <1>3, <1>5, <1>6, <1>10, <1>11, <1>12, LoopsOn, Zenon

\* A turn of the loop ends: only the shortest of timeouts has passed.
LEMMA ElapseKeeps ==
    ASSUME Inv, NEW c \in Caller, Elapse(c)
    PROVE  Inv'
<1>1. /\ pc[c] = "elapse" /\ Elapsed' = Elapsed + 1
      /\ dev' = dev /\ State' = State /\ job' = job
  BY Zenon DEF Elapse
<1>2. "elapse" \in Exchanging /\ "loop" \in Exchanging
  BY Zenon DEF Exchanging
<1>3. /\ Status = "BUSY" /\ \A d \in Caller \ {c} : pc[d] = "idle"
      /\ Types /\ Flow(dev, State, job, Owed("elapse")) /\ Progress("elapse")
  BY <1>1, <1>2, Inside, Zenon
<1>4. DOMAIN State = StateFields /\ job.timeout \in Nat \ {0} /\ Elapsed = 0
  BY <1>3, Zenon DEF Types, Progress
<1>5. CASE Elapsed' >= job.timeout
  <2>1. Status' = "FAULT" /\ pc' = [pc EXCEPT ![c] = "idle"]
    BY <1>5, Zenon DEF Elapse
  <2>2. job.timeout = 1
    BY <1>1, <1>4, <1>5
  <2>3. Types'
    BY <1>1, <1>3, Zenon DEF Types
  <2>4. Ended' /\ Status' # "BUSY"
    BY <1>1, <2>1, <2>2, Zenon DEF Ended
  <2> QED BY <1>3, <2>1, <2>3, <2>4, Returns, Zenon
<1>6. CASE ~ (Elapsed' >= job.timeout)
  <2>1. Status' = Status /\ pc' = [pc EXCEPT ![c] = "loop"]
    BY <1>6, Zenon DEF Elapse
  <2>2. PICK o : o = Owed("elapse") /\ o = Owed("loop")'
    BY <1>1, Zenon DEF Owed
  <2>3. Flow(dev', State', job, o)
    BY <1>1, <1>3, <2>2, Zenon
  <2>4. Progress("loop")'
    BY Zenon DEF Progress
  <2> QED BY <1>1, <1>2, <1>3, <1>4, <2>1, <2>2, <2>3, <2>4, LoopsOn, Zenon
<1> QED BY <1>5, <1>6, Zenon

\* The driver's initialisation of the controller.
LEMMA InitOurs == Ours(Lpspi_Ip_Init(Dev!nxps32k358_lpspi_do_reset))
<1>1. PICK d : d = Dev!nxps32k358_lpspi_do_reset /\ Ours(d)
  BY ResetState, Zenon
<1>2. PICK v : v = FALSE
  BY Zenon
<1>3. "men" \in Plain /\ "loopback" \in Plain /\ "loopback" # "men"
  BY Zenon DEF Plain, Fields
<1>4. PICK e : e = Dev!write_CR(d, v, FALSE, FALSE) /\ Wrote(d, "men", v, e)
  BY <1>1, <1>3, Writes, FieldWritten, Zenon DEF Ours
<1>5. Record(e)
  BY <1>4, Zenon DEF Wrote
<1>6. PICK f : f = Dev!write_CFGR1(e, v) /\ Wrote(e, "loopback", v, f)
  BY <1>3, <1>5, Writes, FieldWritten, Zenon
<1>7. Record(f) /\ f.loopback = FALSE
  BY <1>2, <1>6, Zenon DEF Wrote
<1>8. PICK x, y : x = LPSPI_IP_FIFO_SIZE_U8 - 2 /\ y = 0
  BY Zenon
<1>9. /\ "tx_watermark" \in Fields \ {"loopback"} /\ "rx_watermark" \in Fields \ {"loopback"}
      /\ "loopback" \in Fields
  BY Zenon DEF Fields
<1>10. PICK g : g = With(f, "tx_watermark", x) /\ Assigns(f, "tx_watermark", x, g)
  BY <1>7, <1>9, Assigned, Zenon
<1>11. Record(g) /\ g.loopback = FALSE
  BY <1>7, <1>9, <1>10, Zenon DEF Assigns
<1>12. PICK h : h = With(g, "rx_watermark", y) /\ Assigns(g, "rx_watermark", y, h)
  BY <1>9, <1>11, Assigned, Zenon
<1>13. Record(h) /\ h.loopback = FALSE
  BY <1>9, <1>11, <1>12, Zenon DEF Assigns
<1>14. PICK i : i = Dev!lpspi_update_irq(h) /\ Updated(h, i)
  BY <1>13, IrqUpdates, Zenon
<1>15. Ours(i)
  BY <1>13, <1>14, UpdateKeeps, Zenon DEF Ours
<1>16. i = Dev!write_FCR(f, x, y)
  BY <1>10, <1>12, <1>14, Zenon DEF Dev!write_FCR, With
<1>17. i = Lpspi_Ip_Init(d)
  BY <1>2, <1>4, <1>6, <1>8, <1>16, Zenon DEF Lpspi_Ip_Init
<1> QED BY <1>1, <1>15, <1>17, Zenon

\* The driver starts idle.
LEMMA InitInv == Init => Inv
<1> SUFFICES ASSUME Init PROVE Inv
  BY Zenon
<1>1. pc = [c \in Caller |-> "idle"] /\ Status = "IDLE"
  BY Zenon DEF Init
<1>2. \A c \in Caller : pc[c] = "idle"
  BY <1>1, Zenon
<1>3. Control
  BY <1>1, <1>2, Zenon DEF Control, Places
<1>4. job.frames = 0 /\ job.framesz = 8 /\ job.timeout = 1
  BY DEF Init
<1>5. 8 \in Size /\ 0 \in Nat /\ 1 \in Nat \ {0} /\ ~ (0 > 0)
  BY DEF Size
<1>6. DOMAIN State = StateFields /\ Ours(dev)
  BY InitOurs, Zenon DEF Init, StateFields
<1>7. Types /\ Ended
  BY <1>1, <1>4, <1>5, <1>6, Zenon DEF Types, Ended
<1>8. \A c \in Caller : At(pc[c])
  <2> SUFFICES ASSUME NEW c \in Caller PROVE At(pc[c])
    BY Zenon
  <2> QED BY <1>2, Zenon DEF At, Exchanging
<1> QED BY <1>3, <1>7, <1>8, Zenon DEF Inv

\* Every step of a task, and a stuttering step, keeps the invariant.
LEMMA NextInv == Inv /\ [Next]_vars => Inv'
<1> SUFFICES ASSUME Inv, [Next]_vars PROVE Inv'
  BY Zenon
<1>1. CASE UNCHANGED vars
  <2>1. UNCHANGED <<dev, Status, State, pc, todo, Elapsed, job>>
    BY <1>1, Zenon DEF vars
  <2> QED BY <2>1, NothingNew, Zenon
<1>2. CASE Next
  <2>1. PICK c \in Caller :
           Call(c) \/ Begin(c) \/ Setup(c) \/ Command(c) \/ LoopTest(c) \/ Receive(c)
           \/ Send(c) \/ ClearCs(c) \/ Elapse(c)
    BY <1>2, Zenon DEF Next
  <2>2. CASE Call(c)
    BY <2>2, CallKeeps, Zenon
  <2>3. CASE Begin(c)
    BY <2>3, BeginKeeps, Zenon
  <2>4. CASE Setup(c)
    BY <2>4, SetupKeeps, Zenon
  <2>5. CASE Command(c)
    BY <2>5, CommandKeeps, Zenon
  <2>6. CASE LoopTest(c)
    BY <2>6, LoopEnds, LoopTurns, Zenon
  <2>7. CASE Receive(c)
    BY <2>7, FrameRead, ReceiveEnds, Zenon
  <2>8. CASE Send(c)
    BY <2>8, FrameSent, SendEnds, Zenon
  <2>9. CASE ClearCs(c)
    BY <2>9, ClearCsKeeps, Zenon
  <2>10. CASE Elapse(c)
    BY <2>10, ElapseKeeps, Zenon
  <2> QED BY <2>1, <2>2, <2>3, <2>4, <2>5, <2>6, <2>7, <2>8, <2>9, <2>10, Zenon
<1> QED BY <1>1, <1>2, Zenon

-----------------------------------------------------------------------------
(* What the invariant says. *)

\* The bytes in the RX buffer are the first of the transfer.
LEMMA BufferOrdered ==
    ASSUME Inv
    PROVE  AnswersInOrder
<1>1. ASSUME NEW c \in Caller, pc[c] \in Exchanging
      PROVE  State.RxBuffer = SubSeq(Sent(job), 1, Len(State.RxBuffer))
  <2>1. PICK p \in Exchanging : pc[c] = p
    BY <1>1, Zenon
  <2>2. Types /\ Flow(dev, State, job, Owed(p))
    BY <2>1, Inside, Zenon
  <2>3. PICK a : a = State.RxIndex
    BY Zenon
  <2>4. /\ job.framesz \in Size /\ job.frames \in Nat /\ a \in Nat
        /\ State.RxBuffer = Part(job, 0, a)
        /\ a <= State.TxIndex /\ State.TxIndex <= job.frames /\ State.TxIndex \in Nat
    BY <2>2, <2>3, Zenon DEF Types, Flow
  <2>5. a <= job.frames
    BY <2>4
  <2>6. Part(job, 0, a) = SubSeq(Sent(job), 1, Len(Part(job, 0, a)))
    BY <2>4, <2>5, PartSent, Zenon
  <2> QED BY <2>4, <2>6, Zenon
<1>2. Status = "IDLE" /\ job.frames > 0 => State.RxBuffer = Sent(job)
  BY Zenon DEF Inv, Ended
<1> QED BY <1>1, <1>2, Zenon DEF AnswersInOrder

\* Between two accesses the TX FIFO is empty.
LEMMA TxFifoEmpty ==
    ASSUME Inv
    PROVE  NothingWaits
<1> SUFFICES ASSUME NEW c \in Caller, pc[c] \in Exchanging
             PROVE  dev.tx_fifo = <<>> /\ dev.sr \cap {"TEF", "REF"} = {}
  BY Zenon DEF NothingWaits
<1>1. PICK p \in Exchanging : pc[c] = p
  BY Zenon
<1>2. Flow(dev, State, job, Owed(p))
  BY <1>1, Inside, Zenon
<1>3. dev.tx_fifo = <<>> /\ "TEF" \notin dev.sr /\ "REF" \notin dev.sr
  BY <1>2, Zenon DEF Flow, Ready, Opened
<1> QED BY <1>3, Zenon

\* The invariant of SyncTransmit.
THEOREM SyncInvariant == Spec => []Inv
BY InitInv, NextInv, PTL DEF Spec

\* A task only ever receives the answers to its own words, in their order, and
\* all of them when SyncTransmit returns success; also after transfers that
\* timed out with frames left in the FIFOs.
THEOREM AnswersOrdered == Spec => []AnswersInOrder
<1>1. Inv => AnswersInOrder
  BY BufferOrdered, Zenon
<1> QED BY <1>1, SyncInvariant, PTL

\* A word is exchanged as it is written: SyncTransmit never leaves one in the
\* TX FIFO, and no error flag is raised.
THEOREM NoneWaits == Spec => []NothingWaits
<1>1. Inv => NothingWaits
  BY TxFifoEmpty, Zenon
<1> QED BY <1>1, SyncInvariant, PTL

\* Every turn of the loop sends or receives, so that only a timeout of a single
\* turn strikes.
THEOREM NoTimeout == Spec => []TimeoutNeverStrikes
<1>1. Inv => TimeoutNeverStrikes
  BY Zenon DEF Inv, Ended, TimeoutNeverStrikes
<1> QED BY <1>1, SyncInvariant, PTL

\* The status is BUSY while, and only while, one task is inside SyncTransmit.
THEOREM OneAtATime == Spec => []OneTransfer
<1>1. Inv => OneTransfer
  BY Zenon DEF Inv, Control, OneTransfer
<1> QED BY <1>1, SyncInvariant, PTL
=============================================================================
