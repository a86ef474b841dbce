---------------------------- MODULE LpuartProofs ----------------------------
(***************************************************************************)
(* Proofs about Lpuart for every size of the multiplexer's ring and any    *)
(* number of typed characters.                                             *)
(***************************************************************************)
EXTENDS Lpuart, Integers, TLAPS

Fields == {"mux", "cr", "sr", "dr", "irq", "buffer", "prod", "cons", "handed", "stored"}

Record(d) == d = [f \in Fields |-> d[f]]

With(d, f, v) == [d EXCEPT ![f] = v]

\* A state of the device and its back end.  The ring holds no more characters
\* than it has places, and none without a multiplexer.
Device(d) ==
    /\ Record(d)
    /\ d.prod \in Nat /\ d.cons \in Nat
    /\ d.cons <= d.prod /\ d.prod - d.cons <= MUX_BUFFER_SIZE
    /\ d.mux \/ d.prod = d.cons
    /\ d.buffer \in [0 .. MUX_BUFFER_SIZE - 1 -> Nat]
    /\ d.handed \in Seq(Nat)

\* A ring of S places holds the k characters after the first l, from place c on.
Holds(b, c, k, l, S) == \A i \in 1 .. k : b[(c + i - 1) % S] = l + i

\* The first n characters were handed to the device or are in the ring, in
\* the order they were typed.
Ordered(d, n) ==
    /\ n = Len(d.handed) + (d.prod - d.cons)
    /\ \A i \in 1 .. Len(d.handed) : d.handed[i] = i
    /\ Holds(d.buffer, d.cons, d.prod - d.cons, Len(d.handed), MUX_BUFFER_SIZE)

\* Each stored character is in g or announced, and the interrupt line shows
\* the announced one.
Kept(d, g) ==
    /\ d.stored = g \cup Announced(d)
    /\ "RDRF" \in d.sr /\ "RIE" \in d.cr => d.irq

Good(d, g, n) == Device(d) /\ Ordered(d, n) /\ Kept(d, g)

\* What the properties rest on.  A poll that found room is still right when the
\* character is delivered, whatever the guest did in between.
Inv ==
    /\ typed \in Nat
    /\ Good(u, gone, typed)
    /\ watch => qemu_chr_be_can_write(u)

\* A product by a positive number is no smaller.
LEMMA Multiple ==
    ASSUME NEW m \in Nat \ {0}, NEW k \in Int
    PROVE  /\ k >= 1 => m * k >= m
           /\ k <= 0 => m * k <= 0
<1>1. ASSUME k >= 1 PROVE m * k >= m
  <2>1. PICK j \in Nat : k = j + 1
    BY <1>1
  <2>2. m * k = m * j + m /\ m * j \in Nat
    BY <2>1
  <2> QED BY <2>2
<1>2. ASSUME k <= 0 PROVE m * k <= 0
  <2>1. PICK j \in Nat : k = 0 - j
    BY <1>2
  <2>2. m * k = 0 - (m * j) /\ m * j \in Nat
    BY <2>1
  <2> QED BY <2>2
<1> QED BY <1>1, <1>2

\* The places of the ring: two characters less than its size apart have
\* different ones.
LEMMA Places ==
    ASSUME NEW m \in Nat \ {0}, NEW a \in Nat, NEW b \in Nat, a < b, b < a + m
    PROVE  a % m # b % m
<1>1. PICK p \in Int, q \in Int : /\ a = m * p + (a % m) /\ b = m * q + (b % m)
                                 /\ a % m \in Int /\ b % m \in Int
  <2>1. \A c \in Nat : /\ c \div m \in Int /\ c % m \in Int
                       /\ c = m * (c \div m) + (c % m)
    OBVIOUS
  <2> QED BY <2>1, Zenon
<1> SUFFICES ASSUME a % m = b % m PROVE FALSE
  OBVIOUS
<1>2. PICK k \in Int : k = q - p
  OBVIOUS
<1>3. m * k = m * q - m * p /\ m * k \in Int /\ m * q \in Int /\ m * p \in Int
  BY <1>2
<1>4. m * k = b - a
  BY <1>1, <1>3
<1>5. 0 < m * k /\ m * k < m
  BY <1>4
<1> QED BY <1>2, <1>5, Multiple

\* The place of a character is one of the ring's.
LEMMA InRing ==
    ASSUME NEW m \in Nat \ {0}, NEW a \in Nat
    PROVE  a % m \in 0 .. m - 1
OBVIOUS

\* A field is assigned.
LEMMA Assigned ==
    \A d, v : \A g \in Fields :
        Record(d) => /\ Record(With(d, g, v))
                     /\ With(d, g, v)[g] = v
                     /\ \A f \in Fields \ {g} : With(d, g, v)[f] = d[f]
<1> SUFFICES ASSUME NEW d, NEW v, NEW g \in Fields, Record(d)
             PROVE  /\ Record(With(d, g, v))
                    /\ With(d, g, v)[g] = v
                    /\ \A f \in Fields \ {g} : With(d, g, v)[f] = d[f]
  BY Zenon
<1>1. DOMAIN d = Fields
  BY Zenon DEF Record
<1> QED BY <1>1, Zenon DEF Record, With

\* lpuart_update_irq computes the interrupt line and nothing else.
LEMMA IrqFields ==
    ASSUME NEW d, Record(d), NEW e, e = lpuart_update_irq(d)
    PROVE  /\ Record(e)
           /\ e.irq = Enabled(d.sr, d.cr)
           /\ \A f \in Fields \ {"irq"} : e[f] = d[f]
<1>1. PICK v : v = Enabled(d.sr, d.cr)
  BY Zenon
<1>2. e = With(d, "irq", v)
  BY <1>1, Zenon DEF lpuart_update_irq, With
<1>3. "irq" \in Fields
  BY Zenon DEF Fields
<1>4. Record(e) /\ e["irq"] = v /\ \A f \in Fields \ {"irq"} : e[f] = d[f]
  BY <1>2, <1>3, Assigned
<1> QED BY <1>1, <1>4, Zenon

\* What the ring and the order of the characters depend on, the character
\* handed over last aside.
SameRing(d, e) ==
    /\ e.mux = d.mux /\ e.buffer = d.buffer /\ e.prod = d.prod /\ e.cons = d.cons

\* What lpuart_receive does to the fields.
LEMMA ReceiveFields ==
    ASSUME NEW d, Record(d), NEW ch, NEW e, e = lpuart_receive(d, ch)
    PROVE  /\ Record(e)
           /\ e.handed = Append(d.handed, ch)
           /\ SameRing(d, e)
           /\ e.cr = d.cr
           /\ "RE" \in d.cr => /\ e.dr = ch /\ e.sr = d.sr \cup {"RDRF"}
                               /\ e.stored = d.stored \cup {ch}
                               /\ e.irq = Enabled(e.sr, e.cr)
           /\ "RE" \notin d.cr => /\ e.dr = d.dr /\ e.sr = d.sr /\ e.stored = d.stored
                                  /\ e.irq = d.irq
<1>0. /\ "handed" \in Fields /\ "dr" \in Fields /\ "sr" \in Fields /\ "stored" \in Fields
      /\ "cr" \in Fields
  BY Zenon DEF Fields
<1>5. PICK q : q = Append(d.handed, ch)
  BY Zenon
<1>1. PICK h : h = With(d, "handed", q)
  BY Zenon
<1>2. /\ Record(h) /\ h["handed"] = q
      /\ \A f \in Fields \ {"handed"} : h[f] = d[f]
  BY <1>0, <1>1, Assigned
<1>3. CASE "RE" \notin d.cr
  <2>1. e = h
    BY <1>1, <1>3, <1>5, Zenon DEF lpuart_receive, With
  <2>2. /\ e.mux = d.mux /\ e.buffer = d.buffer /\ e.prod = d.prod /\ e.cons = d.cons
        /\ e.cr = d.cr /\ e.dr = d.dr /\ e.sr = d.sr /\ e.stored = d.stored /\ e.irq = d.irq
    BY <1>2, <2>1 DEF Fields
  <2> QED BY <1>2, <1>3, <1>5, <2>1, <2>2, Zenon DEF SameRing
<1>4. CASE "RE" \in d.cr
  <2>1. PICK x : x = With(With(h, "dr", ch), "sr", d.sr \cup {"RDRF"})
    BY Zenon
  <2>2. /\ Record(x) /\ x["dr"] = ch /\ x["sr"] = d.sr \cup {"RDRF"}
        /\ \A f \in Fields \ {"dr", "sr"} : x[f] = h[f]
    BY <1>0, <1>2, <2>1, Assigned
  <2>3. PICK y : y = With(x, "stored", d.stored \cup {ch})
    BY Zenon
  <2>4. /\ Record(y) /\ y["stored"] = d.stored \cup {ch}
        /\ \A f \in Fields \ {"stored"} : y[f] = x[f]
    BY <1>0, <2>2, <2>3, Assigned
  <2>5. e = lpuart_update_irq(y)
    <3>1. DOMAIN d = Fields /\ DOMAIN h = Fields
      BY <1>2, Zenon DEF Record
    <3>2. h.sr = d.sr /\ h.stored = d.stored
      BY <1>2 DEF Fields
    <3> QED BY <1>0, <1>1, <1>4, <1>5, <2>1, <2>3, <3>1, <3>2, Zenon DEF lpuart_receive, With
  <2>6. /\ Record(e) /\ e.irq = Enabled(y.sr, y.cr)
        /\ \A f \in Fields \ {"irq"} : e[f] = y[f]
    BY <2>4, <2>5, IrqFields
  <2>7. /\ e["handed"] = h["handed"] /\ e["dr"] = ch /\ e["sr"] = d.sr \cup {"RDRF"}
        /\ e["stored"] = d.stored \cup {ch}
        /\ \A f \in {"mux", "buffer", "prod", "cons", "cr"} : e[f] = h[f]
    BY <2>2, <2>4, <2>6 DEF Fields
  <2>8. /\ e.mux = d.mux /\ e.buffer = d.buffer /\ e.prod = d.prod /\ e.cons = d.cons
        /\ e.cr = d.cr
    BY <1>2, <2>7 DEF Fields
  <2>9. e.sr = y.sr /\ e.cr = y.cr
    BY <2>6 DEF Fields
  <2> QED BY <1>2, <1>4, <1>5, <2>6, <2>7, <2>8, <2>9, Zenon DEF SameRing
<1> QED BY <1>3, <1>4, Zenon

\* lpuart_receive stores a character only where RDRF announces none.
LEMMA ReceiveKept ==
    ASSUME NEW d, Record(d), NEW g, Kept(d, g), lpuart_can_receive(d), NEW ch
    PROVE  Kept(lpuart_receive(d, ch), g)
<1>1. PICK e : e = lpuart_receive(d, ch)
  BY Zenon
<1>2. CASE "RE" \in d.cr
  <2>1. /\ e.dr = ch /\ e.sr = d.sr \cup {"RDRF"} /\ e.stored = d.stored \cup {ch}
        /\ e.irq = Enabled(e.sr, e.cr)
    BY <1>1, <1>2, ReceiveFields
  <2>2. Announced(d) = {} /\ Announced(e) = {ch}
    BY <2>1, Zenon DEF Announced, lpuart_can_receive
  <2>3. e.stored = g \cup Announced(e)
    BY <2>1, <2>2 DEF Kept
  <2>4. "RDRF" \in e.sr /\ "RIE" \in e.cr => e.irq
    BY <2>1, Zenon DEF Enabled
  <2> QED BY <1>1, <2>3, <2>4, Zenon DEF Kept
<1>3. CASE "RE" \notin d.cr
  <2>1. /\ e.dr = d.dr /\ e.sr = d.sr /\ e.stored = d.stored /\ e.irq = d.irq /\ e.cr = d.cr
    BY <1>1, <1>3, ReceiveFields
  <2> QED BY <1>1, <2>1, Zenon DEF Kept, Announced
<1> QED BY <1>2, <1>3, Zenon

\* The characters in the ring are a sequence.
LEMMA RingSeq ==
    ASSUME NEW d, Device(d)
    PROVE  /\ d.prod - d.cons \in Nat
           /\ Ring(d) \in Seq(Nat) /\ Len(Ring(d)) = d.prod - d.cons
           /\ \A i \in 1 .. d.prod - d.cons :
                  Ring(d)[i] = d.buffer[(d.cons + i - 1) % MUX_BUFFER_SIZE]
<1>1. PICK p \in Nat, c \in Nat : p = d.prod /\ c = d.cons /\ c <= p
  BY Zenon DEF Device
<1>2. PICK k \in Nat : k = p - c
  BY <1>1
<1>3. PICK b \in [0 .. MUX_BUFFER_SIZE - 1 -> Nat] : b = d.buffer
  BY Zenon DEF Device
<1>4. Ring(d) = [i \in 1 .. k |-> b[(c + i - 1) % MUX_BUFFER_SIZE]]
  BY <1>1, <1>2, <1>3, Zenon DEF Ring
<1>5. \A i \in 1 .. k : b[(c + i - 1) % MUX_BUFFER_SIZE] \in Nat
  <2> SUFFICES ASSUME NEW i \in 1 .. k
               PROVE  b[(c + i - 1) % MUX_BUFFER_SIZE] \in Nat
    BY Zenon
  <2>1. c + i - 1 \in Nat
    OBVIOUS
  <2>2. (c + i - 1) % MUX_BUFFER_SIZE \in 0 .. MUX_BUFFER_SIZE - 1
    BY <2>1, InRing, LpuartAssumption, Zenon
  <2> QED BY <2>2, Zenon
<1>6. /\ Ring(d) \in Seq(Nat) /\ Len(Ring(d)) = k
      /\ \A i \in 1 .. k : Ring(d)[i] = b[(c + i - 1) % MUX_BUFFER_SIZE]
  <2>1. Ring(d) \in [1 .. k -> Nat]
    BY <1>4, <1>5, Zenon
  <2>2. Ring(d) \in Seq(Nat) /\ Len(Ring(d)) = k
    BY <2>1
  <2> QED BY <1>4, <2>2, Zenon
<1> QED BY <1>1, <1>2, <1>3, <1>6, Zenon

\* A character that finds the ring empty and the device ready is handed over.
LEMMA ReceiveGood ==
    ASSUME NEW d, NEW g, NEW n \in Nat, Good(d, g, n), lpuart_can_receive(d), d.prod = d.cons
    PROVE  Good(lpuart_receive(d, n + 1), g, n + 1) /\ lpuart_receive(d, n + 1).mux = d.mux
<1>0. Device(d) /\ Ordered(d, n) /\ Kept(d, g) /\ Record(d)
  BY Zenon DEF Good, Device
<1>2. PICK m \in Nat : m = n + 1
  OBVIOUS
<1>1. PICK e : e = lpuart_receive(d, m)
  BY Zenon
<1>3. Record(e) /\ e.handed = Append(d.handed, m) /\ SameRing(d, e)
  BY <1>0, <1>1, ReceiveFields
<1>4. PICK h \in Seq(Nat) : h = d.handed
  BY <1>0, Zenon DEF Device
<1>5. Len(h) = n /\ \A i \in 1 .. n : h[i] = i
  <2>1. d.prod \in Nat /\ n = Len(h) + (d.prod - d.prod)
    BY <1>0, <1>4, Zenon DEF Ordered, Device
  <2>2. Len(h) = n
    BY <2>1
  <2> QED BY <1>0, <1>4, <2>2, Zenon DEF Ordered
<1>6. /\ e.handed \in Seq(Nat) /\ Len(e.handed) = m
      /\ \A i \in 1 .. m : e.handed[i] = i
  <2>1. /\ Append(h, m) \in Seq(Nat) /\ Len(Append(h, m)) = m
        /\ \A i \in 1 .. m : Append(h, m)[i] = i
    BY <1>2, <1>5
  <2> QED BY <1>3, <1>4, <2>1, Zenon
<1>7. Device(e)
  BY <1>0, <1>3, <1>6, Zenon DEF Device, SameRing
<1>8. Ordered(e, m)
  <2>1. e.prod = e.cons /\ e.prod \in Nat
    BY <1>0, <1>3, Zenon DEF Device, SameRing
  <2>2. e.prod - e.cons = 0 /\ 1 .. 0 = {} /\ m = m + 0
    BY <2>1
  <2> QED BY <1>6, <2>2, Zenon DEF Ordered, Holds
<1>9. Kept(e, g)
  BY <1>0, <1>1, ReceiveKept, Zenon
<1>10. e.mux = d.mux
  BY <1>3, Zenon DEF SameRing
<1> QED BY <1>1, <1>2, <1>7, <1>8, <1>9, <1>10, Zenon DEF Good

\* The places of the characters in a ring to which one is added.
LEMMA NextPlace ==
    ASSUME NEW S \in Nat \ {0}, NEW p \in Nat, NEW c \in Nat, c <= p, p - c < S,
           NEW i \in 1 .. (p + 1) - c
    PROVE  /\ c + i - 1 \in Nat
           /\ i = (p + 1) - c => c + i - 1 = p
           /\ i # (p + 1) - c => /\ i \in 1 .. p - c
                                 /\ c + i - 1 < p /\ p < (c + i - 1) + S
OBVIOUS

\* The ring to which the next character is added.
LEMMA PushRing ==
    ASSUME NEW S \in Nat \ {0}, NEW p \in Nat, NEW c \in Nat, c <= p, p - c < S,
           NEW l \in Nat, NEW b \in [0 .. S - 1 -> Nat],
           Holds(b, c, p - c, l, S)
    PROVE  Holds([b EXCEPT ![p % S] = (l + (p - c)) + 1], c, (p + 1) - c, l, S)
<1> DEFINE w == [b EXCEPT ![p % S] = (l + (p - c)) + 1]
<1> SUFFICES ASSUME NEW i \in 1 .. (p + 1) - c
             PROVE  w[(c + i - 1) % S] = l + i
  BY Zenon DEF Holds
<1>1. /\ c + i - 1 \in Nat
      /\ i = (p + 1) - c => c + i - 1 = p
      /\ i # (p + 1) - c => /\ i \in 1 .. p - c
                            /\ c + i - 1 < p /\ p < (c + i - 1) + S
  BY NextPlace
<1>2. (c + i - 1) % S \in 0 .. S - 1 /\ p % S \in 0 .. S - 1
  BY <1>1, InRing, Zenon
<1>3. CASE i = (p + 1) - c
  <2>1. (l + (p - c)) + 1 = l + i
    BY <1>3
  <2> QED BY <1>1, <1>2, <1>3, <2>1, Zenon
<1>4. CASE i # (p + 1) - c
  <2>1. (c + i - 1) % S # p % S
    BY <1>1, <1>4, Places, Zenon
  <2>2. w[(c + i - 1) % S] = b[(c + i - 1) % S]
    BY <1>2, <2>1, Zenon
  <2> QED BY <1>1, <1>4, <2>2, Zenon DEF Holds
<1> QED BY <1>3, <1>4, Zenon

\* Its numbers.
LEMMA PushNumbers ==
    ASSUME NEW S \in Nat \ {0}, NEW p \in Nat, NEW c \in Nat, c <= p, p - c < S,
           NEW l \in Nat
    PROVE  /\ p + 1 \in Nat /\ c <= p + 1 /\ (p + 1) - c <= S
           /\ (l + (p - c)) + 1 = l + ((p + 1) - c)
OBVIOUS

\* A character that finds them otherwise is put into the ring, if there is a
\* place for it.
LEMMA PushGood ==
    ASSUME NEW d, NEW g, NEW n \in Nat, Good(d, g, n), d.mux,
           d.prod - d.cons < MUX_BUFFER_SIZE
    PROVE  Good(Push(d, n + 1), g, n + 1) /\ Push(d, n + 1).mux
<1>0. Device(d) /\ Ordered(d, n) /\ Kept(d, g) /\ Record(d)
  BY Zenon DEF Good, Device
<1>1. PICK S \in Nat \ {0} : S = MUX_BUFFER_SIZE
  BY LpuartAssumption, Zenon
<1>2. PICK p \in Nat, c \in Nat : p = d.prod /\ c = d.cons /\ c <= p
  BY <1>0, Zenon DEF Device
<1>3. p - c < S
  BY <1>1, <1>2, Zenon
<1>5. c <= p
  BY <1>2, Zenon
<1>4. PICK b \in [0 .. S - 1 -> Nat] : b = d.buffer
  BY <1>0, <1>1, Zenon DEF Device
<1>6. PICK w : w = [b EXCEPT ![p % S] = n + 1]
  BY Zenon
<1>8. PICK e : e = Push(d, n + 1)
  BY Zenon
<1>9. e = With(With(d, "buffer", w), "prod", p + 1)
  <2>1. DOMAIN d = Fields /\ "buffer" \in Fields /\ "prod" \in Fields
    BY <1>0, Zenon DEF Record, Fields
  <2> QED BY <1>1, <1>2, <1>4, <1>6, <1>8, <2>1, Zenon DEF Push, With
<1>10. /\ Record(e) /\ e["buffer"] = w /\ e["prod"] = p + 1
       /\ \A f \in Fields \ {"buffer", "prod"} : e[f] = d[f]
  <2>1. "buffer" \in Fields /\ "prod" \in Fields
    BY Zenon DEF Fields
  <2> QED BY <1>0, <1>9, <2>1, Assigned
<1>11. /\ e.mux = d.mux /\ e.cons = d.cons /\ e.handed = d.handed /\ e.stored = d.stored
       /\ e.sr = d.sr /\ e.cr = d.cr /\ e.dr = d.dr /\ e.irq = d.irq
  BY <1>10, Zenon DEF Fields
<1>12. w \in [0 .. S - 1 -> Nat]
  <2>1. n + 1 \in Nat
    OBVIOUS
  <2> QED BY <1>6, <2>1, Zenon
<1>13. PICK h \in Seq(Nat) : h = d.handed
  BY <1>0, Zenon DEF Device
<1>14. PICK l \in Nat : l = Len(h)
  BY <1>13
<1>15. /\ n = l + (p - c) /\ \A i \in 1 .. l : h[i] = i
       /\ Holds(b, c, p - c, l, S)
  BY <1>0, <1>1, <1>2, <1>4, <1>13, <1>14, Zenon DEF Ordered
<1>16. p + 1 \in Nat /\ c <= p + 1 /\ (p + 1) - c <= S /\ n + 1 = l + ((p + 1) - c)
  <2>1. /\ p + 1 \in Nat /\ c <= p + 1 /\ (p + 1) - c <= S
        /\ (l + (p - c)) + 1 = l + ((p + 1) - c)
    BY <1>3, <1>5, PushNumbers
  <2> QED BY <1>15, <2>1, Zenon
<1>17. Holds(w, c, (p + 1) - c, l, S)
  <2>1. Holds([b EXCEPT ![p % S] = (l + (p - c)) + 1], c, (p + 1) - c, l, S)
    <3>1. Holds(b, c, p - c, l, S)
      BY <1>15, Zenon
    <3> QED BY <1>3, <1>5, <3>1, PushRing, Zenon
  <2> QED BY <1>6, <1>15, <2>1, Zenon
<1>18. Device(e)
  BY <1>0, <1>1, <1>2, <1>10, <1>11, <1>12, <1>16, Zenon DEF Device
<1>19. Ordered(e, n + 1)
  <2>1. e.prod = p + 1 /\ e.cons = c /\ e.handed = h /\ e.buffer = w
    BY <1>2, <1>10, <1>11, <1>13, Zenon
  <2>2. /\ n + 1 = Len(e.handed) + (e.prod - e.cons)
        /\ \A i \in 1 .. Len(e.handed) : e.handed[i] = i
    BY <1>14, <1>15, <1>16, <2>1, Zenon
  <2>3. Holds(e.buffer, e.cons, e.prod - e.cons, Len(e.handed), MUX_BUFFER_SIZE)
    BY <1>1, <1>14, <1>17, <2>1, Zenon
  <2> QED BY <2>2, <2>3, Zenon DEF Ordered
<1>20. Kept(e, g)
  BY <1>0, <1>11, Zenon DEF Kept, Announced
<1> QED BY <1>8, <1>11, <1>18, <1>19, <1>20, Zenon DEF Good

\* The ring from which the first character is taken.
LEMMA TakeRing ==
    ASSUME NEW S \in Nat \ {0}, NEW p \in Nat, NEW c \in Nat, c < p,
           NEW l \in Nat, NEW b, Holds(b, c, p - c, l, S)
    PROVE  /\ b[(c + 1 - 1) % S] = l + 1
           /\ Holds(b, c + 1, p - (c + 1), l + 1, S)
<1>1. 1 \in 1 .. p - c
  OBVIOUS
<1>2. ASSUME NEW i \in 1 .. p - (c + 1)
      PROVE  b[((c + 1) + i - 1) % S] = (l + 1) + i
  <2>1. i + 1 \in 1 .. p - c /\ (c + 1) + i - 1 = c + (i + 1) - 1 /\ (l + 1) + i = l + (i + 1)
    OBVIOUS
  <2>2. b[(c + (i + 1) - 1) % S] = l + (i + 1)
    BY <2>1, Zenon DEF Holds
  <2> QED BY <2>1, <2>2, Zenon
<1> QED BY <1>1, <1>2, Zenon DEF Holds

\* Its numbers.
LEMMA TakeNumbers ==
    ASSUME NEW S \in Nat \ {0}, NEW p \in Nat, NEW c \in Nat, c < p, p - c <= S, NEW l \in Nat
    PROVE  /\ c + 1 \in Nat /\ l + 1 \in Nat /\ c + 1 <= p
           /\ p - (c + 1) <= S /\ p - (c + 1) < S
           /\ l + (p - c) = (l + 1) + (p - (c + 1))
OBVIOUS

\* What mux_chr_accept_input does with the ring when the receiver is on, and
\* when it is off.
Take(d) == lpuart_receive([d EXCEPT !.cons = @ + 1], Head(Ring(d)))

Drop(d) == [d EXCEPT !.cons = d.prod, !.handed = @ \o Ring(d)]

\* The device, ready and its receiver on, takes the first character of the ring.
LEMMA TakeGood ==
    ASSUME NEW d, NEW g, NEW n \in Nat, Good(d, g, n), lpuart_can_receive(d), d.prod # d.cons,
           NEW e, e = Take(d)
    PROVE  Good(e, g, n) /\ e.mux = d.mux /\ e.prod - e.cons < MUX_BUFFER_SIZE
<1>0. Device(d) /\ Ordered(d, n) /\ Kept(d, g) /\ Record(d) /\ "cons" \in Fields
  BY Zenon DEF Good, Device, Fields
<1>1. PICK S \in Nat \ {0} : S = MUX_BUFFER_SIZE
  BY LpuartAssumption, Zenon
<1>2. PICK p \in Nat, c \in Nat : p = d.prod /\ c = d.cons /\ c <= p /\ p - c <= S
  BY <1>0, <1>1, Zenon DEF Device
<1>3. c < p /\ p - c <= S
  <2>1. c # p
    BY <1>2, Zenon
  <2>2. c <= p /\ p - c <= S
    BY <1>2, Zenon
  <2> QED BY <2>1, <2>2
<1>4. PICK h \in Seq(Nat) : h = d.handed
  BY <1>0, Zenon DEF Device
<1>5. PICK l \in Nat : l = Len(h)
  BY <1>4
<1>6. n = l + (p - c) /\ (\A i \in 1 .. l : h[i] = i)
  BY <1>0, <1>2, <1>4, <1>5, Zenon DEF Ordered
<1>7. Holds(d.buffer, c, p - c, l, S)
  BY <1>0, <1>1, <1>2, <1>4, <1>5, Zenon DEF Ordered
<1>8. d.buffer[(c + 1 - 1) % S] = l + 1 /\ Holds(d.buffer, c + 1, p - (c + 1), l + 1, S)
  BY <1>3, <1>7, TakeRing, Zenon
<1>9. /\ c + 1 \in Nat /\ l + 1 \in Nat /\ c + 1 <= p
      /\ p - (c + 1) <= S /\ p - (c + 1) < S
      /\ l + (p - c) = (l + 1) + (p - (c + 1))
  BY <1>3, TakeNumbers
<1>10. Head(Ring(d)) = l + 1
  <2>1. PICK r : r = Ring(d)
    BY Zenon
  <2>2. /\ r \in Seq(Nat) /\ Len(r) = p - c
        /\ \A i \in 1 .. p - c : r[i] = d.buffer[(c + i - 1) % S]
    BY <1>0, <1>1, <1>2, <2>1, RingSeq, Zenon
  <2>3. 1 \in 1 .. p - c
    BY <1>3
  <2>4. r[1] = l + 1
    BY <1>8, <2>2, <2>3, Zenon
  <2>5. Head(r) = r[1]
    BY <2>2, <2>3
  <2> QED BY <2>1, <2>4, <2>5, Zenon
<1>11. PICK x : x = With(d, "cons", c + 1)
  BY Zenon
<1>12. Record(x) /\ x["cons"] = c + 1 /\ \A f \in Fields \ {"cons"} : x[f] = d[f]
  BY <1>0, <1>11, Assigned
<1>13. /\ x.mux = d.mux /\ x.prod = d.prod /\ x.buffer = d.buffer /\ x.handed = d.handed
       /\ x.stored = d.stored /\ x.sr = d.sr /\ x.cr = d.cr /\ x.dr = d.dr /\ x.irq = d.irq
  BY <1>12, Zenon DEF Fields
<1>14. e = lpuart_receive(x, l + 1)
  <2>1. x = [d EXCEPT !.cons = @ + 1]
    BY <1>2, <1>11, Zenon DEF With
  <2> QED BY <1>10, <2>1, Zenon DEF Take
<1>15. Kept(x, g) /\ lpuart_can_receive(x)
  BY <1>0, <1>13, Zenon DEF Kept, Announced, lpuart_can_receive
<1>16. Kept(e, g)
  BY <1>12, <1>14, <1>15, ReceiveKept, Zenon
<1>17. Record(e) /\ e.handed = Append(x.handed, l + 1) /\ SameRing(x, e)
  <2>1. PICK ch : ch = l + 1
    BY Zenon
  <2>2. Record(e) /\ e.handed = Append(x.handed, ch) /\ SameRing(x, e)
    <3>1. e = lpuart_receive(x, ch) /\ Record(x)
      BY <1>12, <1>14, <2>1, Zenon
    <3> QED BY <3>1, ReceiveFields
  <2> QED BY <2>1, <2>2, Zenon
<1>18. /\ e.mux = d.mux /\ e.prod = p /\ e.cons = c + 1 /\ e.buffer = d.buffer
       /\ e.handed = Append(h, l + 1)
  BY <1>2, <1>4, <1>12, <1>13, <1>17, Zenon DEF SameRing
<1>19. /\ Append(h, l + 1) \in Seq(Nat) /\ Len(Append(h, l + 1)) = l + 1
       /\ \A i \in 1 .. l + 1 : Append(h, l + 1)[i] = i
  BY <1>5, <1>6
<1>20. Device(e)
  <2>1. d.mux
    BY <1>0, Zenon DEF Device
  <2> QED BY <1>0, <1>1, <1>9, <1>17, <1>18, <1>19, <2>1, Zenon DEF Device
<1>21. Ordered(e, n)
  BY <1>1, <1>6, <1>8, <1>9, <1>18, <1>19, Zenon DEF Ordered
<1> QED BY <1>1, <1>9, <1>16, <1>18, <1>20, <1>21, Zenon DEF Good

\* One sequence after another.
LEMMA Concatenated ==
    ASSUME NEW h \in Seq(Nat), NEW r \in Seq(Nat)
    PROVE  /\ h \o r \in Seq(Nat) /\ Len(h \o r) = Len(h) + Len(r)
           /\ \A i \in 1 .. Len(h) : (h \o r)[i] = h[i]
           /\ \A i \in 1 .. Len(h) + Len(r) :
                  i \notin 1 .. Len(h) => (h \o r)[i] = r[i - Len(h)]
<1>1. h \o r \in Seq(Nat) /\ Len(h \o r) = Len(h) + Len(r)
  OBVIOUS
<1>2. \A i \in 1 .. Len(h) : (h \o r)[i] = h[i]
  OBVIOUS
<1>3. \A i \in 1 .. Len(h) + Len(r) : i \notin 1 .. Len(h) => (h \o r)[i] = r[i - Len(h)]
  OBVIOUS
<1> QED BY <1>1, <1>2, <1>3, Zenon

Numbered(h, l) == \A i \in 1 .. l : h[i] = i

NumberedAfter(r, k, l) == \A i \in 1 .. k : r[i] = l + i

\* The characters handed over with the ones in the ring after them.
LEMMA Joined ==
    ASSUME NEW h \in Seq(Nat), NEW r \in Seq(Nat),
           Numbered(h, Len(h)), NumberedAfter(r, Len(r), Len(h))
    PROVE  Numbered(h \o r, Len(h) + Len(r))
<1>1. PICK l \in Nat, k \in Nat : l = Len(h) /\ k = Len(r)
  OBVIOUS
<1>2. /\ \A i \in 1 .. l : (h \o r)[i] = h[i]
      /\ \A i \in 1 .. l + k : i \notin 1 .. l => (h \o r)[i] = r[i - l]
  BY <1>1, Concatenated, Zenon
<1>3. ASSUME NEW i \in 1 .. l + k PROVE (h \o r)[i] = i
  <2>1. CASE i \in 1 .. l
    BY <1>1, <1>2, <2>1, Zenon DEF Numbered
  <2>2. CASE i \notin 1 .. l
    <3>1. i - l \in 1 .. k /\ l + (i - l) = i
      BY <2>2
    <3> QED BY <1>1, <1>2, <2>2, <3>1, Zenon DEF NumberedAfter
  <2> QED BY <2>1, <2>2, Zenon
<1> QED BY <1>1, <1>3, Zenon DEF Numbered

\* The device, ready and its receiver off, drops the whole ring.
LEMMA DropGood ==
    ASSUME NEW d, NEW g, NEW n \in Nat, Good(d, g, n),
           NEW e, e = Drop(d)
    PROVE  Good(e, g, n) /\ e.mux = d.mux /\ e.prod - e.cons < MUX_BUFFER_SIZE
<1>0. /\ Device(d) /\ Ordered(d, n) /\ Kept(d, g) /\ Record(d)
      /\ "cons" \in Fields /\ "handed" \in Fields
  BY Zenon DEF Good, Device, Fields
<1>1. PICK S \in Nat \ {0} : S = MUX_BUFFER_SIZE
  BY LpuartAssumption, Zenon
<1>2. PICK p \in Nat, c \in Nat : p = d.prod /\ c = d.cons /\ c <= p /\ p - c <= S
  BY <1>0, <1>1, Zenon DEF Device
<1>3. PICK k \in Nat : k = p - c
  <2>1. c <= p
    BY <1>2, Zenon
  <2> QED BY <2>1
<1>4. PICK h \in Seq(Nat) : h = d.handed
  BY <1>0, Zenon DEF Device
<1>5. PICK l \in Nat : l = Len(h)
  BY <1>4
<1>6. n = l + k /\ \A i \in 1 .. l : h[i] = i
  BY <1>0, <1>2, <1>3, <1>4, <1>5, Zenon DEF Ordered
<1>7. \A i \in 1 .. k : d.buffer[(c + i - 1) % S] = l + i
  BY <1>0, <1>1, <1>2, <1>3, <1>4, <1>5, Zenon DEF Ordered, Holds
<1>8. PICK r \in Seq(Nat) : r = Ring(d) /\ Len(r) = k /\ \A i \in 1 .. k : r[i] = l + i
  <2>1. /\ Ring(d) \in Seq(Nat) /\ Len(Ring(d)) = k
        /\ \A i \in 1 .. k : Ring(d)[i] = d.buffer[(c + i - 1) % S]
    BY <1>0, <1>1, <1>2, <1>3, RingSeq, Zenon
  <2> QED BY <1>7, <2>1, ZenonT(30)
<1>9. PICK q : q = h \o r
  BY Zenon
<1>10. q \in Seq(Nat) /\ Len(q) = n /\ \A i \in 1 .. n : q[i] = i
  <2>1. Numbered(h, Len(h)) /\ NumberedAfter(r, Len(r), Len(h))
    BY <1>5, <1>6, <1>8, Zenon DEF Numbered, NumberedAfter
  <2>2. /\ h \o r \in Seq(Nat) /\ Len(h \o r) = Len(h) + Len(r)
        /\ Numbered(h \o r, Len(h) + Len(r))
    BY <2>1, Concatenated, Joined, Zenon
  <2>3. n = Len(h) + Len(r)
    BY <1>5, <1>6, <1>8, Zenon
  <2> QED BY <1>9, <2>2, <2>3, Zenon DEF Numbered
<1>11. e = With(With(d, "cons", p), "handed", q)
  BY <1>0, <1>2, <1>4, <1>8, <1>9, Zenon DEF Drop, With
<1>12. /\ Record(e) /\ e["cons"] = p /\ e["handed"] = q
       /\ \A f \in Fields \ {"cons", "handed"} : e[f] = d[f]
  <2>1. PICK x : x = With(d, "cons", p)
    BY Zenon
  <2>2. Record(x) /\ x["cons"] = p /\ \A f \in Fields \ {"cons"} : x[f] = d[f]
    BY <1>0, <2>1, Assigned
  <2>3. Record(e) /\ e["handed"] = q /\ \A f \in Fields \ {"handed"} : e[f] = x[f]
    <3>1. e = With(x, "handed", q)
      BY <1>11, <2>1, Zenon
    <3> QED BY <1>0, <2>2, <3>1, Assigned
  <2> QED BY <1>0, <2>2, <2>3, Zenon
<1>13. /\ e.mux = d.mux /\ e.prod = d.prod /\ e.buffer = d.buffer
       /\ e.stored = d.stored /\ e.sr = d.sr /\ e.cr = d.cr /\ e.dr = d.dr /\ e.irq = d.irq
  BY <1>12, Zenon DEF Fields
<1>14. p <= p /\ p - p <= S /\ p - p < S /\ p - p = 0 /\ 1 .. 0 = {} /\ n = n + 0
  OBVIOUS
<1>15. Device(e)
  BY <1>0, <1>1, <1>2, <1>10, <1>12, <1>13, <1>14, Zenon DEF Device
<1>16. Ordered(e, n)
  <2>1. e.prod = p /\ e.cons = p /\ e.handed = q
    BY <1>2, <1>12, <1>13, Zenon
  <2>2. e.prod - e.cons = 0 /\ Len(e.handed) = n /\ \A i \in 1 .. Len(e.handed) : e.handed[i] = i
    BY <1>10, <1>14, <2>1, Zenon
  <2> QED BY <1>14, <2>2, Zenon DEF Ordered, Holds
<1>17. Kept(e, g)
  BY <1>0, <1>13, Zenon DEF Kept, Announced
<1> QED BY <1>1, <1>2, <1>12, <1>13, <1>14, <1>15, <1>16, <1>17, Zenon DEF Good

\* mux_chr_accept_input makes room: if the device was ready or the ring was not
\* full, it is not full afterwards.
LEMMA AcceptGood ==
    ASSUME NEW d, NEW g, NEW n \in Nat, Good(d, g, n), NEW e, e = mux_chr_accept_input(d)
    PROVE  /\ Good(e, g, n) /\ e.mux = d.mux
           /\ mux_chr_can_read(d) => e.prod - e.cons < MUX_BUFFER_SIZE
<1>1. CASE d.prod = d.cons
  <2>1. e = d
    BY <1>1, Zenon DEF mux_chr_accept_input
  <2>2. d.prod - d.cons < MUX_BUFFER_SIZE
    <3>1. PICK p \in Nat : p = d.prod
      BY Zenon DEF Good, Device
    <3>2. p - p < MUX_BUFFER_SIZE
      BY LpuartAssumption
    <3> QED BY <1>1, <3>1, <3>2, Zenon
  <2> QED BY <2>1, <2>2, Zenon
<1>2. CASE d.prod # d.cons /\ ~lpuart_can_receive(d)
  <2>1. e = d
    BY <1>2, Zenon DEF mux_chr_accept_input
  <2> QED BY <1>2, <2>1, Zenon DEF mux_chr_can_read
<1>3. CASE d.prod # d.cons /\ lpuart_can_receive(d) /\ "RE" \in d.cr
  <2>1. e = Take(d)
    BY <1>3, Zenon DEF mux_chr_accept_input, Take
  <2> QED BY <1>3, <2>1, TakeGood, Zenon
<1>4. CASE d.prod # d.cons /\ lpuart_can_receive(d) /\ "RE" \notin d.cr
  <2>1. e = Drop(d)
    BY <1>4, Zenon DEF mux_chr_accept_input, Drop
  <2> QED BY <2>1, DropGood, Zenon
<1> QED BY <1>1, <1>2, <1>3, <1>4, Zenon

\* A character delivered after a poll that allowed it finds room.
LEMMA WriteGood ==
    ASSUME NEW d, NEW g, NEW n \in Nat, Good(d, g, n), qemu_chr_be_can_write(d)
    PROVE  Good(qemu_chr_be_write(d, n + 1), g, n + 1)
<1>1. CASE ~d.mux
  <2>1. lpuart_can_receive(d) /\ d.prod = d.cons
    BY <1>1, Zenon DEF qemu_chr_be_can_write, Good, Device
  <2>2. qemu_chr_be_write(d, n + 1) = lpuart_receive(d, n + 1)
    BY <1>1, Zenon DEF qemu_chr_be_write
  <2> QED BY <2>1, <2>2, ReceiveGood, Zenon
<1>2. CASE d.mux
  <2>1. PICK a : a = mux_chr_accept_input(d)
    BY Zenon
  <2>2. Good(a, g, n) /\ a.mux = d.mux /\ a.prod - a.cons < MUX_BUFFER_SIZE
    BY <1>2, <2>1, AcceptGood, Zenon DEF qemu_chr_be_can_write
  <2>3. a.mux
    BY <1>2, <2>2, Zenon
  <2>4. qemu_chr_be_write(d, n + 1) = IF a.prod = a.cons /\ lpuart_can_receive(a)
                                      THEN lpuart_receive(a, n + 1) ELSE Push(a, n + 1)
    BY <1>2, <2>1, Zenon DEF qemu_chr_be_write, mux_chr_read
  <2>5. Good(Push(a, n + 1), g, n + 1)
    BY <2>2, <2>3, PushGood, Zenon
  <2>6. a.prod = a.cons /\ lpuart_can_receive(a) => Good(lpuart_receive(a, n + 1), g, n + 1)
    BY <2>2, ReceiveGood, Zenon
  <2> QED BY <2>4, <2>5, <2>6, Zenon
<1> QED BY <1>1, <1>2, Zenon

\* An access that touches only the registers, and no character that RDRF does
\* not announce.
LEMMA QuietGood ==
    ASSUME NEW d, NEW g, NEW n, Good(d, g, n), NEW e, Record(e),
           SameRing(d, e), e.handed = d.handed, e.stored = d.stored,
           Announced(e) \subseteq Announced(d), "RDRF" \in e.sr => "RDRF" \in d.sr,
           "RDRF" \in e.sr /\ "RIE" \in e.cr => e.irq
    PROVE  /\ Good(e, g \cup (Announced(d) \ Announced(e)), n)
           /\ qemu_chr_be_can_write(d) => qemu_chr_be_can_write(e)
<1>1. Device(e)
  BY Zenon DEF Good, Device, SameRing
<1>2. Ordered(e, n)
  <2>1. Ordered(d, n) /\ e.prod = d.prod /\ e.cons = d.cons /\ e.buffer = d.buffer
    BY Zenon DEF Good, SameRing
  <2>2. /\ Len(e.handed) = Len(d.handed) /\ e.prod - e.cons = d.prod - d.cons
    BY <2>1, Zenon
  <2>3. /\ n = Len(d.handed) + (d.prod - d.cons)
        /\ \A i \in 1 .. Len(d.handed) : d.handed[i] = i
    BY <2>1, Zenon DEF Ordered
  <2>4. Holds(e.buffer, e.cons, e.prod - e.cons, Len(e.handed), MUX_BUFFER_SIZE)
    BY <2>1, <2>2, Zenon DEF Ordered
  <2> QED BY <2>2, <2>3, <2>4, Zenon DEF Ordered
<1>3. e.stored = (g \cup (Announced(d) \ Announced(e))) \cup Announced(e)
  <2>1. d.stored = g \cup Announced(d)
    BY Zenon DEF Good, Kept
  <2> QED BY <2>1, Zenon
<1>4. qemu_chr_be_can_write(d) => qemu_chr_be_can_write(e)
  BY Zenon DEF qemu_chr_be_can_write, mux_chr_can_read, lpuart_can_receive, SameRing
<1> QED BY <1>1, <1>2, <1>3, <1>4, Zenon DEF Good, Kept

\* The accesses of the guest but for the read of DATA: each changes sr, cr, dr
\* and irq alone.
LEMMA RegistersGood ==
    ASSUME NEW d, NEW g, NEW n, Good(d, g, n), NEW e,
           \/ e = lpuart_reset(d) \/ e = write_STAT_low(d)
           \/ \E flags : e = write_STAT_high(d, flags)
           \/ \E flags : e = write_CTRL(d, flags)
           \/ e = write_DATA(d)
    PROVE  /\ Good(e, g \cup (Announced(d) \ Announced(e)), n)
           /\ qemu_chr_be_can_write(d) => qemu_chr_be_can_write(e)
<1>0. /\ Record(d) /\ "sr" \in Fields /\ "cr" \in Fields /\ "dr" \in Fields /\ "irq" \in Fields
      /\ "RDRF" \in d.sr /\ "RIE" \in d.cr => d.irq
  BY Zenon DEF Good, Device, Fields, Kept
<1>1. CASE e = lpuart_reset(d)
  <2>1. PICK x : x = With(With(d, "cr", {}), "sr", {"TDRE", "TC"})
    BY Zenon
  <2>2. /\ Record(x) /\ x["sr"] = {"TDRE", "TC"}
        /\ \A f \in Fields \ {"cr", "sr"} : x[f] = d[f]
    BY <1>0, <2>1, Assigned
  <2>3. PICK y : y = With(x, "dr", 0)
    BY Zenon
  <2>4. Record(y) /\ \A f \in Fields \ {"dr"} : y[f] = x[f]
    BY <1>0, <2>2, <2>3, Assigned
  <2>5. e = lpuart_update_irq(y)
    BY <1>1, <2>1, <2>3, Zenon DEF lpuart_reset, With
  <2>6. Record(e) /\ \A f \in Fields \ {"irq"} : e[f] = y[f]
    BY <2>4, <2>5, IrqFields
  <2>7. /\ e["sr"] = {"TDRE", "TC"}
        /\ \A f \in {"mux", "buffer", "prod", "cons", "handed", "stored"} : e[f] = d[f]
    BY <2>2, <2>4, <2>6 DEF Fields
  <2>8. "RDRF" \notin e.sr /\ SameRing(d, e) /\ e.handed = d.handed /\ e.stored = d.stored
    BY <2>7, Zenon DEF SameRing
  <2> QED BY <2>6, <2>8, QuietGood, Zenon DEF Announced
<1>2. ASSUME NEW sr, e = With(d, "sr", sr), "RDRF" \in sr => "RDRF" \in d.sr
      PROVE  /\ Good(e, g \cup (Announced(d) \ Announced(e)), n)
             /\ qemu_chr_be_can_write(d) => qemu_chr_be_can_write(e)
  <2>1. Record(e) /\ e["sr"] = sr /\ \A f \in Fields \ {"sr"} : e[f] = d[f]
    BY <1>0, <1>2, Assigned
  <2>2. /\ SameRing(d, e) /\ e.handed = d.handed /\ e.stored = d.stored
        /\ e.cr = d.cr /\ e.dr = d.dr /\ e.irq = d.irq
    BY <2>1, Zenon DEF SameRing, Fields
  <2>3. "RDRF" \in e.sr => "RDRF" \in d.sr
    BY <1>2, <2>1, Zenon
  <2>4. Announced(e) \subseteq Announced(d) /\ ("RDRF" \in e.sr /\ "RIE" \in e.cr => e.irq)
    BY <1>0, <2>2, <2>3, Zenon DEF Announced
  <2> QED BY <2>1, <2>2, <2>3, <2>4, QuietGood, Zenon
<1>3. CASE e = write_STAT_low(d)
  <2>1. e = With(d, "sr", {"TDRE"}) /\ "RDRF" \notin {"TDRE"}
    BY <1>3, Zenon DEF write_STAT_low, With
  <2> QED BY <1>2, <2>1, Zenon
<1>4. CASE \E flags : e = write_STAT_high(d, flags)
  <2>1. PICK flags : e = write_STAT_high(d, flags)
    BY <1>4, Zenon
  <2>2. e = With(d, "sr", d.sr \cap flags) /\ ("RDRF" \in d.sr \cap flags => "RDRF" \in d.sr)
    BY <2>1, Zenon DEF write_STAT_high, With
  <2> QED BY <1>2, <2>2, Zenon
<1>5. ASSUME NEW f \in {"sr", "cr"}, NEW v, e = lpuart_update_irq(With(d, f, v)),
             f = "sr" => ("RDRF" \in v => "RDRF" \in d.sr)
      PROVE  /\ Good(e, g \cup (Announced(d) \ Announced(e)), n)
             /\ qemu_chr_be_can_write(d) => qemu_chr_be_can_write(e)
  <2>1. PICK x : x = With(d, f, v)
    BY Zenon
  <2>2. Record(x) /\ x[f] = v /\ \A h \in Fields \ {f} : x[h] = d[h]
    BY <1>0, <1>5, <2>1, Assigned
  <2>3. /\ Record(e) /\ e.irq = Enabled(x.sr, x.cr) /\ \A h \in Fields \ {"irq"} : e[h] = x[h]
    BY <1>5, <2>1, <2>2, IrqFields
  <2>4. /\ e["sr"] = x["sr"] /\ e["cr"] = x["cr"] /\ e["dr"] = x["dr"]
        /\ \A h \in {"mux", "buffer", "prod", "cons", "handed", "stored"} : e[h] = x[h]
    BY <2>3 DEF Fields
  <2>5. /\ x["dr"] = d["dr"] /\ (f = "cr" => x["sr"] = d["sr"])
        /\ \A h \in {"mux", "buffer", "prod", "cons", "handed", "stored"} : x[h] = d[h]
    BY <2>2 DEF Fields
  <2>6. SameRing(d, e) /\ e.handed = d.handed /\ e.stored = d.stored /\ e.dr = d.dr
    BY <2>4, <2>5, Zenon DEF SameRing
  <2>7. "RDRF" \in e.sr => "RDRF" \in d.sr
    BY <1>5, <2>2, <2>4, <2>5, Zenon
  <2>8. Announced(e) \subseteq Announced(d)
    BY <2>6, <2>7, Zenon DEF Announced
  <2>9. "RDRF" \in e.sr /\ "RIE" \in e.cr => e.irq
    BY <2>3, <2>4, Zenon DEF Enabled
  <2> QED BY <2>3, <2>6, <2>7, <2>8, <2>9, QuietGood, Zenon
<1>6. CASE \E flags : e = write_CTRL(d, flags)
  <2>1. PICK flags : e = lpuart_update_irq(With(d, "cr", flags))
    BY <1>6, Zenon DEF write_CTRL, With
  <2> QED BY <1>5, <2>1, Zenon
<1>7. CASE e = write_DATA(d)
  <2>1. /\ e = lpuart_update_irq(With(d, "sr", d.sr \cup {"TDRE"}))
        /\ "RDRF" \in d.sr \cup {"TDRE"} => "RDRF" \in d.sr
    BY <1>7, Zenon DEF write_DATA, With
  <2> QED BY <1>5, <2>1, Zenon
<1> QED BY <1>1, <1>3, <1>4, <1>6, <1>7, Zenon

\* A read of DATA gives up the announced character and lets the ring deliver
\* the next one.
LEMMA ReadGood ==
    ASSUME NEW d, NEW g, NEW n \in Nat, Good(d, g, n), NEW e, e = read_DATA(d)
    PROVE  /\ Good(e, g \cup (Announced(d) \ Announced(e)), n)
           /\ qemu_chr_be_can_write(d) => qemu_chr_be_can_write(e)
<1>0. Record(d) /\ "sr" \in Fields
  BY Zenon DEF Good, Device, Fields
<1>1. PICK c : c = With(d, "sr", d.sr \ {"RDRF"})
  BY Zenon
<1>2. /\ Good(c, g \cup Announced(d), n) /\ c.mux = d.mux
      /\ qemu_chr_be_can_write(d) => qemu_chr_be_can_write(c)
  <2>1. Record(c) /\ c["sr"] = d.sr \ {"RDRF"} /\ \A f \in Fields \ {"sr"} : c[f] = d[f]
    BY <1>0, <1>1, Assigned
  <2>2. SameRing(d, c) /\ c.handed = d.handed /\ c.stored = d.stored
    BY <2>1, Zenon DEF SameRing, Fields
  <2>3. "RDRF" \notin c.sr /\ Announced(c) = {}
    BY <2>1, Zenon DEF Announced
  <2>4. /\ Good(c, g \cup (Announced(d) \ Announced(c)), n)
        /\ qemu_chr_be_can_write(d) => qemu_chr_be_can_write(c)
    BY <2>1, <2>2, <2>3, QuietGood, Zenon
  <2>5. Announced(d) \ Announced(c) = Announced(d)
    BY <2>3, Zenon
  <2> QED BY <2>2, <2>4, <2>5, Zenon DEF SameRing
<1>3. PICK x : x = qemu_chr_fe_accept_input(c)
  BY Zenon
<1>4. /\ Good(x, g \cup Announced(d), n) /\ x.mux = d.mux
      /\ qemu_chr_be_can_write(c) => qemu_chr_be_can_write(x)
  <2>1. CASE ~d.mux
    <3>1. x = c
      BY <1>2, <1>3, <2>1, Zenon DEF qemu_chr_fe_accept_input
    <3> QED BY <1>2, <3>1, Zenon
  <2>2. CASE d.mux
    <3>1. x = mux_chr_accept_input(c)
      BY <1>2, <1>3, <2>2, Zenon DEF qemu_chr_fe_accept_input
    <3>2. /\ Good(x, g \cup Announced(d), n) /\ x.mux = c.mux
          /\ mux_chr_can_read(c) => x.prod - x.cons < MUX_BUFFER_SIZE
      BY <1>2, <3>1, AcceptGood, Zenon
    <3>3. mux_chr_can_read(c) => mux_chr_can_read(x)
      BY <3>2, Zenon DEF mux_chr_can_read
    <3> QED BY <1>2, <2>2, <3>2, <3>3, Zenon DEF qemu_chr_be_can_write
  <2> QED BY <2>1, <2>2, Zenon
<1>5. e = lpuart_update_irq(x)
  BY <1>1, <1>3, Zenon DEF read_DATA, With
<1>6. /\ Record(e) /\ e.irq = Enabled(x.sr, x.cr)
      /\ \A f \in Fields \ {"irq"} : e[f] = x[f]
  <2>1. Record(x)
    BY <1>4, Zenon DEF Good, Device
  <2> QED BY <1>5, <2>1, IrqFields
<1>7. /\ SameRing(x, e) /\ e.handed = x.handed /\ e.stored = x.stored
      /\ e.sr = x.sr /\ e.cr = x.cr /\ e.dr = x.dr
  BY <1>6, Zenon DEF SameRing, Fields
<1>8. Announced(e) = Announced(x) /\ ("RDRF" \in e.sr /\ "RIE" \in e.cr => e.irq)
  BY <1>6, <1>7, Zenon DEF Announced, Enabled
<1>9. /\ Good(e, (g \cup Announced(d)) \cup (Announced(x) \ Announced(e)), n)
      /\ qemu_chr_be_can_write(x) => qemu_chr_be_can_write(e)
  BY <1>4, <1>6, <1>7, <1>8, QuietGood, Zenon
<1>10. e.stored = (g \cup (Announced(d) \ Announced(e))) \cup Announced(e)
  <2>1. e.stored = ((g \cup Announced(d)) \cup (Announced(x) \ Announced(e))) \cup Announced(e)
    BY <1>9, Zenon DEF Good, Kept
  <2> QED BY <1>8, <2>1, Zenon
<1> QED BY <1>2, <1>4, <1>8, <1>9, <1>10, Zenon DEF Good, Kept

-----------------------------------------------------------------------------
(* The device and its back end. *)

\* The state at the start.
LEMMA InitGood == Init => Inv
<1> SUFFICES ASSUME Init PROVE Inv
  OBVIOUS
<1>1. /\ u \in [mux : BOOLEAN, cr : {{}}, sr : {{"TDRE", "TC"}}, dr : {0}, irq : {FALSE},
                buffer : [0 .. MUX_BUFFER_SIZE - 1 -> {0}],
                prod : {0}, cons : {0}, handed : {<<>>}, stored : {{}}]
      /\ ~watch /\ typed = 0 /\ gone = {}
  BY Zenon DEF Init
<1>2. Record(u)
  <2>1. DOMAIN u = Fields
    BY <1>1 DEF Fields
  <2>2. u = [f \in DOMAIN u |-> u[f]]
    BY <1>1
  <2> QED BY <2>1, <2>2, Zenon DEF Record
<1>3. /\ u.prod = 0 /\ u.cons = 0 /\ u.handed = <<>> /\ u.stored = {} /\ u.sr = {"TDRE", "TC"}
      /\ u.buffer \in [0 .. MUX_BUFFER_SIZE - 1 -> Nat]
  BY <1>1
<1>4. Device(u)
  <2>1. 0 \in Nat /\ 0 <= 0 /\ 0 - 0 <= MUX_BUFFER_SIZE /\ <<>> \in Seq(Nat)
    BY LpuartAssumption
  <2> QED BY <1>2, <1>3, <2>1, Zenon DEF Device
<1>5. Ordered(u, 0)
  <2>1. 0 = Len(<<>>) + (0 - 0) /\ 1 .. Len(<<>>) = {} /\ 1 .. (0 - 0) = {}
    OBVIOUS
  <2> QED BY <1>3, <2>1, Zenon DEF Ordered, Holds
<1>6. Kept(u, {})
  BY <1>3, Zenon DEF Kept, Announced
<1>7. 0 \in Nat
  OBVIOUS
<1> QED BY <1>1, <1>4, <1>5, <1>6, <1>7, Zenon DEF Inv, Good

\* Every step of the main loop and every access of the guest keeps Inv.
LEMMA NextKeeps == Inv /\ [Next]_vars => Inv'
<1> SUFFICES ASSUME Inv, [Next]_vars PROVE Inv'
  OBVIOUS
<1>0. typed \in Nat /\ Good(u, gone, typed) /\ (watch => qemu_chr_be_can_write(u))
  BY Zenon DEF Inv
<1>1. CASE Poll
  <2>1. /\ u' = u /\ typed' = typed /\ gone' = gone
        /\ watch' = qemu_chr_be_can_write(u)
    BY <1>1, Zenon DEF Poll
  <2> QED BY <1>0, <2>1, Zenon DEF Inv
<1>2. CASE fd_chr_read
  <2>1. /\ watch /\ typed' = typed + 1 /\ u' = qemu_chr_be_write(u, typed + 1)
        /\ watch' = FALSE /\ gone' = gone
    BY <1>2, Zenon DEF fd_chr_read
  <2>2. Good(qemu_chr_be_write(u, typed + 1), gone, typed + 1)
    BY <1>0, <2>1, WriteGood, Zenon
  <2>3. typed + 1 \in Nat
    BY <1>0
  <2>4. typed' \in Nat /\ Good(u', gone', typed') /\ ~watch'
    BY <2>1, <2>2, <2>3, Zenon
  <2> QED BY <2>4, Zenon DEF Inv
<1>3. ASSUME NEW e, Access(e),
             /\ Good(e, gone \cup (Announced(u) \ Announced(e)), typed)
             /\ qemu_chr_be_can_write(u) => qemu_chr_be_can_write(e)
      PROVE  Inv'
  <2>1. /\ u' = e /\ gone' = gone \cup (Announced(u) \ Announced(e))
        /\ watch' = watch /\ typed' = typed
    BY <1>3, Zenon DEF Access
  <2>2. typed' \in Nat /\ Good(u', gone', typed') /\ (watch' => qemu_chr_be_can_write(u'))
    BY <1>0, <1>3, <2>1, Zenon
  <2> QED BY <2>2, Zenon DEF Inv
<1>4. CASE ReadDATA
  <2>1. PICK e : e = read_DATA(u) /\ Access(e)
    BY <1>4, Zenon DEF ReadDATA
  <2> QED BY <1>0, <1>3, <2>1, ReadGood, Zenon
<1>5. CASE WriteGLOBAL
  <2>1. PICK e : e = lpuart_reset(u) /\ Access(e)
    BY <1>5, Zenon DEF WriteGLOBAL
  <2> QED BY <1>0, <1>3, <2>1, RegistersGood, Zenon
<1>6. CASE WriteSTAT
  <2>1. PICK e : Access(e) /\ (e = write_STAT_low(u) \/ \E flags : e = write_STAT_high(u, flags))
    BY <1>6, Zenon DEF WriteSTAT
  <2> QED BY <1>0, <1>3, <2>1, RegistersGood, Zenon
<1>7. CASE WriteCTRL
  <2>1. PICK e : Access(e) /\ \E flags : e = write_CTRL(u, flags)
    BY <1>7, Zenon DEF WriteCTRL
  <2> QED BY <1>0, <1>3, <2>1, RegistersGood, Zenon
<1>8. CASE WriteDATA
  <2>1. PICK e : Access(e) /\ e = write_DATA(u)
    BY <1>8, Zenon DEF WriteDATA
  <2> QED BY <1>0, <1>3, <2>1, RegistersGood, Zenon
<1>9. CASE UNCHANGED vars
  <2>1. u' = u /\ typed' = typed /\ gone' = gone /\ watch' = watch
    BY <1>9, Zenon DEF vars
  <2> QED BY <1>0, <2>1, Zenon DEF Inv
<1> QED BY <1>1, <1>2, <1>4, <1>5, <1>6, <1>7, <1>8, <1>9, Zenon DEF Next

\* Inv holds in every state.
THEOREM Invariant == Spec => []Inv
BY InitGood, NextKeeps, PTL DEF Spec

\* lpuart_receive never replaces an announced character, and the ring of the
\* multiplexer never overflows, although the main loop polls in one step and
\* delivers in another.
THEOREM NoneOverrun == Spec => []NoCharacterOverrun
<1>1. Inv => NoCharacterOverrun
  <2> SUFFICES ASSUME Inv PROVE NoCharacterOverrun
    OBVIOUS
  <2>1. Device(u) /\ Kept(u, gone)
    BY Zenon DEF Inv, Good
  <2>2. u.prod - u.cons \in 0 .. MUX_BUFFER_SIZE
    <3>1. u.prod \in Nat /\ u.cons \in Nat /\ u.cons <= u.prod /\ u.prod - u.cons <= MUX_BUFFER_SIZE
      BY <2>1, Zenon DEF Device
    <3> QED BY <3>1, LpuartAssumption
  <2> QED BY <2>1, <2>2, Zenon DEF Kept, NoCharacterOverrun
<1> QED BY <1>1, Invariant, PTL

\* The characters reach lpuart_receive once each and in the order they were
\* typed, with or without the multiplexer.
THEOREM InTypedOrder == Spec => []TypedOrder
<1>1. Inv => TypedOrder
  <2> SUFFICES ASSUME Inv PROVE TypedOrder
    OBVIOUS
  <2>1. Device(u) /\ Ordered(u, typed) /\ typed \in Nat
    BY Zenon DEF Inv, Good
  <2>2. PICK h \in Seq(Nat), r \in Seq(Nat) : h = u.handed /\ r = Ring(u)
    BY <2>1, RingSeq, Zenon DEF Device
  <2>3. Numbered(h, Len(h)) /\ NumberedAfter(r, Len(r), Len(h)) /\ typed = Len(h) + Len(r)
    <3>1. /\ Len(r) = u.prod - u.cons
          /\ \A i \in 1 .. u.prod - u.cons : r[i] = u.buffer[(u.cons + i - 1) % MUX_BUFFER_SIZE]
      BY <2>1, <2>2, RingSeq, Zenon
    <3> QED BY <2>1, <2>2, <3>1, Zenon DEF Ordered, Holds, Numbered, NumberedAfter
  <2>4. Numbered(h \o r, typed) /\ h \o r \in Seq(Nat) /\ Len(h \o r) = typed
    BY <2>3, Joined, Concatenated, Zenon
  <2>5. h \o r = [i \in 1 .. typed |-> i]
    <3>1. PICK q \in Seq(Nat), t \in Nat : q = h \o r /\ t = typed
      BY <2>1, <2>4, Zenon
    <3>2. Len(q) = t /\ \A i \in 1 .. t : q[i] = i
      BY <2>4, <3>1, Zenon DEF Numbered
    <3>3. q = [i \in 1 .. t |-> i]
      BY <3>2
    <3> QED BY <3>1, <3>3, Zenon
  <2> QED BY <2>2, <2>5, Zenon DEF TypedOrder
<1> QED BY <1>1, Invariant, PTL

\* The interrupt line is asserted while a character is announced and its
\* interrupt enabled.
THEOREM NoneLost == Spec => []NoLostReceiveInterrupt
<1>1. Inv => NoLostReceiveInterrupt
  BY Zenon DEF Inv, Good, Kept, NoLostReceiveInterrupt
<1> QED BY <1>1, Invariant, PTL

-----------------------------------------------------------------------------
(* Characters left in the ring. *)

\* Whether characters are stranded depends on the ring and on RDRF alone.
LEMMA StrandedAlike ==
    ASSUME NEW d, NEW e, e.prod = d.prod, e.cons = d.cons,
           "RDRF" \in d.sr => "RDRF" \in e.sr, ~Stranded(d)
    PROVE  ~Stranded(e)
BY Zenon DEF Stranded, lpuart_can_receive

\* A character handed to the device strands none.
LEMMA ReceiveStrandsNone ==
    ASSUME NEW d, Record(d), NEW ch, ~Stranded(d), NEW e, e = lpuart_receive(d, ch)
    PROVE  ~Stranded(e)
<1>1. SameRing(d, e)
  BY ReceiveFields
<1>2. "RDRF" \in d.sr => "RDRF" \in e.sr
  <2>1. CASE "RE" \in d.cr
    <3>1. e.sr = d.sr \cup {"RDRF"}
      BY <2>1, ReceiveFields
    <3> QED BY <3>1, Zenon
  <2>2. CASE "RE" \notin d.cr
    <3>1. e.sr = d.sr
      BY <2>2, ReceiveFields
    <3> QED BY <3>1, Zenon
  <2> QED BY <2>1, <2>2, Zenon
<1> QED BY <1>1, <1>2, StrandedAlike, Zenon DEF SameRing

\* mux_chr_accept_input leaves none stranded: it stops when the device has a
\* character or the ring is empty.
LEMMA AcceptStrandsNone ==
    ASSUME NEW d, Record(d), NEW e, e = mux_chr_accept_input(d)
    PROVE  ~Stranded(e) /\ Record(e)
<1>0. "cons" \in Fields /\ "handed" \in Fields
  BY Zenon DEF Fields
<1>1. CASE d.prod = d.cons \/ ~lpuart_can_receive(d)
  BY <1>1, Zenon DEF mux_chr_accept_input, Stranded
<1>2. CASE ~ (d.prod = d.cons \/ ~lpuart_can_receive(d)) /\ "RE" \in d.cr
  <2>1. PICK x, ch : x = With(d, "cons", d.cons + 1) /\ ch = Head(Ring(d))
    BY Zenon
  <2>2. e = lpuart_receive(x, ch)
    BY <1>2, <2>1, Zenon DEF mux_chr_accept_input, With
  <2>3. Record(x) /\ \A f \in Fields \ {"cons"} : x[f] = d[f]
    BY <1>0, <2>1, Assigned
  <2>4. x.cr = d.cr
    BY <2>3, Zenon DEF Fields
  <2>5. e.sr = x.sr \cup {"RDRF"}
    BY <1>2, <2>2, <2>3, <2>4, ReceiveFields
  <2>6. Record(e)
    BY <2>2, <2>3, ReceiveFields, Zenon
  <2> QED BY <2>5, <2>6, Zenon DEF Stranded, lpuart_can_receive
<1>3. CASE ~ (d.prod = d.cons \/ ~lpuart_can_receive(d)) /\ "RE" \notin d.cr
  <2>1. PICK x, q : x = With(d, "cons", d.prod) /\ q = d.handed \o Ring(d)
    BY Zenon
  <2>2. e = With(x, "handed", q)
    BY <1>0, <1>3, <2>1, Zenon DEF mux_chr_accept_input, With
  <2>3. Record(x) /\ x["cons"] = d.prod /\ \A f \in Fields \ {"cons"} : x[f] = d[f]
    BY <1>0, <2>1, Assigned
  <2>4. Record(e) /\ \A f \in Fields \ {"handed"} : e[f] = x[f]
    BY <1>0, <2>2, <2>3, Assigned
  <2>5. e.cons = d.prod /\ e.prod = d.prod
    BY <2>3, <2>4, Zenon DEF Fields
  <2> QED BY <2>4, <2>5, Zenon DEF Stranded
<1> QED BY <1>1, <1>2, <1>3, Zenon

\* Nor does a delivery by the main loop.
LEMMA WriteStrandsNone ==
    ASSUME NEW d, Record(d), ~Stranded(d), NEW ch, NEW e, e = qemu_chr_be_write(d, ch)
    PROVE  ~Stranded(e)
<1>1. CASE ~d.mux
  <2>1. e = lpuart_receive(d, ch)
    BY <1>1, Zenon DEF qemu_chr_be_write
  <2> QED BY <2>1, ReceiveStrandsNone, Zenon
<1>2. CASE d.mux
  <2>1. PICK a : a = mux_chr_accept_input(d)
    BY Zenon
  <2>2. ~Stranded(a)
    BY <2>1, AcceptStrandsNone, Zenon
  <2>4. Record(a)
    BY <2>1, AcceptStrandsNone, Zenon
  <2>5. CASE a.prod = a.cons /\ lpuart_can_receive(a)
    <3>1. e = lpuart_receive(a, ch)
      BY <1>2, <2>1, <2>5, Zenon DEF qemu_chr_be_write, mux_chr_read
    <3> QED BY <2>2, <2>4, <3>1, ReceiveStrandsNone, Zenon
  <2>6. CASE ~ (a.prod = a.cons /\ lpuart_can_receive(a))
    <3>1. e = Push(a, ch)
      BY <1>2, <2>1, <2>6, Zenon DEF qemu_chr_be_write, mux_chr_read
    <3>2. PICK b, x : /\ b = [a.buffer EXCEPT ![a.prod % MUX_BUFFER_SIZE] = ch]
                      /\ x = With(a, "buffer", b)
      BY Zenon
    <3>3. "buffer" \in Fields /\ "prod" \in Fields
      BY Zenon DEF Fields
    <3>4. Record(x) /\ \A f \in Fields \ {"buffer"} : x[f] = a[f]
      BY <2>4, <3>2, <3>3, Assigned
    <3>5. PICK m : m = x.prod + 1
      BY Zenon
    <3>6. e = With(x, "prod", m)
      <4>1. DOMAIN a = Fields
        BY <2>4, Zenon DEF Record
      <4>2. x.prod = a.prod
        BY <3>4, Zenon DEF Fields
      <4> QED BY <3>1, <3>2, <3>3, <3>5, <4>1, <4>2, Zenon DEF Push, With
    <3>7. \A f \in Fields \ {"prod"} : e[f] = x[f]
      BY <3>3, <3>4, <3>6, Assigned
    <3>8. e.sr = a.sr
      BY <3>4, <3>7, Zenon DEF Fields
    <3>9. ~lpuart_can_receive(a)
      BY <2>2, <2>6, Zenon DEF Stranded
    <3> QED BY <3>8, <3>9, Zenon DEF Stranded, lpuart_can_receive
  <2> QED BY <2>5, <2>6, Zenon
<1> QED BY <1>1, <1>2, Zenon

\* Nor a read of DATA.
LEMMA ReadStrandsNone ==
    ASSUME NEW d, NEW g, NEW n \in Nat, Good(d, g, n), NEW e, e = read_DATA(d)
    PROVE  ~Stranded(e)
<1>0. Record(d) /\ "sr" \in Fields /\ (d.mux \/ d.prod = d.cons)
  BY Zenon DEF Good, Device, Fields
<1>1. PICK c : c = With(d, "sr", d.sr \ {"RDRF"})
  BY Zenon
<1>2. Record(c) /\ \A f \in Fields \ {"sr"} : c[f] = d[f]
  BY <1>0, <1>1, Assigned
<1>3. c.mux = d.mux /\ c.prod = d.prod /\ c.cons = d.cons
  BY <1>2, Zenon DEF Fields
<1>4. PICK x : x = qemu_chr_fe_accept_input(c)
  BY Zenon
<1>5. e = lpuart_update_irq(x)
  BY <1>1, <1>4, Zenon DEF read_DATA, With
<1>6. ~Stranded(x) /\ Record(x)
  <2>1. CASE ~d.mux
    BY <1>0, <1>2, <1>3, <1>4, <2>1, Zenon DEF qemu_chr_fe_accept_input, Stranded
  <2>2. CASE d.mux
    <3>1. x = mux_chr_accept_input(c)
      BY <1>3, <1>4, <2>2, Zenon DEF qemu_chr_fe_accept_input
    <3> QED BY <1>2, <3>1, AcceptStrandsNone, Zenon
  <2> QED BY <2>1, <2>2, Zenon
<1>7. \A f \in Fields \ {"irq"} : e[f] = x[f]
  BY <1>5, <1>6, IrqFields, Zenon
<1>8. e.prod = x.prod /\ e.cons = x.cons /\ e.sr = x.sr
  BY <1>7, Zenon DEF Fields
<1> QED BY <1>6, <1>8, StrandedAlike, Zenon

\* Nor a write of CTRL or DATA.
LEMMA RegistersStrandNone ==
    ASSUME NEW d, Record(d), ~Stranded(d), NEW e,
           (\E flags : e = write_CTRL(d, flags)) \/ e = write_DATA(d)
    PROVE  ~Stranded(e)
<1>0. PICK f \in {"cr", "sr"} :
        \E v : /\ e = lpuart_update_irq(With(d, f, v))
               /\ f = "sr" => v = d.sr \cup {"TDRE"}
  <2>1. CASE \E flags : e = write_CTRL(d, flags)
    <3>1. PICK flags : e = lpuart_update_irq(With(d, "cr", flags))
      BY <2>1, Zenon DEF write_CTRL, With
    <3>2. "cr" # "sr"
      OBVIOUS
    <3> QED BY <3>1, <3>2, Zenon
  <2>2. CASE e = write_DATA(d)
    BY <2>2, Zenon DEF write_DATA, With
  <2> QED BY <2>1, <2>2, Zenon
<1>1. PICK v : /\ e = lpuart_update_irq(With(d, f, v))
               /\ f = "sr" => v = d.sr \cup {"TDRE"}
  BY <1>0, Zenon
<1>2. PICK x : x = With(d, f, v)
  BY Zenon
<1>3. f \in Fields /\ f \notin {"prod", "cons", "irq"}
  BY DEF Fields
<1>4. Record(x) /\ x[f] = v /\ \A h \in Fields \ {f} : x[h] = d[h]
  BY <1>2, <1>3, Assigned
<1>5. Record(e) /\ \A h \in Fields \ {"irq"} : e[h] = x[h]
  BY <1>1, <1>2, <1>4, IrqFields
<1>6. e.prod = x.prod /\ e.cons = x.cons /\ e.sr = x.sr
  BY <1>5, Zenon DEF Fields
<1>7. x.prod = d.prod /\ x.cons = d.cons
  BY <1>3, <1>4 DEF Fields
<1>8. "RDRF" \in d.sr => "RDRF" \in x.sr
  <2>1. CASE f = "sr"
    BY <1>1, <1>4, <2>1, Zenon
  <2>2. CASE f = "cr"
    <3>1. "sr" \in Fields \ {f}
      BY <2>2 DEF Fields
    <3> QED BY <1>4, <3>1, Zenon
  <2> QED BY <2>1, <2>2, Zenon
<1> QED BY <1>6, <1>7, <1>8, StrandedAlike, Zenon

\* Characters are stranded only by an access of the guest that clears RDRF
\* itself, a write of STAT or a reset: every read of DATA and every delivery
\* leaves the ring empty or its next character announced.
THEOREM GuestStrands == Spec => OnlyGuestStrands
<1>1. ASSUME Inv, Next, ~Stranded(u), Stranded(u')
      PROVE  WriteSTAT \/ WriteGLOBAL
  <2>0. typed \in Nat /\ Good(u, gone, typed) /\ Record(u)
    BY <1>1, Zenon DEF Inv, Good, Device
  <2>1. CASE Poll
    BY <1>1, <2>1, Zenon DEF Poll
  <2>2. CASE fd_chr_read
    <3>1. u' = qemu_chr_be_write(u, typed')
      BY <2>2, Zenon DEF fd_chr_read
    <3> QED BY <1>1, <2>0, <3>1, WriteStrandsNone, Zenon
  <2>3. CASE ReadDATA
    <3>1. u' = read_DATA(u)
      BY <2>3, Zenon DEF ReadDATA, Access
    <3> QED BY <1>1, <2>0, <3>1, ReadStrandsNone, Zenon
  <2>4. CASE WriteCTRL \/ WriteDATA
    <3>1. (\E flags : u' = write_CTRL(u, flags)) \/ u' = write_DATA(u)
      BY <2>4, Zenon DEF WriteCTRL, WriteDATA, Access
    <3> QED BY <1>1, <2>0, <3>1, RegistersStrandNone, Zenon
  <2> QED BY <1>1, <2>1, <2>2, <2>3, <2>4, Zenon DEF Next
<1>2. Inv /\ [Next]_vars => [~Stranded(u) /\ Stranded(u') => WriteSTAT \/ WriteGLOBAL]_vars
  BY <1>1, Zenon
<1> QED BY <1>2, Invariant, PTL DEF Spec, OnlyGuestStrands

=============================================================================
