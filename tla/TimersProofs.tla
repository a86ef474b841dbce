---------------------------- MODULE TimersProofs -----------------------------
(***************************************************************************)
(* Proofs about Timers for every set of timers, every width of the tick     *)
(* count, every length of the queue and any number of ticks.               *)
(***************************************************************************)
EXTENDS Timers, WellFoundedInduction, TLAPS


\* How the steps of the daemon, the switch of the lists and the timer in hand
\* go together.
ControlInv ==
    /\ switching # "none" => pc \in {"switch", "reload", "callback"}
    /\ pc = "switch" => switching # "none"
    /\ sleep # 0 => pc = "blocked"
    /\ pc = "reload" => active[timer] /\ list[timer] = "none"

\* A command: the timer it is for, and the time stamp of a start.
Stamped(m) ==
    /\ m.timer = NoTimer <=> m.id = "PEND"
    /\ m.id = "START" => xTickCount = Plus(m.value, m.age)
    /\ m.id = "CHANGE_PERIOD" => m.value > 0

\* The commands in the queue are for timers that exist, and a deletion is the
\* last one for its timer.
CommandInv ==
    /\ \A i \in 1 .. Len(xTimerQueue) :
           Stamped(xTimerQueue[i]) /\ xTimerQueue[i].timer \notin freed
    /\ \A i, j \in 1 .. Len(xTimerQueue) :
           i < j /\ xTimerQueue[i].id = "DELETE" => xTimerQueue[j].timer # xTimerQueue[i].timer

\* The command in hand: its timer is in no list, it was sent before the
\* sample, and a deletion is the last command for its timer.
InHandInv ==
    message # NoMessage =>
        /\ Stamped(message)
        /\ pc # "execute" => message.id # "PEND"
        /\ message.id # "PEND" => list[message.timer] = "none" /\ timer # message.timer
        /\ pc # "sample" /\ message.id = "START" => age <= message.age
        /\ message.id = "DELETE" =>
               \A i \in 1 .. Len(xTimerQueue) : xTimerQueue[i].timer # message.timer

SomeActive == \E t \in Timer : active[t]

\* The samples and true time.
ClockInv ==
    /\ age < Wrap => xTickCount = Plus(xTimeNow, age)
    /\ UsesSample \/ SomeActive => age < Wrap
    /\ elapsed <= 2 * Wrap + age
    /\ switching = "none" => xLastTime = xTimeNow /\ elapsed = xTimeNow + age
    /\ switching # "none" /\ SomeActive => elapsed = Wrap + xTimeNow + age

\* The expiry that prvReloadTimer has in hand lies before the time it catches
\* up with, by less than a round.
ReloadInv ==
    pc = "reload" =>
        LET e == left[timer] + elapsed
        IN  /\ e <= Limit /\ Limit < e + Wrap
            /\ xExpiredTime = e \/ xExpiredTime = e + Wrap

Inv ==
    /\ TimersTypeOK
    /\ ControlInv /\ CommandInv /\ InHandInv
    /\ ClockInv /\ ReloadInv
    /\ ListsTellTheTime /\ CallsAreDue /\ NeverSleepsPast
    /\ ActiveIsListed /\ FreedIsGone

-----------------------------------------------------------------------------
(* Facts about the operators.                                              *)

\* A nonempty set of tick counts has a least one.
LEMMA Least ==
    ASSUME NEW T, T \subseteq Nat, T # {}
    PROVE  \E x \in T : \A y \in T : x <= y
<1> DEFINE R == {ss \in Nat \X Nat : ss[1] < ss[2]}
<1>1. IsWellFoundedOn(R, Nat)
  BY NatLessThanWellFounded, Zenon DEF OpToRel
<1>2. PICK x \in T : \A y \in T : <<y, x>> \notin R
  <2> HIDE DEF R
  <2> QED BY <1>1, WFMin, Zenon
<1>3. \A y \in T : ~ (y < x)
  BY <1>2, Zenon
<1> QED BY <1>3

\* listGET_OWNER_OF_HEAD_ENTRY finds a timer in a list that is not empty.
LEMMA HeadExists ==
    TimerTypeOK /\ Listed("current") # {} => HeadEntry # {}
<1> SUFFICES ASSUME TimerTypeOK, Listed("current") # {} PROVE HeadEntry # {}
  OBVIOUS
<1>1. \A t \in Timer : xItemValue[t] \in Nat
  BY TimersAssumption DEF TimerTypeOK, TickType_t
<1>2. PICK x \in {xItemValue[t] : t \in Listed("current")} :
          \A y \in {xItemValue[t] : t \in Listed("current")} : x <= y
  <2> DEFINE V == {xItemValue[t] : t \in Listed("current")}
  <2>1. V \subseteq Nat /\ V # {}
    BY <1>1, Zenon DEF Listed
  <2> HIDE DEF V
  <2>2. \E x \in V : \A y \in V : x <= y
    BY <2>1, Least, Zenon
  <2> QED BY <2>2, Zenon DEF V
<1>3. PICK t \in Listed("current") : x = xItemValue[t]
  BY <1>2, Zenon
<1>4. \A u \in Listed("current") : xItemValue[t] <= xItemValue[u]
  BY <1>2, <1>3, Zenon
<1> QED BY <1>4, Zenon DEF HeadEntry

\* The arithmetic of TickType_t stays in its range.
LEMMA Arithmetic ==
    /\ \A m, n \in TickType_t : Plus(m, n) \in TickType_t /\ Minus(m, n) \in TickType_t
    /\ 0 \in TickType_t /\ 1 \in TickType_t /\ TickType_t \subseteq Nat
    /\ \A m \in TickType_t : Plus(m, 0) = m
BY TimersAssumption DEF TickType_t, Plus, Minus

\* Sums and differences of tick counts and of the time elapsed.
LEMMA Sums ==
    /\ \A n \in Int : n + 0 = n
    /\ 0 \in 0 .. Wrap /\ Wrap - 1 \in TickType_t
    /\ \A v, l \in TickType_t : l < v + Wrap
    /\ \A v \in TickType_t : \A s \in 0 .. 3 * Wrap :
           v - s + s = v /\ (v <= s => v - s <= 0)
    /\ \A a \in 0 .. Wrap : \A b \in 0 .. a : \A v \in TickType_t : a <= v => b <= v
BY TimersAssumption DEF TickType_t

\* The fields of a command, and of the absence of one.
LEMMA Fields ==
    /\ \A m \in Message : /\ m # NoMessage /\ m.timer \in Timer \cup {NoTimer}
                          /\ m.age \in TickType_t /\ m.id \in Commands
    /\ NoMessage.timer = NoTimer /\ NoMessage.id = "none"
BY DEF Message, Commands, NoMessage

\* What prvInsertTimerInActiveList finds out from tick counts that wrap: if
\* now is d ticks after from, a timer of period p that was started at from has
\* expired exactly if d is at least p; otherwise the list it goes to and the
\* tick count it is given are those of p - d ticks from now.
LEMMA Insertion ==
    ASSUME NEW from \in TickType_t, NEW p \in TickType_t \ {0}, NEW d \in TickType_t,
           NEW now \in TickType_t, now = from + d \/ now = from + d - Wrap,
           NEW next, next = Plus(from, p)
    PROVE  /\ next \in TickType_t
           /\ Expired(next, now, from, p) <=> d >= p
           /\ d < p /\ ListFor(next, now) = "current" => next - now = p - d
           /\ d < p /\ ListFor(next, now) = "overflow" => next + Wrap - now = p - d
           /\ ListFor(next, now) \in {"current", "overflow"}
           /\ d >= p => next = now - d + p \/ next = now - d + p + Wrap
BY TimersAssumption DEF TickType_t, Plus, Minus, Expired, ListFor

\* A tick for the time stamp of a command.
LEMMA AgedMessage ==
    ASSUME NEW m \in Message \cup {NoMessage}, Aged(m).age < Wrap
    PROVE  /\ Aged(m) \in Message \cup {NoMessage}
           /\ m \in Message => Aged(m) \in Message
           /\ Aged(m) = NoMessage <=> m = NoMessage
           /\ Aged(m).timer = m.timer /\ Aged(m).id = m.id /\ Aged(m).value = m.value
           /\ m.id = "START" => Aged(m).age = m.age + 1
           /\ m.id # "START" => Aged(m).age = m.age
<1>1. CASE m = NoMessage
  BY <1>1 DEF Aged, NoMessage
<1>2. CASE m \in Message
  <2>1. m.id # "none"
    BY <1>2 DEF Message, Commands
  <2> QED BY <1>2, <2>1, TimersAssumption DEF Aged, Message, NoMessage, TickType_t
<1> QED BY <1>1, <1>2, Zenon

\* ... and of the commands in the queue.
LEMMA AgedQueue ==
    ASSUME NEW s \in Seq(Message), \A i \in 1 .. Len(s) : Aged(s[i]).age < Wrap
    PROVE  /\ AgedAll(s) \in Seq(Message)
           /\ Len(AgedAll(s)) = Len(s)
           /\ \A i \in 1 .. Len(s) : AgedAll(s)[i] = Aged(s[i])
<1>1. \A i \in 1 .. Len(s) : s[i] \in Message
  OBVIOUS
<1>2. \A i \in 1 .. Len(s) : Aged(s[i]) \in Message
  BY <1>1, AgedMessage, Zenon
<1> QED BY <1>2 DEF AgedAll

\* A tick keeps the stamp of a command true.
LEMMA StampAged ==
    ASSUME NEW m \in Message, Stamped(m), Aged(m).age < Wrap,
           xTickCount' = Plus(xTickCount, 1)
    PROVE  Stamped(Aged(m))'
<1>1. Aged(m)' = Aged(m)
  BY DEF Aged
<1>2. CASE m.id = "START"
  <2>1. m.value \in TickType_t /\ m.age \in TickType_t /\ m.age + 1 \in TickType_t
    BY <1>2, TimersAssumption DEF Message, Aged, TickType_t
  <2>2. Plus(Plus(m.value, m.age), 1) = Plus(m.value, m.age + 1)
    BY <2>1, TimersAssumption DEF Plus, TickType_t
  <2> QED BY <1>1, <1>2, <2>2, AgedMessage, Zenon DEF Stamped
<1>3. CASE m.id # "START"
  BY <1>3, AgedMessage, Zenon DEF Stamped
<1> QED BY <1>2, <1>3

-----------------------------------------------------------------------------
(* The invariant holds at first, and every step keeps it.                  *)

\* No timer exists when the scheduler starts.
LEMMA Initially == Init => Inv
<1> SUFFICES ASSUME Init PROVE Inv
  OBVIOUS
<1>1. TimersTypeOK
  BY TimersAssumption DEF Init, TimersTypeOK, TimerTypeOK, DaemonTypeOK, CommandTypeOK, TickType_t
<1>2. ControlInv /\ CommandInv /\ InHandInv
  BY DEF Init, ControlInv, CommandInv, InHandInv
<1>3. ClockInv /\ ReloadInv
  BY TimersAssumption DEF Init, ClockInv, ReloadInv, UsesSample, SomeActive, Plus
<1>4. ListsTellTheTime /\ CallsAreDue /\ NeverSleepsPast /\ ActiveIsListed
  BY Zenon DEF Init, ListsTellTheTime, CallsAreDue, NeverSleepsPast, ActiveIsListed
<1>5. FreedIsGone
  BY TimersAssumption, Zenon DEF Init, FreedIsGone, NoMessage
<1> QED BY <1>1, <1>2, <1>3, <1>4, <1>5 DEF Inv

\* A tick.
LEMMA TickKeeps == Inv /\ Tick => Inv'
<1> SUFFICES ASSUME Inv, Tick PROVE Inv'
  OBVIOUS
<1> USE DEF Inv, TimersTypeOK
<1>1. /\ xTickCount' = Plus(xTickCount, 1)
      /\ sleep' = IF sleep = 0 THEN 0 ELSE sleep - 1
      /\ pc' = IF sleep = 1 THEN "commands" ELSE pc
      /\ left' = [t \in Timer |-> IF active[t] THEN left[t] - 1 ELSE left[t]]
      /\ xTimerPeriodInTicks' = xTimerPeriodInTicks /\ autoReload' = autoReload
      /\ active' = active /\ freed' = freed /\ list' = list /\ xItemValue' = xItemValue
      /\ xTimeNow' = xTimeNow /\ xLastTime' = xLastTime
      /\ timer' = timer /\ xExpiredTime' = xExpiredTime /\ switching' = switching
  BY Zenon DEF Tick, status, lists, reload
<1>2. /\ age = Wrap => age' = age /\ elapsed' = elapsed
      /\ age # Wrap => age' = age + 1 /\ elapsed' = elapsed + 1
      /\ UsesSample \/ SomeActive => age + 1 < Wrap
  BY Zenon DEF Tick, Punctual, SomeActive
<1>3. /\ \A i \in 1 .. Len(xTimerQueue) : Aged(xTimerQueue[i]).age < Wrap
      /\ xTimerQueue' \in Seq(Message) /\ Len(xTimerQueue') = Len(xTimerQueue)
      /\ \A i \in 1 .. Len(xTimerQueue) : xTimerQueue'[i] = Aged(xTimerQueue[i])
  BY AgedQueue, Zenon DEF Tick, Punctual, CommandTypeOK
<1>4. /\ Aged(message).age < Wrap
      /\ message' \in Message \cup {NoMessage}
      /\ message \in Message => message' \in Message
      /\ message' = NoMessage <=> message = NoMessage
      /\ message'.timer = message.timer /\ message'.id = message.id
      /\ message'.value = message.value
      /\ message.id = "START" => message'.age = message.age + 1
  BY AgedMessage, Zenon DEF Tick, Punctual, CommandTypeOK
<1>5. /\ pc' # pc => pc = "blocked" /\ pc' = "commands" /\ switching = "none"
      /\ UsesSample' => UsesSample
  BY <1>1, <1>4 DEF ControlInv, UsesSample
<1>6. TimersTypeOK'
  <2>1. TimerTypeOK'
    BY <1>1 DEF TimerTypeOK
  <2>2. DaemonTypeOK'
    <3>1. age' \in 0 .. Wrap /\ elapsed' \in 0 .. 3 * Wrap
      BY <1>2, TimersAssumption DEF DaemonTypeOK, ClockInv
    <3>2. xTickCount' \in TickType_t /\ sleep' \in TickType_t
      BY <1>1, Arithmetic, TimersAssumption DEF DaemonTypeOK, TickType_t
    <3> QED BY <1>1, <1>5, <3>1, <3>2, Zenon DEF DaemonTypeOK
  <2>3. CommandTypeOK'
    BY <1>1, <1>3, <1>4, <1>5, Zenon DEF CommandTypeOK
  <2> QED BY <2>1, <2>2, <2>3
<1>7. ControlInv'
  BY <1>1, <1>5 DEF ControlInv, DaemonTypeOK, TickType_t
<1>8. CommandInv'
  <2>1. ASSUME NEW i \in 1 .. Len(xTimerQueue')
        PROVE  /\ Stamped(xTimerQueue[i])' /\ xTimerQueue'[i].timer = xTimerQueue[i].timer
               /\ xTimerQueue'[i].id = xTimerQueue[i].id
    <3>1. PICK m \in Message : m = xTimerQueue[i]
      BY <1>3 DEF CommandTypeOK
    <3>2. Aged(m).age < Wrap /\ Stamped(m) /\ xTimerQueue'[i] = Aged(m)
      BY <1>3, <3>1, Zenon DEF CommandInv
    <3>3. PICK n : n = Aged(m)
      OBVIOUS
    <3>4. Stamped(n)'
      BY <1>1, <3>2, <3>3, StampAged, Zenon DEF Aged, Stamped
    <3> QED BY <3>1, <3>2, <3>3, <3>4, AgedMessage DEF Stamped
  <2> QED BY <1>1, <1>3, <2>1 DEF CommandInv
<1>9. InHandInv'
  <2> SUFFICES ASSUME message # NoMessage PROVE InHandInv'
    BY <1>4, Zenon DEF InHandInv
  <2>1. Stamped(message)'
    <3>1. PICK m \in Message : m = message
      BY DEF CommandTypeOK
    <3>2. Aged(m).age < Wrap /\ Stamped(m) /\ message' = Aged(m)
      BY <1>4, <3>1, Zenon DEF InHandInv, Tick
    <3>3. PICK n : n = Aged(m)
      OBVIOUS
    <3>4. Stamped(n)'
      BY <1>1, <3>2, <3>3, StampAged, Zenon DEF Aged, Stamped
    <3> QED BY <3>2, <3>3, <3>4, Zenon DEF Stamped
  <2>2. pc' = pc
    BY <1>5 DEF CommandTypeOK
  <2>3. pc # "sample" /\ message.id = "START" => age' <= message'.age
    BY <1>2, <1>4, SMTT(30) DEF InHandInv, DaemonTypeOK, CommandTypeOK, Message, TickType_t
  <2>4. \A i \in 1 .. Len(xTimerQueue') : xTimerQueue'[i].timer = xTimerQueue[i].timer
    BY <1>3, AgedMessage DEF CommandTypeOK
  <2> QED BY <1>1, <1>3, <1>4, <2>1, <2>2, <2>3, <2>4, Zenon DEF InHandInv
<1>10. ClockInv'
  <2>1. age' < Wrap => age < Wrap /\ age' = age + 1 /\ elapsed' = elapsed + 1
    BY <1>2, TimersAssumption DEF DaemonTypeOK
  <2>2. age' < Wrap => xTickCount' = Plus(xTimeNow, age')
    BY <1>1, <2>1, TimersAssumption DEF ClockInv, DaemonTypeOK, TickType_t, Plus
  <2>3. UsesSample' \/ SomeActive' => age + 1 < Wrap /\ age' = age + 1 /\ elapsed' = elapsed + 1
    BY <1>1, <1>2, <1>5 DEF SomeActive, DaemonTypeOK
  <2>4. \A n \in Int : elapsed = n + age => elapsed' = n + age'
    BY <1>2 DEF DaemonTypeOK
  <2>5. elapsed' <= 2 * Wrap + age'
    BY <1>2, TimersAssumption DEF ClockInv, DaemonTypeOK
  <2>6. SomeActive' = SomeActive
    BY <1>1, Zenon DEF SomeActive
  <2>7. xTimeNow \in Int /\ Wrap + xTimeNow \in Int
    BY TimersAssumption DEF DaemonTypeOK, TickType_t
  <2> QED BY <1>1, <2>2, <2>3, <2>4, <2>5, <2>6, <2>7, Zenon DEF ClockInv
<1>11. ReloadInv' /\ ListsTellTheTime'
  <2>1. ASSUME NEW t \in Timer, active[t] PROVE left'[t] + elapsed' = left[t] + elapsed
    BY <1>1, <1>2, <2>1 DEF SomeActive, TimerTypeOK, DaemonTypeOK
  <2>2. ReloadInv'
    BY <1>1, <1>5, <2>1, Zenon DEF ReloadInv, ControlInv, DaemonTypeOK, Limit
  <2>3. \A t \in Timer : list[t] # "none" => active[t]
    BY DEF ActiveIsListed
  <2>4. ListsTellTheTime'
    <3>1. ASSUME NEW t \in Timer, list[t] # "none" PROVE Due(t)' + elapsed' = Due(t) + elapsed
      <4>1. /\ left[t] \in Int /\ left'[t] \in Int /\ elapsed \in Int /\ elapsed' \in Int
            /\ xTimerPeriodInTicks[t] \in Int
        BY <1>6 DEF TimerTypeOK, DaemonTypeOK, TickType_t
      <4> QED BY <1>1, <1>5, <2>1, <2>3, <3>1, <4>1 DEF Due
    <3>2. \A t \in Timer : Due(t) \in Int /\ Due(t)' \in Int /\ xItemValue[t] \in Int
      BY <1>6 DEF TimerTypeOK, TickType_t, Due
    <3>3. elapsed \in Int /\ elapsed' \in Int
      BY <1>6 DEF DaemonTypeOK
    <3> QED BY <1>1, <3>1, <3>2, <3>3, TimersAssumption, SMTT(30) DEF ListsTellTheTime
  <2> QED BY <2>2, <2>4
<1>12. CallsAreDue' /\ NeverSleepsPast'
  BY <1>1, <1>5 DEF CallsAreDue, NeverSleepsPast, TimerTypeOK, DaemonTypeOK, TickType_t
<1>13. ActiveIsListed' /\ FreedIsGone'
  BY <1>1, <1>4, <1>5, Zenon DEF ActiveIsListed, FreedIsGone
<1> QED BY <1>6, <1>7, <1>8, <1>9, <1>10, <1>11, <1>12, <1>13, Zenon

\* A command enters the queue, for a timer that is not being deleted.
LEMMA SendKeeps ==
    \A m \in Message :
        /\ Inv /\ xTimerGenericCommand(m)
        /\ Stamped(m) /\ m.timer \notin freed
        /\ \A i \in 1 .. Len(xTimerQueue) : xTimerQueue[i].timer = m.timer => xTimerQueue[i].id # "DELETE"
        /\ message.timer = m.timer => message.id # "DELETE"
        => Inv'
<1> SUFFICES ASSUME NEW m \in Message, Inv, xTimerGenericCommand(m),
                    Stamped(m), m.timer \notin freed,
                    \A i \in 1 .. Len(xTimerQueue) :
                        xTimerQueue[i].timer = m.timer => xTimerQueue[i].id # "DELETE",
                    message.timer = m.timer => message.id # "DELETE"
             PROVE  Inv'
  BY Zenon
<1> USE DEF Inv, TimersTypeOK
<1>1. /\ xTickCount' = xTickCount /\ left' = left
      /\ xTimerPeriodInTicks' = xTimerPeriodInTicks /\ autoReload' = autoReload
      /\ active' = active /\ freed' = freed /\ list' = list /\ xItemValue' = xItemValue
      /\ xTimeNow' = xTimeNow /\ xLastTime' = xLastTime /\ age' = age /\ elapsed' = elapsed
      /\ timer' = timer /\ xExpiredTime' = xExpiredTime /\ switching' = switching
      /\ message' = message /\ sleep' = 0
      /\ pc' = IF pc = "blocked" THEN "commands" ELSE pc
  BY Zenon DEF xTimerGenericCommand, timers, status, lists, sample, reload
<1>2. /\ Len(xTimerQueue) < configTIMER_QUEUE_LENGTH
      /\ xTimerQueue' = Append(xTimerQueue, m)
  BY Zenon DEF xTimerGenericCommand
<1>3. /\ xTimerQueue' \in Seq(Message) /\ Len(xTimerQueue') = Len(xTimerQueue) + 1
      /\ Len(xTimerQueue) \in Nat
      /\ \A i \in 1 .. Len(xTimerQueue') :
             xTimerQueue'[i] = IF i <= Len(xTimerQueue) THEN xTimerQueue[i] ELSE m
  BY <1>2 DEF CommandTypeOK
<1>4. TimersTypeOK'
  <2>1. TimerTypeOK' /\ DaemonTypeOK'
    BY <1>1, Arithmetic, Zenon DEF TimerTypeOK, DaemonTypeOK
  <2>2. CommandTypeOK'
    BY <1>1, <1>2, <1>3, TimersAssumption DEF CommandTypeOK
  <2> QED BY <2>1, <2>2
<1>5. ControlInv'
  BY <1>1, Zenon DEF ControlInv
<1>6. CommandInv'
  <2>1. \A i \in 1 .. Len(xTimerQueue) : Stamped(xTimerQueue[i]) /\ xTimerQueue[i].timer \notin freed
    BY Zenon DEF CommandInv
  <2>2. ASSUME NEW i \in 1 .. Len(xTimerQueue') PROVE (Stamped(xTimerQueue[i]) /\ xTimerQueue[i].timer \notin freed)'
    BY <1>1, <1>3, <2>1 DEF Stamped
  <2>3. ASSUME NEW i \in 1 .. Len(xTimerQueue'), NEW j \in 1 .. Len(xTimerQueue'),
               i < j, xTimerQueue'[i].id = "DELETE"
        PROVE  xTimerQueue'[j].timer # xTimerQueue'[i].timer
    BY <1>3, <2>3 DEF CommandInv
  <2> QED BY <2>2, <2>3, Zenon DEF CommandInv
<1>7. InHandInv'
  <2>1. message # NoMessage /\ message.id = "DELETE" =>
            \A i \in 1 .. Len(xTimerQueue') : xTimerQueue'[i].timer # message.timer
    BY <1>3 DEF InHandInv
  <2>2. Stamped(message)' = Stamped(message)
    BY <1>1, Zenon DEF Stamped
  <2> QED BY <1>1, <2>1, <2>2, Zenon DEF InHandInv, CommandTypeOK
<1>8. ClockInv' /\ ReloadInv'
  <2>1. UsesSample' = UsesSample /\ SomeActive' = SomeActive
    BY <1>1, Zenon DEF UsesSample, SomeActive
  <2> QED BY <1>1, <2>1, Zenon DEF ClockInv, ReloadInv, Limit
<1>9. ListsTellTheTime' /\ CallsAreDue' /\ NeverSleepsPast'
  BY <1>1, Zenon DEF ListsTellTheTime, Due, CallsAreDue, NeverSleepsPast
<1>10. ActiveIsListed' /\ FreedIsGone'
  BY <1>1, Zenon DEF ActiveIsListed, FreedIsGone
<1> QED BY <1>4, <1>5, <1>6, <1>7, <1>8, <1>9, <1>10, Zenon

\* xTimerCreate: a timer that did not exist is in no list and not active.
LEMMA CreateKeeps == \A t \in Timer : Inv /\ xTimerCreate(t) => Inv'
<1> SUFFICES ASSUME NEW t \in Timer, Inv, xTimerCreate(t) PROVE Inv'
  OBVIOUS
<1> USE DEF Inv, TimersTypeOK
<1>1. /\ xTickCount' = xTickCount /\ left' = left /\ xItemValue' = xItemValue
      /\ xTimeNow' = xTimeNow /\ xLastTime' = xLastTime /\ age' = age /\ elapsed' = elapsed
      /\ timer' = timer /\ xExpiredTime' = xExpiredTime /\ switching' = switching
      /\ message' = message /\ xTimerQueue' = xTimerQueue /\ sleep' = sleep /\ pc' = pc
      /\ t \in freed /\ freed' = freed \ {t}
  BY Zenon DEF xTimerCreate, sample, reload, commands
<1>2. ~ active[t] /\ list[t] = "none" /\ timer # t
  BY <1>1, Zenon DEF ActiveIsListed, FreedIsGone, TimerTypeOK
<1>3. active' = active /\ list' = list
  BY <1>2, Zenon DEF xTimerCreate, TimerTypeOK
<1>4. xTimerPeriodInTicks' \in [Timer -> TickType_t \ {0}] /\ autoReload' \in [Timer -> BOOLEAN]
  BY DEF xTimerCreate, TimerTypeOK
<1>5. \A u \in Timer \ {t} : xTimerPeriodInTicks'[u] = xTimerPeriodInTicks[u]
  BY Zenon DEF xTimerCreate, TimerTypeOK
<1>6. TimersTypeOK' /\ ControlInv'
  BY <1>1, <1>3, <1>4, Zenon DEF TimerTypeOK, DaemonTypeOK, CommandTypeOK, ControlInv
<1>7. CommandInv' /\ InHandInv'
  BY <1>1, <1>3 DEF CommandInv, InHandInv, Stamped
<1>8. ClockInv' /\ ReloadInv'
  BY <1>1, <1>3, Zenon DEF ClockInv, UsesSample, SomeActive, ReloadInv, Limit
<1>9. ListsTellTheTime' /\ CallsAreDue' /\ NeverSleepsPast'
  BY <1>1, <1>2, <1>3, <1>5, Zenon DEF ListsTellTheTime, Due, CallsAreDue, NeverSleepsPast
<1>10. ActiveIsListed' /\ FreedIsGone'
  BY <1>1, <1>3, Zenon DEF ActiveIsListed, FreedIsGone
<1> QED BY <1>6, <1>7, <1>8, <1>9, <1>10, Zenon

\* vTimerSetReloadMode.
LEMMA SetReloadModeKeeps == \A t \in Timer : Inv /\ vTimerSetReloadMode(t) => Inv'
<1> SUFFICES ASSUME NEW t \in Timer, Inv, vTimerSetReloadMode(t) PROVE Inv'
  OBVIOUS
<1> USE DEF Inv, TimersTypeOK
<1>1. /\ xTickCount' = xTickCount /\ left' = left
      /\ xTimerPeriodInTicks' = xTimerPeriodInTicks
      /\ active' = active /\ freed' = freed /\ list' = list /\ xItemValue' = xItemValue
      /\ xTimeNow' = xTimeNow /\ xLastTime' = xLastTime /\ age' = age /\ elapsed' = elapsed
      /\ timer' = timer /\ xExpiredTime' = xExpiredTime /\ switching' = switching
      /\ message' = message /\ xTimerQueue' = xTimerQueue /\ sleep' = sleep /\ pc' = pc
  BY Zenon DEF vTimerSetReloadMode, lists, sample, reload, commands
<1>2. autoReload' \in [Timer -> BOOLEAN]
  BY Zenon DEF vTimerSetReloadMode, TimerTypeOK
<1>3. TimersTypeOK' /\ ControlInv'
  BY <1>1, <1>2, Zenon DEF TimerTypeOK, DaemonTypeOK, CommandTypeOK, ControlInv
<1>4. CommandInv' /\ InHandInv'
  BY <1>1 DEF CommandInv, InHandInv, Stamped
<1>5. ClockInv' /\ ReloadInv'
  BY <1>1, Zenon DEF ClockInv, UsesSample, SomeActive, ReloadInv, Limit
<1>6. ListsTellTheTime' /\ CallsAreDue' /\ NeverSleepsPast' /\ ActiveIsListed' /\ FreedIsGone'
  BY <1>1, Zenon DEF ListsTellTheTime, Due, CallsAreDue, NeverSleepsPast, ActiveIsListed, FreedIsGone
<1> QED BY <1>3, <1>4, <1>5, <1>6, Zenon

\* What happens around the daemon.
LEMMA EnvironmentKeeps == Inv /\ Environment => Inv'
<1> SUFFICES ASSUME Inv, Environment PROVE Inv'
  OBVIOUS
<1>1. /\ message.timer = NoTimer => message.id # "DELETE"
      /\ \A i \in 1 .. Len(xTimerQueue) :
             xTimerQueue[i].timer = NoTimer => xTimerQueue[i].id # "DELETE"
  <2>1. message = NoMessage \/ Stamped(message)
    BY Zenon DEF Inv, InHandInv
  <2>2. message.timer = NoTimer => message.id # "DELETE"
    BY <2>1, Fields, Zenon DEF Stamped
  <2> QED BY <2>2, Zenon DEF Inv, CommandInv, Stamped
<1>2. CASE Send("PEND", NoTimer)
  <2> DEFINE m == [timer |-> NoTimer, age |-> 0, id |-> "PEND", value |-> 0]
  <2>1. m \in Message /\ m.timer = NoTimer /\ Stamped(m) /\ m.timer \notin freed
    BY Arithmetic, TimersAssumption, Zenon DEF Message, Commands, Stamped, Inv, TimersTypeOK, TimerTypeOK
  <2>2. xTimerGenericCommand(m)
    BY <1>2 DEF Send
  <2> HIDE DEF m
  <2> QED BY <1>1, <2>1, <2>2, SendKeeps, Zenon
<1>3. ASSUME NEW t \in Timer, Usable(t), xTimerStart(t) PROVE Inv'
  <2>1. PICK late \in TickType_t :
            xTimerGenericCommand([timer |-> t, age |-> late, id |-> "START",
                                  value |-> Minus(xTickCount, late)])
    BY <1>3 DEF xTimerStart
  <2>2. PICK v \in TickType_t : v = Minus(xTickCount, late)
    BY Arithmetic, Zenon DEF Inv, TimersTypeOK, DaemonTypeOK
  <2> DEFINE m == [timer |-> t, age |-> late, id |-> "START", value |-> v]
  <2>3. xTickCount = Plus(v, late)
    BY <2>2, TimersAssumption DEF Inv, TimersTypeOK, DaemonTypeOK, TickType_t, Plus, Minus
  <2>4. m \in Message /\ m.timer = t /\ Stamped(m)
    BY <2>3, TimersAssumption, Zenon DEF Message, Commands, Stamped
  <2>5. xTimerGenericCommand(m)
    BY <2>1, <2>2
  <2> HIDE DEF m
  <2> QED BY <1>3, <2>4, <2>5, SendKeeps, Zenon DEF Usable
<1>4. ASSUME NEW t \in Timer, Usable(t), xTimerChangePeriod(t) PROVE Inv'
  <2>1. PICK p \in TickType_t \ {0} :
            xTimerGenericCommand([timer |-> t, age |-> 0, id |-> "CHANGE_PERIOD", value |-> p])
    BY <1>4 DEF xTimerChangePeriod
  <2> DEFINE m == [timer |-> t, age |-> 0, id |-> "CHANGE_PERIOD", value |-> p]
  <2>2. m \in Message /\ m.timer = t /\ Stamped(m)
    BY Arithmetic, TimersAssumption DEF Message, Commands, Stamped, TickType_t
  <2>3. xTimerGenericCommand(m)
    BY <2>1
  <2> HIDE DEF m
  <2> QED BY <1>4, <2>2, <2>3, SendKeeps, Zenon DEF Usable
<1>5. ASSUME NEW t \in Timer, NEW id \in {"STOP", "DELETE"}, Usable(t), Send(id, t) PROVE Inv'
  <2> DEFINE m == [timer |-> t, age |-> 0, id |-> id, value |-> 0]
  <2>1. m \in Message /\ m.timer = t /\ Stamped(m)
    BY Arithmetic, TimersAssumption, Zenon DEF Message, Commands, Stamped
  <2>2. xTimerGenericCommand(m)
    BY <1>5 DEF Send
  <2> HIDE DEF m
  <2> QED BY <1>5, <2>1, <2>2, SendKeeps, Zenon DEF Usable
<1> QED BY <1>2, <1>3, <1>4, <1>5, TickKeeps, CreateKeeps, SetReloadModeKeeps, Zenon DEF Environment

\* A sample tells true time while a timer is active: whether the tick count has
\* wrapped is seen by comparing it with the last sample.
LEMMA SampleTells ==
    Inv /\ switching = "none" /\ SomeActive
        => elapsed = IF Wrapped THEN Wrap + xTickCount ELSE xTickCount
BY TimersAssumption DEF Inv, TimersTypeOK, DaemonTypeOK, ClockInv, Wrapped, Plus, TickType_t

\* What is unchanged by a sample or by a switch found necessary.
LEMMA SampleKeeps ==
    ASSUME Inv, NEW caller \in {"process", "command"}, Sample(caller), switching = "none",
           xTickCount' = xTickCount, SomeActive' => SomeActive
    PROVE  /\ ClockInv' /\ age' = 0 /\ xTimeNow' = xTickCount
           /\ xLastTime' \in TickType_t /\ elapsed' \in 0 .. 3 * Wrap
           /\ SomeActive => elapsed' = elapsed
           /\ switching' = IF Wrapped THEN caller ELSE "none"
<1> USE DEF Inv, TimersTypeOK
<1>1. /\ xTimeNow' = xTickCount /\ age' = 0
      /\ Wrapped => switching' = caller /\ xLastTime' = xLastTime /\ elapsed' = elapsed
      /\ ~Wrapped => switching' = "none" /\ xLastTime' = xTickCount /\ elapsed' = xTickCount
  BY DEF Sample
<1>3. /\ xTickCount \in TickType_t /\ xTickCount \in 0 .. Wrap - 1 /\ elapsed \in 0 .. 3 * Wrap
      /\ xLastTime \in TickType_t /\ elapsed <= 2 * Wrap
  BY TimersAssumption DEF DaemonTypeOK, ClockInv, TickType_t
<1>4. SomeActive => elapsed = IF Wrapped THEN Wrap + xTickCount ELSE xTickCount
  BY SampleTells
<1>5. xTickCount = Plus(xTickCount, 0)
  BY <1>3, Arithmetic, Zenon
<1>6. ClockInv'
  BY <1>1, <1>3, <1>4, <1>5, TimersAssumption DEF ClockInv
<1> QED BY <1>1, <1>3, <1>4, <1>6, TimersAssumption

\* prvProcessTimerOrBlockTask, the tick count having wrapped.
LEMMA ProcessSwitchKeeps == Inv /\ prvProcessTimerOrBlockTask /\ Wrapped => Inv'
<1> SUFFICES ASSUME Inv, prvProcessTimerOrBlockTask, Wrapped PROVE Inv'
  OBVIOUS
<1> USE DEF Inv, TimersTypeOK
<1>1. /\ pc = "top" /\ pc' = "switch" /\ Sample("process")
      /\ xTickCount' = xTickCount /\ left' = left
      /\ xTimerPeriodInTicks' = xTimerPeriodInTicks /\ autoReload' = autoReload
      /\ active' = active /\ freed' = freed /\ list' = list /\ xItemValue' = xItemValue
      /\ timer' = timer /\ xExpiredTime' = xExpiredTime
      /\ message' = message /\ xTimerQueue' = xTimerQueue /\ sleep' = sleep
  BY Zenon DEF prvProcessTimerOrBlockTask, timers, status, lists, reload, commands
<1>2. switching = "none" /\ sleep = 0 /\ message = NoMessage /\ timer = NoTimer
  BY <1>1, Zenon DEF ControlInv, DaemonTypeOK, CommandTypeOK
<1>3. /\ ClockInv' /\ age' = 0 /\ xTimeNow' = xTickCount
      /\ xLastTime' \in TickType_t /\ elapsed' \in 0 .. 3 * Wrap
      /\ SomeActive => elapsed' = elapsed
      /\ switching' = "process"
  <2>1. SomeActive' => SomeActive
    BY <1>1, Zenon DEF SomeActive
  <2> QED BY <1>1, <1>2, <2>1, SampleKeeps, Zenon
<1>4. TimersTypeOK'
  BY <1>1, <1>2, <1>3, TimersAssumption DEF TimerTypeOK, DaemonTypeOK, CommandTypeOK
<1>5. ControlInv' /\ InHandInv' /\ ReloadInv' /\ CallsAreDue' /\ NeverSleepsPast'
  BY <1>1, <1>2, <1>3, Zenon DEF ControlInv, InHandInv, ReloadInv, CallsAreDue, NeverSleepsPast
<1>6. CommandInv'
  BY <1>1, Zenon DEF CommandInv, Stamped
<1>7. ListsTellTheTime'
  BY <1>1, <1>3, Zenon DEF ListsTellTheTime, Due, ActiveIsListed, SomeActive
<1>8. ActiveIsListed' /\ FreedIsGone'
  BY <1>1, Zenon DEF ActiveIsListed, FreedIsGone
<1> QED BY <1>3, <1>4, <1>5, <1>6, <1>7, <1>8, Zenon

\* prvProcessTimerOrBlockTask, no timer having expired: the daemon sleeps no
\* longer than until the next expiry.
LEMMA ProcessBlockKeeps ==
    Inv /\ prvProcessTimerOrBlockTask /\ ~Wrapped
        /\ (\A t \in HeadEntry : xItemValue[t] > xTickCount) => Inv'
<1> SUFFICES ASSUME Inv, prvProcessTimerOrBlockTask, ~Wrapped,
                    \A t \in HeadEntry : xItemValue[t] > xTickCount
             PROVE  Inv'
  OBVIOUS
<1> USE DEF Inv, TimersTypeOK
<1>0. \A t \in HeadEntry : ~ (xItemValue[t] <= xTickCount)
  <2>1. \A i, j \in TickType_t : i > j => ~ (i <= j)
    BY TimersAssumption DEF TickType_t
  <2>2. \A t \in Timer : xItemValue[t] \in TickType_t
    BY DEF TimerTypeOK
  <2>3. HeadEntry \subseteq Timer /\ xTickCount \in TickType_t
    BY Zenon DEF HeadEntry, Listed, DaemonTypeOK
  <2> QED BY <2>1, <2>2, <2>3, Zenon
<1>1. /\ pc = "top" /\ Sample("process")
      /\ xTickCount' = xTickCount /\ left' = left
      /\ xTimerPeriodInTicks' = xTimerPeriodInTicks /\ autoReload' = autoReload
      /\ active' = active /\ freed' = freed /\ list' = list /\ xItemValue' = xItemValue
      /\ timer' = timer /\ xExpiredTime' = xExpiredTime
      /\ message' = message /\ xTimerQueue' = xTimerQueue
      /\ \/ pc' = "blocked" /\ sleep' = TicksToWait
         \/ pc' = "commands" /\ sleep' = sleep
  BY <1>0, Zenon DEF prvProcessTimerOrBlockTask, timers, status, lists, reload, commands
<1>2. switching = "none" /\ sleep = 0 /\ message = NoMessage /\ timer = NoTimer
  BY <1>1, Zenon DEF ControlInv, DaemonTypeOK, CommandTypeOK
<1>3. /\ ClockInv' /\ age' = 0 /\ xTimeNow' = xTickCount
      /\ xLastTime' \in TickType_t /\ elapsed' \in 0 .. 3 * Wrap
      /\ SomeActive => elapsed' = elapsed
      /\ switching' = "none"
  <2>1. SomeActive' => SomeActive
    BY <1>1, Zenon DEF SomeActive
  <2> QED BY <1>1, <1>2, <2>1, SampleKeeps, Zenon
<1>4. /\ TicksToWait \in TickType_t
      /\ \A t \in Timer : active[t] => TicksToWait \in 1 .. left[t]
  <2>1. \A t \in Timer : /\ xItemValue[t] \in 0 .. Wrap - 1 /\ left[t] \in Int
                         /\ list[t] \in {"none", "current", "overflow"}
    BY Zenon DEF TimerTypeOK, TickType_t
  <2>2. xTickCount \in 0 .. Wrap - 1
    BY Zenon DEF DaemonTypeOK, TickType_t
  <2>3. ASSUME NEW t \in Timer, active[t]
        PROVE  /\ list[t] = "current" => left[t] = xItemValue[t] - xTickCount
               /\ list[t] = "overflow" => left[t] = xItemValue[t] + Wrap - xTickCount
               /\ list[t] # "none"
    <3>1. elapsed = xTickCount
      BY <1>2, <2>3, SampleTells, Zenon DEF SomeActive
    <3>2. list[t] # "none"
      BY <1>1, <1>2, <2>3, TimersAssumption, Zenon DEF ActiveIsListed, NoMessage
    <3>3. Due(t) = left[t]
      BY <1>1, <2>1 DEF Due
    <3> QED BY <3>1, <3>2, <3>3, Zenon DEF ListsTellTheTime
  <2>4. CASE Listed("current") = {}
    <3>1. \/ TicksToWait = 0 /\ \A t \in Timer : list[t] = "none"
          \/ TicksToWait = 1 /\ xTickCount = 0
          \/ TicksToWait = Wrap - xTickCount /\ xTickCount # 0
      BY <2>2, <2>4, TimersAssumption DEF TicksToWait, Minus
    <3>2. \A t \in Timer : active[t] => list[t] = "overflow"
      BY <2>1, <2>3, <2>4, Zenon DEF Listed
    <3> QED BY <2>1, <2>2, <2>3, <3>1, <3>2, TimersAssumption DEF TickType_t
  <2>5. CASE Listed("current") # {}
    <3> DEFINE h == CHOOSE t \in HeadEntry : TRUE
    <3>1. h \in HeadEntry
      BY <2>5, HeadExists, Zenon
    <3>2. PICK next \in 0 .. Wrap - 1 : next = xItemValue[h]
      BY <2>1, <3>1, Zenon DEF HeadEntry, Listed
    <3>3. next > xTickCount /\ \A u \in Timer : list[u] = "current" => next <= xItemValue[u]
      BY <3>1, <3>2, Zenon DEF HeadEntry, Listed
    <3>4. TicksToWait = next - xTickCount
      <4>1. ~ \A t \in Timer : list[t] = "none"
        BY <2>5 DEF Listed
      <4> QED BY <2>2, <2>5, <3>2, <3>3, <4>1, TimersAssumption DEF TicksToWait, Minus
    <3> QED BY <2>1, <2>2, <2>3, <3>3, <3>4, TimersAssumption DEF TickType_t
  <2> QED BY <2>4, <2>5, Zenon
<1>5. TimersTypeOK'
  BY <1>1, <1>2, <1>3, <1>4, TimersAssumption DEF TimerTypeOK, DaemonTypeOK, CommandTypeOK
<1>6. ControlInv' /\ InHandInv' /\ ReloadInv' /\ CallsAreDue'
  BY <1>1, <1>2, <1>3, Zenon DEF ControlInv, InHandInv, ReloadInv, CallsAreDue
<1>7. NeverSleepsPast'
  BY <1>1, <1>4, Zenon DEF NeverSleepsPast
<1>8. CommandInv'
  BY <1>1, Zenon DEF CommandInv, Stamped
<1>9. ListsTellTheTime'
  BY <1>1, <1>3, Zenon DEF ListsTellTheTime, Due, ActiveIsListed, SomeActive
<1>10. ActiveIsListed' /\ FreedIsGone'
  BY <1>1, Zenon DEF ActiveIsListed, FreedIsGone
<1> QED BY <1>3, <1>5, <1>6, <1>7, <1>8, <1>9, <1>10, Zenon

\* prvProcessExpiredTimer, for the timer at the head of the current list.
LEMMA ExpiryKeeps ==
    ASSUME Inv, NEW t \in HeadEntry, prvProcessExpiredTimer(t),
           pc \in {"top", "switch"}, sleep' = sleep,
           xTickCount' = xTickCount, xTimerQueue' = xTimerQueue, message' = message,
           switching' = switching, elapsed' = elapsed, age' \in 0 .. age,
           xTimeNow' \in TickType_t, xLastTime' \in TickType_t, ClockInv',
           xItemValue[t] <= elapsed, xItemValue[t] <= Limit'
    PROVE  Inv'
<1> USE DEF Inv, TimersTypeOK
<1>1. /\ t \in Timer /\ list[t] = "current" /\ xItemValue[t] \in TickType_t
      /\ active[t] /\ t \notin freed /\ left[t] = xItemValue[t] - elapsed
  <2>1. t \in Timer /\ list[t] = "current"
    BY Zenon DEF HeadEntry, Listed
  <2> QED BY <2>1 DEF TimerTypeOK, ActiveIsListed, FreedIsGone, ListsTellTheTime, Due
<1>2. /\ list' = [list EXCEPT ![t] = "none"] /\ xItemValue' = [xItemValue EXCEPT ![t] = 0]
      /\ timer' = t /\ xExpiredTime' = xItemValue[t]
      /\ pc' = IF autoReload[t] THEN "reload" ELSE "callback"
      /\ active' = [active EXCEPT ![t] = active[t] /\ autoReload[t]]
      /\ xTimerPeriodInTicks' = xTimerPeriodInTicks /\ autoReload' = autoReload
      /\ freed' = freed /\ left' = left
  BY Zenon DEF prvProcessExpiredTimer, Remove
<1>3. pc' \in {"reload", "callback"} /\ sleep' = 0 /\ timer = NoTimer
  BY <1>2, Zenon DEF ControlInv, DaemonTypeOK
<1>4. /\ list' \in [Timer -> {"none", "current", "overflow"}]
      /\ active' \in [Timer -> BOOLEAN] /\ xItemValue' \in [Timer -> TickType_t]
      /\ list'[t] = "none" /\ (active'[t] <=> autoReload[t])
      /\ \A u \in Timer \ {t} : /\ list'[u] = list[u] /\ active'[u] = active[u]
                                /\ xItemValue'[u] = xItemValue[u]
  BY <1>1, <1>2, Arithmetic, Zenon DEF TimerTypeOK
<1>5. TimersTypeOK'
  <2>1. TimerTypeOK'
    BY <1>2, <1>4, Zenon DEF TimerTypeOK
  <2>2. DaemonTypeOK'
    <3>1. age' \in 0 .. Wrap
      BY TimersAssumption DEF DaemonTypeOK
    <3> QED BY <1>1, <1>2, <1>3, <3>1, Zenon DEF DaemonTypeOK
  <2>3. CommandTypeOK'
    BY <1>3, Zenon DEF CommandTypeOK
  <2> QED BY <2>1, <2>2, <2>3, Zenon
<1>6. ControlInv'
  BY <1>1, <1>2, <1>3, <1>4, Zenon DEF ControlInv
<1>7. CommandInv'
  BY <1>2, Zenon DEF CommandInv, Stamped
<1>8. InHandInv'
  <2>1. Stamped(message)' = Stamped(message)
    BY Zenon DEF Stamped
  <2>2. message.id = "START" /\ message # NoMessage => age' <= message.age
    <3>1. message.id = "START" /\ message # NoMessage => age <= message.age
      BY Zenon DEF InHandInv
    <3>2. message # NoMessage => message.age \in TickType_t
      BY Fields, Zenon DEF CommandTypeOK
    <3>3. age \in 0 .. Wrap
      BY Zenon DEF DaemonTypeOK
    <3> QED BY <3>1, <3>2, <3>3, Sums, Zenon
  <2>3. message # NoMessage /\ message.id # "PEND" => list'[message.timer] = "none" /\ t # message.timer
    BY <1>1, <1>4, Zenon DEF InHandInv, CommandTypeOK, Message, Stamped
  <2> QED BY <1>2, <1>3, <2>1, <2>2, <2>3, Zenon DEF InHandInv
<1>9. ReloadInv'
  <2>1. elapsed \in 0 .. 3 * Wrap /\ left'[t] + elapsed' = xItemValue[t] - elapsed + elapsed
    BY <1>1, <1>2, Zenon DEF DaemonTypeOK
  <2>2. left'[t] + elapsed' = xItemValue[t]
    BY <1>1, <2>1, Sums, Zenon
  <2>3. Limit' \in TickType_t
    BY Sums, Zenon DEF Limit, tmrMAX_TIME_BEFORE_OVERFLOW
  <2>4. Limit' < xItemValue[t] + Wrap
    BY <1>1, <2>3, Sums, Zenon
  <2> QED BY <1>2, <2>2, <2>4, Zenon DEF ReloadInv
<1>10. ListsTellTheTime'
  BY <1>2, <1>3, <1>4, Zenon DEF ListsTellTheTime, Due
<1>11. CallsAreDue' /\ NeverSleepsPast'
  <2>1. elapsed \in 0 .. 3 * Wrap
    BY Zenon DEF DaemonTypeOK
  <2>2. xItemValue[t] - elapsed <= 0
    BY <1>1, <2>1, Sums, Zenon
  <2>3. left'[timer'] <= 0
    BY <1>1, <1>2, <2>2, Zenon
  <2> QED BY <1>3, <2>3, Zenon DEF CallsAreDue, NeverSleepsPast
<1>12. ActiveIsListed'
  BY <1>1, <1>2, <1>3, <1>4, Zenon DEF ActiveIsListed
<1>13. FreedIsGone'
  BY <1>1, <1>2, <1>4, Zenon DEF FreedIsGone, TimerTypeOK
<1> QED BY <1>5, <1>6, <1>7, <1>8, <1>9, <1>10, <1>11, <1>12, <1>13, Zenon

\* A timer in the current list is active, and the time tells when it expires.
LEMMA HeadIsActive ==
    Inv => \A t \in HeadEntry : t \in Timer /\ active[t] /\ xItemValue[t] \in 0 .. Wrap - 1
<1> SUFFICES ASSUME Inv, NEW t \in HeadEntry
             PROVE  t \in Timer /\ active[t] /\ xItemValue[t] \in 0 .. Wrap - 1
  OBVIOUS
<1>1. t \in Timer /\ list[t] = "current"
  BY Zenon DEF HeadEntry, Listed
<1> QED BY <1>1, Zenon DEF Inv, TimersTypeOK, TimerTypeOK, ActiveIsListed, TickType_t

\* Once a timer has expired, no other timer has become active.
LEMMA ExpiryActivatesNone ==
    Inv => \A t \in HeadEntry : prvProcessExpiredTimer(t) => (SomeActive' => SomeActive)
BY HeadIsActive, Zenon DEF Inv, TimersTypeOK, TimerTypeOK, prvProcessExpiredTimer, SomeActive

\* prvProcessTimerOrBlockTask, the timer at the head having expired.
LEMMA ProcessExpiredKeeps ==
    Inv /\ prvProcessTimerOrBlockTask /\ ~Wrapped
        /\ (\E t \in HeadEntry : xItemValue[t] <= xTickCount /\ prvProcessExpiredTimer(t))
        /\ sleep' = sleep => Inv'
<1> SUFFICES ASSUME Inv, prvProcessTimerOrBlockTask, ~Wrapped, sleep' = sleep,
                    NEW t \in HeadEntry, xItemValue[t] <= xTickCount, prvProcessExpiredTimer(t)
             PROVE  Inv'
  OBVIOUS
<1>1. /\ pc = "top" /\ Sample("process") /\ xTickCount' = xTickCount
      /\ message' = message /\ xTimerQueue' = xTimerQueue
  BY DEF prvProcessTimerOrBlockTask, commands
<1>2. /\ switching = "none" /\ age \in Nat /\ xTickCount \in TickType_t
  BY <1>1 DEF Inv, ControlInv, TimersTypeOK, DaemonTypeOK
<1>3. SomeActive /\ (SomeActive' => SomeActive)
  BY HeadIsActive, ExpiryActivatesNone DEF SomeActive
<1>4. /\ ClockInv' /\ age' = 0 /\ xTimeNow' = xTickCount
      /\ xLastTime' \in TickType_t
      /\ elapsed' = elapsed /\ switching' = "none"
  BY <1>1, <1>2, <1>3, SampleKeeps, Zenon
<1>5. xItemValue[t] <= elapsed
  BY <1>2, <1>3, SampleTells
<1>6. xItemValue[t] <= Limit' /\ age' \in 0 .. age
  BY <1>2, <1>4 DEF Limit
<1> QED BY <1>1, <1>2, <1>4, <1>5, <1>6, ExpiryKeeps, Zenon

\* A turn of the loop of prvSwitchTimerLists.
LEMMA SwitchExpiredKeeps == Inv /\ SwitchExpired => Inv'
<1> SUFFICES ASSUME Inv, NEW t \in HeadEntry, SwitchExpired, prvProcessExpiredTimer(t) PROVE Inv'
  BY DEF SwitchExpired
<1>1. /\ pc = "switch" /\ xTickCount' = xTickCount /\ sleep' = sleep
      /\ message' = message /\ xTimerQueue' = xTimerQueue
      /\ xTimeNow' = xTimeNow /\ xLastTime' = xLastTime /\ age' = age /\ elapsed' = elapsed
      /\ switching' = switching
  BY DEF SwitchExpired, commands, sample
<1>2. /\ switching # "none" /\ age \in Nat /\ xTimeNow \in TickType_t /\ xLastTime \in TickType_t
      /\ xTimeNow \in Nat
  BY <1>1, Arithmetic DEF Inv, ControlInv, TimersTypeOK, DaemonTypeOK
<1>3. SomeActive /\ (SomeActive' => SomeActive)
  BY HeadIsActive, ExpiryActivatesNone DEF SomeActive
<1>4. xItemValue[t] <= elapsed
  BY <1>2, <1>3, HeadIsActive, TimersAssumption DEF Inv, ClockInv
<1>5. xItemValue[t] <= Limit' /\ age' \in 0 .. age
  BY <1>1, <1>2, HeadIsActive, TimersAssumption DEF Limit, tmrMAX_TIME_BEFORE_OVERFLOW
<1>6. ClockInv'
  <2>1. UsesSample' /\ UsesSample
    BY <1>1, <1>2 DEF UsesSample
  <2> QED BY <1>1, <1>2, <1>3, <2>1, Zenon DEF Inv, ClockInv
<1> QED BY <1>1, <1>2, <1>4, <1>5, <1>6, ExpiryKeeps, Zenon

\* The end of prvSwitchTimerLists: the lists change places.
LEMMA SwitchListsKeeps == Inv /\ SwitchLists => Inv'
<1> SUFFICES ASSUME Inv, SwitchLists PROVE Inv'
  OBVIOUS
<1> USE DEF Inv, TimersTypeOK
<1>1. /\ pc = "switch" /\ xLastTime' = xTimeNow /\ elapsed' = xTimeNow + age
      /\ pc' = IF switching = "process" THEN "commands" ELSE "execute"
      /\ switching' = "none" /\ xTickCount' = xTickCount /\ left' = left
      /\ xTimerPeriodInTicks' = xTimerPeriodInTicks /\ autoReload' = autoReload
      /\ active' = active /\ freed' = freed /\ xItemValue' = xItemValue
      /\ xTimeNow' = xTimeNow /\ age' = age
      /\ timer' = timer /\ xExpiredTime' = xExpiredTime
      /\ message' = message /\ xTimerQueue' = xTimerQueue /\ sleep' = sleep
  BY Zenon DEF SwitchLists, status, reload, commands
<1>2. /\ list' = [t \in Timer |-> IF list[t] = "overflow" THEN "current" ELSE "none"]
      /\ \A t \in Timer : list[t] \in {"none", "overflow"}
  BY Zenon DEF SwitchLists, Exchanged, Listed, TimerTypeOK
<1>3. /\ switching \in {"process", "command"} /\ sleep = 0 /\ timer = NoTimer
      /\ UsesSample
  BY <1>1, Zenon DEF ControlInv, DaemonTypeOK, UsesSample
<1>4. /\ age \in 0 .. Wrap /\ xTimeNow \in 0 .. Wrap - 1
      /\ xTimeNow + age \in 0 .. 3 * Wrap /\ age < Wrap
  BY <1>3, TimersAssumption DEF DaemonTypeOK, TickType_t, ClockInv
<1>5. TimersTypeOK'
  <2>1. TimerTypeOK'
    BY <1>1, <1>2, Zenon DEF TimerTypeOK
  <2>2. DaemonTypeOK'
    BY <1>1, <1>3, <1>4, Zenon DEF DaemonTypeOK
  <2>3. CommandTypeOK'
    BY <1>1, <1>3, Zenon DEF CommandTypeOK
  <2> QED BY <2>1, <2>2, <2>3
<1>6. ControlInv' /\ ReloadInv' /\ CallsAreDue' /\ NeverSleepsPast'
  BY <1>1, <1>3, Zenon DEF ControlInv, ReloadInv, CallsAreDue, NeverSleepsPast
<1>7. CommandInv'
  BY <1>1, Zenon DEF CommandInv, Stamped
<1>8. InHandInv'
  <2>1. Stamped(message)' = Stamped(message)
    BY <1>1, Zenon DEF Stamped
  <2>2. message # NoMessage /\ message.id # "PEND" => message.timer \in Timer
    BY Zenon DEF InHandInv, CommandTypeOK, Message, Stamped
  <2> QED BY <1>1, <1>2, <2>1, <2>2, Zenon DEF InHandInv
<1>9. ClockInv'
  BY <1>1, <1>4, TimersAssumption DEF ClockInv
<1>10. ListsTellTheTime'
  <2>1. ASSUME NEW t \in Timer, list[t] = "overflow" PROVE left[t] = xItemValue[t] - (xTimeNow + age)
    <3>1. elapsed = Wrap + xTimeNow + age
      BY <1>3, <2>1, Zenon DEF ActiveIsListed, ClockInv, SomeActive
    <3>2. left[t] = xItemValue[t] + Wrap - elapsed
      BY <1>1, <2>1 DEF ListsTellTheTime, Due, TimerTypeOK
    <3> QED BY <1>4, <3>1, <3>2, TimersAssumption DEF TimerTypeOK, TickType_t
  <2> QED BY <1>1, <1>2, <2>1 DEF ListsTellTheTime, Due, TimerTypeOK
<1>11. ActiveIsListed' /\ FreedIsGone'
  BY <1>1, <1>2, Zenon DEF ActiveIsListed, FreedIsGone, TimerTypeOK
<1> QED BY <1>5, <1>6, <1>7, <1>8, <1>9, <1>10, <1>11

\* The head of the loop of prvProcessReceivedCommands.
LEMMA ReceiveKeeps == Inv /\ Receive => Inv'
<1> SUFFICES ASSUME Inv, Receive PROVE Inv'
  OBVIOUS
<1> USE DEF Inv, TimersTypeOK
<1>1. /\ pc = "commands" /\ xTickCount' = xTickCount /\ left' = left
      /\ xTimerPeriodInTicks' = xTimerPeriodInTicks /\ autoReload' = autoReload
      /\ active' = active /\ freed' = freed
      /\ xTimeNow' = xTimeNow /\ xLastTime' = xLastTime /\ age' = age /\ elapsed' = elapsed
      /\ timer' = timer /\ xExpiredTime' = xExpiredTime /\ switching' = switching
      /\ sleep' = sleep
  BY Zenon DEF Receive, status, sample, reload
<1>2. switching = "none" /\ sleep = 0 /\ timer = NoTimer /\ message = NoMessage
  BY <1>1, Zenon DEF ControlInv, DaemonTypeOK, CommandTypeOK
<1>3. CASE xTimerQueue = <<>>
  <2>1. /\ pc' = "top" /\ xTimerQueue' = xTimerQueue /\ message' = message
        /\ list' = list /\ xItemValue' = xItemValue
    BY <1>3, Zenon DEF Receive, commands, lists
  <2>2. TimersTypeOK' /\ ControlInv'
    BY <1>1, <1>2, <2>1, Zenon DEF TimerTypeOK, DaemonTypeOK, CommandTypeOK, ControlInv
  <2>3. CommandInv' /\ InHandInv'
    BY <1>1, <1>2, <2>1, ZenonT(30) DEF CommandInv, InHandInv, Stamped
  <2>4. ClockInv' /\ ReloadInv' /\ CallsAreDue' /\ NeverSleepsPast'
    BY <1>1, <1>2, <2>1, Zenon DEF ClockInv, SomeActive, UsesSample, ReloadInv, CallsAreDue, NeverSleepsPast
  <2>5. ListsTellTheTime' /\ ActiveIsListed' /\ FreedIsGone'
    BY <1>1, <2>1, Zenon DEF ListsTellTheTime, Due, ActiveIsListed, FreedIsGone
  <2> QED BY <2>2, <2>3, <2>4, <2>5
<1>4. CASE xTimerQueue # <<>>
  <2>1. PICK m \in Message : m = xTimerQueue[1] /\ m = Head(xTimerQueue)
    BY <1>4 DEF CommandTypeOK
  <2>2. /\ xTimerQueue' \in Seq(Message) /\ Len(xTimerQueue') = Len(xTimerQueue) - 1
        /\ Len(xTimerQueue) \in Nat \ {0}
        /\ \A i \in 1 .. Len(xTimerQueue') : xTimerQueue'[i] = xTimerQueue[i + 1]
    BY <1>4 DEF Receive, CommandTypeOK
  <2>3. message' = m /\ pc' = IF m.id = "PEND" THEN "execute" ELSE "sample"
    BY <1>4, <2>1, Zenon DEF Receive
  <2>4. /\ m # NoMessage /\ m.timer \in Timer \cup {NoTimer}
        /\ m.timer = NoTimer <=> m.id = "PEND"
        /\ Stamped(m) /\ m.timer \notin freed
        /\ m.id = "DELETE" => \A i \in 1 .. Len(xTimerQueue') : xTimerQueue'[i].timer # m.timer
    <3>1. m # NoMessage /\ m.timer \in Timer \cup {NoTimer}
      BY Fields, Zenon
    <3>2. Stamped(m) /\ m.timer \notin freed
      BY <2>1, <2>2, SMTT(30) DEF CommandInv
    <3>3. m.id = "DELETE" => \A i \in 1 .. Len(xTimerQueue') : xTimerQueue'[i].timer # m.timer
      BY <2>1, <2>2 DEF CommandInv
    <3> QED BY <3>1, <3>2, <3>3, Zenon DEF Stamped
  <2>5. /\ list' \in [Timer -> {"none", "current", "overflow"}]
        /\ xItemValue' \in [Timer -> TickType_t]
        /\ m.id # "PEND" => list'[m.timer] = "none"
        /\ \A t \in Timer \ {m.timer} : list'[t] = list[t] /\ xItemValue'[t] = xItemValue[t]
    <3>1. CASE m.id = "PEND"
      BY <1>4, <2>1, <3>1, Zenon DEF Receive, lists, TimerTypeOK
    <3>2. CASE m.id # "PEND"
      <4>1. /\ list' = [list EXCEPT ![m.timer] = "none"]
            /\ xItemValue' = [xItemValue EXCEPT ![m.timer] = 0]
        BY <1>4, <2>1, <3>2, Zenon DEF Receive, Remove
      <4>2. m.timer \in Timer
        BY <2>4, <3>2
      <4> QED BY <4>1, <4>2, Arithmetic, Zenon DEF TimerTypeOK
    <3> QED BY <3>1, <3>2, Zenon
  <2>6. \A t \in Timer : list'[t] # "none" => list[t] = list'[t] /\ xItemValue'[t] = xItemValue[t]
    BY <2>4, <2>5, TimersAssumption, Zenon
  <2>7. TimersTypeOK'
    <3>1. TimerTypeOK' /\ DaemonTypeOK'
      BY <1>1, <1>2, <2>3, <2>5, Zenon DEF TimerTypeOK, DaemonTypeOK
    <3>2. CommandTypeOK'
      BY <1>1, <1>2, <2>2, <2>3, <2>4, TimersAssumption DEF CommandTypeOK
    <3> QED BY <3>1, <3>2
  <2>8. ControlInv' /\ ReloadInv' /\ CallsAreDue' /\ NeverSleepsPast'
    BY <1>1, <1>2, <2>3, Zenon DEF ControlInv, ReloadInv, CallsAreDue, NeverSleepsPast
  <2>9. CommandInv'
    <3>1. ASSUME NEW i \in 1 .. Len(xTimerQueue')
          PROVE  (Stamped(xTimerQueue[i]) /\ xTimerQueue[i].timer \notin freed)'
      <4>1. i + 1 \in 1 .. Len(xTimerQueue)
        BY <2>2
      <4>2. Stamped(xTimerQueue[i + 1]) /\ xTimerQueue[i + 1].timer \notin freed
        BY <4>1, Zenon DEF CommandInv
      <4> QED BY <1>1, <2>2, <4>2, Zenon DEF Stamped
    <3>2. ASSUME NEW i \in 1 .. Len(xTimerQueue'), NEW j \in 1 .. Len(xTimerQueue'),
                 i < j, xTimerQueue'[i].id = "DELETE"
          PROVE  xTimerQueue'[j].timer # xTimerQueue'[i].timer
      <4>1. /\ i + 1 \in 1 .. Len(xTimerQueue) /\ j + 1 \in 1 .. Len(xTimerQueue)
            /\ i + 1 < j + 1
        BY <2>2, <3>2
      <4> QED BY <2>2, <3>2, <4>1, Zenon DEF CommandInv
    <3> QED BY <3>1, <3>2, Zenon DEF CommandInv
  <2>10. InHandInv'
    <3>1. Stamped(message)'
      BY <1>1, <2>3, <2>4, Zenon DEF Stamped
    <3> QED BY <1>1, <1>2, <2>3, <2>4, <2>5, <3>1, Zenon DEF InHandInv
  <2>11. ClockInv'
    <3>1. UsesSample' => SomeActive
      BY <1>1, <1>2, <2>3, Zenon DEF UsesSample
    <3>2. SomeActive' = SomeActive
      BY <1>1 DEF SomeActive
    <3> QED BY <1>1, <3>1, <3>2, Zenon DEF ClockInv
  <2>12. ListsTellTheTime'
    BY <1>1, <2>3, <2>6, Zenon DEF ListsTellTheTime, Due
  <2>13. ActiveIsListed' /\ FreedIsGone'
    <3>1. ActiveIsListed'
      BY <1>1, <1>2, <2>3, <2>4, <2>5, <2>6, TimersAssumption, Zenon DEF ActiveIsListed, NoMessage
    <3>2. \A t \in freed : list[t] = "none" /\ t \in Timer /\ t # m.timer
      BY <2>4, Zenon DEF FreedIsGone, TimerTypeOK
    <3>3. FreedIsGone'
      BY <1>1, <2>3, <2>5, <3>2, Zenon DEF FreedIsGone
    <3> QED BY <3>1, <3>3
  <2> QED BY <2>7, <2>8, <2>9, <2>10, <2>11, <2>12, <2>13, Zenon
<1> QED BY <1>3, <1>4, Zenon

\* The sample taken for a command.
LEMMA SampleForCommandKeeps == Inv /\ SampleForCommand => Inv'
<1> SUFFICES ASSUME Inv, SampleForCommand PROVE Inv'
  OBVIOUS
<1> USE DEF Inv, TimersTypeOK
<1>1. /\ pc = "sample" /\ pc' = (IF Wrapped THEN "switch" ELSE "execute") /\ Sample("command")
      /\ xTickCount' = xTickCount /\ left' = left
      /\ xTimerPeriodInTicks' = xTimerPeriodInTicks /\ autoReload' = autoReload
      /\ active' = active /\ freed' = freed /\ list' = list /\ xItemValue' = xItemValue
      /\ timer' = timer /\ xExpiredTime' = xExpiredTime
      /\ message' = message /\ xTimerQueue' = xTimerQueue /\ sleep' = sleep
  BY DEF SampleForCommand, timers, status, lists, reload, commands
<1>2. switching = "none" /\ sleep = 0 /\ message # NoMessage /\ timer = NoTimer
  BY <1>1, Zenon DEF ControlInv, DaemonTypeOK, CommandTypeOK
<1>3. /\ ClockInv' /\ age' = 0 /\ xTimeNow' = xTickCount
      /\ xLastTime' \in TickType_t /\ elapsed' \in 0 .. 3 * Wrap
      /\ SomeActive => elapsed' = elapsed
      /\ switching' = IF Wrapped THEN "command" ELSE "none"
  <2>1. SomeActive' => SomeActive
    BY <1>1, Zenon DEF SomeActive
  <2> QED BY <1>1, <1>2, <2>1, SampleKeeps, Zenon
<1>4. TimersTypeOK'
  <2>1. TimerTypeOK'
    BY <1>1, Zenon DEF TimerTypeOK
  <2>2. DaemonTypeOK'
    BY <1>1, <1>2, <1>3, Sums, Zenon DEF DaemonTypeOK
  <2>3. CommandTypeOK'
    BY <1>1, <1>2, <1>3, Zenon DEF CommandTypeOK
  <2> QED BY <2>1, <2>2, <2>3, Zenon
<1>5. ControlInv' /\ ReloadInv' /\ CallsAreDue' /\ NeverSleepsPast'
  BY <1>1, <1>2, <1>3, Zenon DEF ControlInv, ReloadInv, CallsAreDue, NeverSleepsPast
<1>6. CommandInv'
  BY <1>1, Zenon DEF CommandInv, Stamped
<1>7. InHandInv'
  <2>1. Stamped(message)' = Stamped(message)
    BY <1>1, Zenon DEF Stamped
  <2>2. 0 <= message.age
    BY <1>2 DEF CommandTypeOK, Message, TickType_t
  <2> QED BY <1>1, <1>2, <1>3, <2>1, <2>2, Zenon DEF InHandInv
<1>8. ListsTellTheTime'
  BY <1>1, <1>3, Zenon DEF ListsTellTheTime, Due, ActiveIsListed, SomeActive
<1>9. ActiveIsListed' /\ FreedIsGone'
  BY <1>1, Zenon DEF ActiveIsListed, FreedIsGone
<1> QED BY <1>3, <1>4, <1>5, <1>6, <1>7, <1>8, <1>9, Zenon

\* The callback: what is left is then counted to the next one.
LEMMA CallbackKeeps == Inv /\ Callback => Inv'
<1> SUFFICES ASSUME Inv, Callback PROVE Inv'
  OBVIOUS
<1> USE DEF Inv, TimersTypeOK
<1>1. /\ pc = "callback" /\ xTickCount' = xTickCount
      /\ xTimerPeriodInTicks' = xTimerPeriodInTicks /\ autoReload' = autoReload
      /\ active' = active /\ freed' = freed /\ list' = list /\ xItemValue' = xItemValue
      /\ xTimeNow' = xTimeNow /\ xLastTime' = xLastTime /\ age' = age /\ elapsed' = elapsed
      /\ timer' = NoTimer /\ xExpiredTime' = 0 /\ switching' = switching
      /\ message' = message /\ xTimerQueue' = xTimerQueue /\ sleep' = sleep
      /\ pc' = IF switching = "none" THEN "commands" ELSE "switch"
  BY Zenon DEF Callback, status, lists, sample, commands
<1>2. timer \in Timer /\ sleep = 0
  BY <1>1, Zenon DEF ControlInv, DaemonTypeOK
<1>3. /\ left' \in [Timer -> Int]
      /\ list[timer] # "none" => left'[timer] = left[timer] + xTimerPeriodInTicks[timer]
      /\ \A t \in Timer \ {timer} : left'[t] = left[t]
  <2>1. xTimerPeriodInTicks[timer] \in Int /\ left[timer] \in Int /\ Wrap \in Int
    BY <1>2, TimersAssumption DEF TimerTypeOK, TickType_t
  <2>2. PICK k \in Int : /\ left' = [left EXCEPT ![timer] = k]
                         /\ list[timer] # "none" => k = left[timer] + xTimerPeriodInTicks[timer]
    BY <2>1 DEF Callback, Expect
  <2> QED BY <1>2, <2>2, Zenon DEF TimerTypeOK
<1>4. TimersTypeOK'
  <2>1. TimerTypeOK'
    BY <1>1, <1>3, Zenon DEF TimerTypeOK
  <2>2. DaemonTypeOK' /\ CommandTypeOK'
    BY <1>1, <1>2, Arithmetic, TimersAssumption, Zenon DEF DaemonTypeOK, CommandTypeOK
  <2> QED BY <2>1, <2>2
<1>5. ControlInv' /\ ReloadInv' /\ CallsAreDue' /\ NeverSleepsPast'
  BY <1>1, <1>2, Zenon DEF ControlInv, ReloadInv, CallsAreDue, NeverSleepsPast, DaemonTypeOK
<1>6. CommandInv'
  BY <1>1, Zenon DEF CommandInv, Stamped
<1>7. InHandInv'
  <2>1. Stamped(message)' = Stamped(message)
    BY <1>1, Zenon DEF Stamped
  <2>2. message # NoMessage /\ message.id # "PEND" => message.timer # NoTimer
    BY Zenon DEF InHandInv, Stamped
  <2> QED BY <1>1, <2>1, <2>2, Zenon DEF InHandInv
<1>8. ClockInv'
  <2>1. UsesSample' => UsesSample
    BY <1>1, Zenon DEF UsesSample
  <2>2. SomeActive' = SomeActive
    BY <1>1, Zenon DEF SomeActive
  <2> QED BY <1>1, <2>1, <2>2, Zenon DEF ClockInv
<1>9. ListsTellTheTime'
  <2>1. ASSUME NEW t \in Timer, list[t] # "none" PROVE Due(t)' = Due(t)
    <3>1. left[t] \in Int /\ left'[t] \in Int /\ xTimerPeriodInTicks[t] \in Int
      BY <1>3, TimersAssumption DEF TimerTypeOK, TickType_t
    <3> QED BY <1>1, <1>3, <2>1, <3>1, SMTT(30) DEF Due
  <2> QED BY <1>1, <2>1, Zenon DEF ListsTellTheTime
<1>10. ActiveIsListed'
  BY <1>1, Zenon DEF ActiveIsListed
<1>11. FreedIsGone'
  BY <1>1, TimersAssumption, Zenon DEF FreedIsGone, TimerTypeOK
<1> QED BY <1>4, <1>5, <1>6, <1>7, <1>8, <1>9, <1>10, <1>11

\* A turn of the loop of prvReloadTimer: the tick counts of the expiry in hand,
\* of the period and of the limit tell whether another period was missed.
LEMMA ReloadKeeps == Inv /\ prvReloadTimer => Inv'
<1> SUFFICES ASSUME Inv, prvReloadTimer PROVE Inv'
  OBVIOUS
<1> USE DEF Inv, TimersTypeOK
<1>1. /\ pc = "reload" /\ xTickCount' = xTickCount
      /\ xTimerPeriodInTicks' = xTimerPeriodInTicks /\ autoReload' = autoReload
      /\ active' = active /\ freed' = freed
      /\ xTimeNow' = xTimeNow /\ xLastTime' = xLastTime /\ age' = age /\ elapsed' = elapsed
      /\ timer' = timer /\ switching' = switching
      /\ message' = message /\ xTimerQueue' = xTimerQueue /\ sleep' = sleep
  BY Zenon DEF prvReloadTimer, status, sample, commands
<1>2. timer \in Timer /\ sleep = 0 /\ active[timer] /\ list[timer] = "none" /\ SomeActive
  BY <1>1, Zenon DEF ControlInv, DaemonTypeOK, SomeActive
<1>3. PICK p \in TickType_t \ {0} : p = xTimerPeriodInTicks[timer]
  BY <1>2 DEF TimerTypeOK
<1>4. PICK next : next = Plus(xExpiredTime, p)
  OBVIOUS
<1>5. PICK e \in Int : e = left[timer] + elapsed
  BY <1>2 DEF TimerTypeOK, DaemonTypeOK
<1>6. /\ Limit \in TickType_t /\ Limit <= elapsed /\ Limit' = Limit
      /\ Limit = IF switching = "none" THEN xTimeNow ELSE Wrap - 1
  BY <1>1, <1>2, TimersAssumption, SMTT(30)
  DEF Limit, ClockInv, DaemonTypeOK, TickType_t, tmrMAX_TIME_BEFORE_OVERFLOW
<1>7. PICK limit \in TickType_t : limit = Limit
  BY <1>6
<1>8. /\ e <= limit /\ limit < e + Wrap
      /\ xExpiredTime = e \/ xExpiredTime = e + Wrap
      /\ limit <= elapsed /\ elapsed \in Int /\ left[timer] \in Int
  BY <1>1, <1>2, <1>5, <1>6, <1>7, SMTT(30) DEF ReloadInv, TimerTypeOK, DaemonTypeOK
<1>9. PICK d \in TickType_t : d = limit - e
  BY <1>8, TimersAssumption DEF TickType_t
<1>10. /\ next \in TickType_t
       /\ Expired(next, limit, xExpiredTime, p) <=> d >= p
       /\ d < p /\ ListFor(next, limit) = "current" => next - limit = p - d
       /\ d < p /\ ListFor(next, limit) = "overflow" => next + Wrap - limit = p - d
       /\ ListFor(next, limit) \in {"current", "overflow"}
       /\ d >= p => next = limit - d + p \/ next = limit - d + p + Wrap
  <2>1. limit = xExpiredTime + d \/ limit = xExpiredTime + d - Wrap
    BY <1>8, <1>9, TimersAssumption DEF TickType_t
  <2>2. xExpiredTime \in TickType_t
    BY DEF DaemonTypeOK
  <2> QED BY <1>4, <2>1, <2>2, Insertion
<1>11. CommandInv'
  BY <1>1, Zenon DEF CommandInv, Stamped
<1>12. ClockInv'
  <2>1. SomeActive' = SomeActive
    BY <1>1, Zenon DEF SomeActive
  <2> QED BY <1>1, <1>2, <2>1, Zenon DEF ClockInv
<1>13. Stamped(message)' = Stamped(message)
  BY <1>1, Zenon DEF Stamped
<1>14. CASE d >= p
  <2>1. /\ xExpiredTime' = next /\ left' = [left EXCEPT ![timer] = left[timer] + p]
        /\ list' = list /\ xItemValue' = xItemValue /\ pc' = pc
    BY <1>3, <1>4, <1>7, <1>10, <1>14, Zenon DEF prvReloadTimer, Expect, lists
  <2>2. /\ left' \in [Timer -> Int] /\ left'[timer] = left[timer] + p
        /\ \A t \in Timer \ {timer} : left'[t] = left[t]
    BY <1>2, <1>8, <2>1, Arithmetic DEF TimerTypeOK
  <2>3. TimersTypeOK'
    BY <1>1, <1>10, <2>1, <2>2, Zenon DEF TimerTypeOK, DaemonTypeOK, CommandTypeOK
  <2>4. ControlInv' /\ InHandInv' /\ NeverSleepsPast'
    BY <1>1, <1>13, <2>1, Zenon DEF ControlInv, InHandInv, NeverSleepsPast
  <2>5. /\ left'[timer] + elapsed = e + p /\ e + p <= limit /\ limit < e + p + Wrap
        /\ next = e + p \/ next = e + p + Wrap
        /\ left'[timer] <= 0
    BY <1>5, <1>8, <1>9, <1>10, <1>14, <2>2, TimersAssumption DEF TickType_t
  <2>6. ReloadInv' /\ CallsAreDue'
    BY <1>1, <1>6, <1>7, <2>1, <2>5, Zenon DEF ReloadInv, CallsAreDue
  <2>7. ListsTellTheTime'
    BY <1>1, <1>2, <2>1, <2>2, Zenon DEF ListsTellTheTime, Due
  <2>8. ActiveIsListed' /\ FreedIsGone'
    BY <1>1, <2>1, Zenon DEF ActiveIsListed, FreedIsGone
  <2> QED BY <1>11, <1>12, <2>3, <2>4, <2>6, <2>7, <2>8, Zenon
<1>15. CASE ~ (d >= p)
  <2>1. /\ list' = [list EXCEPT ![timer] = ListFor(next, limit)]
        /\ xItemValue' = [xItemValue EXCEPT ![timer] = next]
        /\ pc' = "callback" /\ xExpiredTime' = xExpiredTime /\ left' = left
    BY <1>3, <1>4, <1>7, <1>10, <1>15, Zenon DEF prvReloadTimer, Insert
  <2>2. /\ list' \in [Timer -> {"none", "current", "overflow"}]
        /\ xItemValue' \in [Timer -> TickType_t]
        /\ list'[timer] = ListFor(next, limit) /\ xItemValue'[timer] = next
        /\ \A t \in Timer \ {timer} : list'[t] = list[t] /\ xItemValue'[t] = xItemValue[t]
    BY <1>2, <1>10, <2>1, Zenon DEF TimerTypeOK
  <2>3. TimersTypeOK'
    BY <1>1, <2>1, <2>2, Zenon DEF TimerTypeOK, DaemonTypeOK, CommandTypeOK
  <2>4. ControlInv' /\ NeverSleepsPast' /\ ReloadInv'
    BY <1>1, <1>2, <2>1, Zenon DEF ControlInv, NeverSleepsPast, ReloadInv
  <2>5. CallsAreDue'
    BY <1>1, <2>1, Zenon DEF CallsAreDue
  <2>6. InHandInv'
    <3>1. message # NoMessage /\ message.id # "PEND" =>
              message.timer \in Timer \ {timer} /\ list[message.timer] = "none"
      BY Zenon DEF InHandInv, CommandTypeOK, Message, Stamped
    <3>2. message # NoMessage /\ message.id # "PEND" => list'[message.timer] = "none"
      BY <2>2, <3>1, Zenon
    <3> QED BY <1>1, <1>13, <2>1, <3>1, <3>2, Zenon DEF InHandInv
  <2>7. ListsTellTheTime'
    <3>1. /\ list'[timer] = "current" => left[timer] + p = next - elapsed
          /\ list'[timer] = "overflow" => left[timer] + p = next + Wrap - elapsed
      BY <1>5, <1>8, <1>9, <1>10, <1>15, <2>2, TimersAssumption, SMTT(30) DEF TickType_t
    <3>2. Due(timer)' = left[timer] + p
      BY <1>1, <1>3, <2>1, Zenon DEF Due
    <3>3. \A t \in Timer \ {timer} : Due(t)' = Due(t)
      BY <1>1, <2>1, Zenon DEF Due
    <3> QED BY <1>1, <2>2, <3>1, <3>2, <3>3, Zenon DEF ListsTellTheTime
  <2>8. ActiveIsListed'
    BY <1>1, <1>2, <1>10, <2>1, <2>2, Zenon DEF ActiveIsListed
  <2>9. FreedIsGone'
    BY <1>1, <2>2, Zenon DEF FreedIsGone, TimerTypeOK
  <2> QED BY <1>11, <1>12, <2>3, <2>4, <2>5, <2>6, <2>7, <2>8, <2>9, Zenon
<1> QED BY <1>14, <1>15, Zenon

\* The state in which a command is executed.
LEMMA InHand ==
    ASSUME Inv, Execute
    PROVE  /\ pc = "execute" /\ switching = "none" /\ sleep = 0 /\ timer = NoTimer
           /\ message' = NoMessage /\ switching' = "none" /\ sleep' = 0
           /\ xTickCount' = xTickCount /\ autoReload' = autoReload
           /\ xTimeNow' = xTimeNow /\ xLastTime' = xLastTime /\ age' = age /\ elapsed' = elapsed
           /\ xTimerQueue' = xTimerQueue
           /\ message \in Message /\ message # NoMessage
           /\ message.id # "PEND" => message.timer \in Timer /\ list[message.timer] = "none"
           /\ message.timer \notin freed
<1> USE DEF Inv, TimersTypeOK
<1>1. pc = "execute" /\ switching = "none" /\ sleep = 0 /\ timer = NoTimer
  BY Zenon DEF Execute, ControlInv, DaemonTypeOK
<1>2. message \in Message /\ message # NoMessage
  BY <1>1 DEF CommandTypeOK
<1>3. message.id # "PEND" => message.timer \in Timer /\ list[message.timer] = "none"
  <2>1. message.timer \in Timer \cup {NoTimer}
    BY <1>2 DEF Message
  <2>2. message.id # "PEND" => message.timer # NoTimer /\ list[message.timer] = "none"
    BY <1>2, Zenon DEF InHandInv, Stamped
  <2> QED BY <2>1, <2>2
<1>4. message.timer \notin freed
  BY DEF FreedIsGone
<1> QED BY <1>1, <1>2, <1>3, <1>4, Zenon DEF Execute, sample

\* What is common to the commands for a timer: it is enough to look at that
\* timer, and at the expiry it leaves in hand if there is one.
LEMMA HandledKeeps ==
    ASSUME Inv, Execute, message.id # "PEND",
           NEW t \in Timer, t = message.timer,
           pc' \in {"commands", "reload", "callback"},
           timer' = IF pc' = "commands" THEN NoTimer ELSE t,
           xExpiredTime' \in TickType_t, TimerTypeOK',
           freed' = freed \/ (freed' = freed \cup {t} /\ message.id = "DELETE"),
           freed' # freed => pc' = "commands" /\ list'[t] = "none",
           \A u \in Timer \ {t} :
               /\ list'[u] = list[u] /\ xItemValue'[u] = xItemValue[u]
               /\ active'[u] = active[u] /\ left'[u] = left[u],
           list'[t] = "current" => pc' = "commands" /\ left'[t] = xItemValue'[t] - elapsed,
           list'[t] = "overflow" => pc' = "commands" /\ left'[t] = xItemValue'[t] + Wrap - elapsed,
           active'[t] <=> list'[t] # "none" \/ pc' = "reload",
           pc' # "commands" => list'[t] = "none" /\ left'[t] <= 0,
           pc' = "reload" =>
               /\ left'[t] + elapsed <= xTimeNow /\ xTimeNow < left'[t] + elapsed + Wrap
               /\ \/ xExpiredTime' = left'[t] + elapsed
                  \/ xExpiredTime' = left'[t] + elapsed + Wrap
    PROVE  Inv'
<1> USE DEF Inv, TimersTypeOK
<1>1. /\ pc = "execute" /\ switching = "none" /\ sleep = 0 /\ timer = NoTimer
      /\ message' = NoMessage /\ switching' = "none" /\ sleep' = 0
      /\ xTickCount' = xTickCount
      /\ xTimeNow' = xTimeNow /\ xLastTime' = xLastTime /\ age' = age /\ elapsed' = elapsed
      /\ xTimerQueue' = xTimerQueue /\ message # NoMessage /\ t \notin freed
  BY InHand, Zenon
<1>2. pc' # "blocked" /\ pc' # "switch" /\ pc' # "sample" /\ pc' # "execute"
  BY Zenon
<1>3. TimersTypeOK'
  <2>1. DaemonTypeOK'
    BY <1>1, TimersAssumption, Zenon DEF DaemonTypeOK, TickType_t
  <2>2. CommandTypeOK'
    BY <1>1, <1>2, Zenon DEF CommandTypeOK
  <2> QED BY <2>1, <2>2, Zenon
<1>4. ControlInv' /\ InHandInv' /\ NeverSleepsPast' /\ CallsAreDue'
  BY <1>1, <1>2, Zenon DEF ControlInv, InHandInv, NeverSleepsPast, CallsAreDue
<1>5. CommandInv'
  <2>1. \A i \in 1 .. Len(xTimerQueue) : xTimerQueue[i].timer \notin freed'
    <3>1. CASE freed' = freed
      BY <3>1, Zenon DEF CommandInv
    <3>2. CASE freed' = freed \cup {t} /\ message.id = "DELETE"
      BY <1>1, <3>2, Zenon DEF CommandInv, InHandInv
    <3> QED BY <3>1, <3>2, Zenon
  <2>2. \A i : Stamped(xTimerQueue[i])' <=> Stamped(xTimerQueue[i])
    BY <1>1, Zenon DEF Stamped
  <2> QED BY <1>1, <2>1, <2>2, Zenon DEF CommandInv
<1>6. ClockInv'
  <2>1. age < Wrap
    BY <1>1, Zenon DEF ClockInv, UsesSample
  <2> QED BY <1>1, <2>1, Zenon DEF ClockInv
<1>7. ReloadInv'
  BY <1>1, Zenon DEF ReloadInv, Limit
<1>8. ListsTellTheTime'
  <2>1. ASSUME NEW u \in Timer, list'[u] # "none" PROVE Due(u)' = left'[u]
    <3>1. ~(pc' = "callback" /\ timer' = u) /\ left'[u] \in Int
      BY <2>1, Zenon DEF TimerTypeOK
    <3> QED BY <3>1, Sums, Zenon DEF Due
  <2>2. \A u \in Timer \ {t} : Due(u) = left[u]
    <3>1. \A u \in Timer : ~(pc = "callback" /\ timer = u) /\ left[u] \in Int
      BY <1>1, Zenon DEF TimerTypeOK
    <3> QED BY <3>1, Sums, Zenon DEF Due
  <2>3. ASSUME NEW u \in Timer \ {t}
        PROVE  /\ list'[u] = "current" => left'[u] = xItemValue'[u] - elapsed
               /\ list'[u] = "overflow" => left'[u] = xItemValue'[u] + Wrap - elapsed
    <3>1. list'[u] = list[u] /\ xItemValue'[u] = xItemValue[u] /\ left'[u] = left[u]
      BY Zenon
    <3>2. /\ list[u] = "current" => left[u] = xItemValue[u] - elapsed
          /\ list[u] = "overflow" => left[u] = xItemValue[u] + Wrap - elapsed
      BY <2>2, Zenon DEF ListsTellTheTime
    <3> QED BY <3>1, <3>2, Zenon
  <2> QED BY <1>1, <2>1, <2>3, Zenon DEF ListsTellTheTime
<1>9. ActiveIsListed'
  <2>1. ASSUME NEW u \in Timer \ {t}
        PROVE  (list'[u] # "none" => active'[u]) /\ (active'[u] => list'[u] # "none")
    BY <1>1, Zenon DEF ActiveIsListed
  <2> QED BY <1>1, <2>1, Zenon DEF ActiveIsListed
<1>10. FreedIsGone'
  <2>1. \A u \in freed : u \in Timer \ {t} /\ list'[u] = "none"
    BY <1>1, Zenon DEF FreedIsGone, TimerTypeOK
  <2>2. \A u \in freed' : u \in Timer /\ list'[u] = "none"
    BY <2>1, Zenon
  <2>3. \A u \in freed' : timer' # u
    BY <1>1, <2>1, <2>2, TimersAssumption, Zenon
  <2>4. message'.timer \notin Timer
    BY <1>1, Fields, TimersAssumption, Zenon
  <2> QED BY <2>2, <2>3, <2>4, Zenon DEF FreedIsGone
<1> QED BY <1>3, <1>4, <1>5, <1>6, <1>7, <1>8, <1>9, <1>10, Zenon

\* The arithmetic of a start, whose stamp was read some time before the sample.
LEMMA StartTells ==
    ASSUME Inv, pc = "execute", switching = "none", message \in Message, message.id = "START",
           NEW p \in TickType_t \ {0}, NEW next, next = Plus(message.value, p)
    PROVE  /\ next \in TickType_t /\ p - message.age \in Int
           /\ ~ Expired(next, xTimeNow, message.value, p) =>
                  /\ ListFor(next, xTimeNow) = "current" => p - message.age = next - elapsed
                  /\ ListFor(next, xTimeNow) = "overflow" => p - message.age = next + Wrap - elapsed
                  /\ ListFor(next, xTimeNow) \in {"current", "overflow"}
           /\ Expired(next, xTimeNow, message.value, p) =>
                  /\ p - message.age <= 0
                  /\ p - message.age + elapsed <= xTimeNow
                  /\ xTimeNow < p - message.age + elapsed + Wrap
                  /\ \/ next = p - message.age + elapsed
                     \/ next = p - message.age + elapsed + Wrap
<1> USE DEF Inv, TimersTypeOK
<1>1. message # NoMessage
  BY DEF NoMessage, Message
<1>2. /\ xTickCount = Plus(message.value, message.age) /\ age <= message.age
      /\ xTickCount = Plus(xTimeNow, age) /\ elapsed = xTimeNow + age
  BY <1>1, Zenon DEF InHandInv, Stamped, ClockInv, UsesSample
<1>3. PICK from \in TickType_t, a \in TickType_t : from = message.value /\ a = message.age
  BY DEF Message
<1>4. PICK now \in TickType_t, b \in Nat : now = xTimeNow /\ b = age
  BY DEF DaemonTypeOK
<1>5. PICK d \in TickType_t : d = a - b
  BY <1>2, <1>3, <1>4, TimersAssumption DEF TickType_t
<1>6. now = from + d \/ now = from + d - Wrap
  <2>1. Plus(from, a) = Plus(now, b) /\ b <= a
    BY <1>2, <1>3, <1>4, Zenon
  <2> QED BY <1>5, <2>1, TimersAssumption DEF TickType_t, Plus
<1>7. /\ next \in TickType_t
      /\ Expired(next, now, from, p) <=> d >= p
      /\ d < p /\ ListFor(next, now) = "current" => next - now = p - d
      /\ d < p /\ ListFor(next, now) = "overflow" => next + Wrap - now = p - d
      /\ ListFor(next, now) \in {"current", "overflow"}
      /\ d >= p => next = now - d + p \/ next = now - d + p + Wrap
  BY <1>3, <1>6, Insertion
<1>8. elapsed = now + b
  BY <1>2, <1>4, Zenon
<1> QED BY <1>3, <1>4, <1>5, <1>7, <1>8, TimersAssumption, SMTT(30) DEF TickType_t

\* tmrCOMMAND_START and its like.
LEMMA StartKeeps ==
    Inv /\ Execute /\ message.id = "START" /\ Start(message.timer, message.value) => Inv'
<1> SUFFICES ASSUME Inv, Execute, message.id = "START", Start(message.timer, message.value)
             PROVE  Inv'
  OBVIOUS
<1>1. PICK t \in Timer : t = message.timer /\ list[t] = "none"
  BY InHand
<1>2. /\ pc = "execute" /\ switching = "none" /\ timer = NoTimer /\ message \in Message
      /\ autoReload' = autoReload
  BY InHand
<1>3. TimerTypeOK /\ xExpiredTime \in TickType_t
  BY DEF Inv, TimersTypeOK, DaemonTypeOK
<1>4. PICK p \in TickType_t \ {0} : p = xTimerPeriodInTicks[t]
  BY <1>3 DEF TimerTypeOK
<1>5. PICK next : next = Plus(message.value, p)
  OBVIOUS
<1>6. /\ next \in TickType_t /\ p - message.age \in Int
      /\ ~ Expired(next, xTimeNow, message.value, p) =>
             /\ ListFor(next, xTimeNow) = "current" => p - message.age = next - elapsed
             /\ ListFor(next, xTimeNow) = "overflow" => p - message.age = next + Wrap - elapsed
             /\ ListFor(next, xTimeNow) \in {"current", "overflow"}
      /\ Expired(next, xTimeNow, message.value, p) =>
             /\ p - message.age <= 0
             /\ p - message.age + elapsed <= xTimeNow
             /\ xTimeNow < p - message.age + elapsed + Wrap
             /\ \/ next = p - message.age + elapsed
                \/ next = p - message.age + elapsed + Wrap
  BY <1>2, <1>5, StartTells, Zenon
<1>7. PICK k \in Int : k = p - message.age
  BY <1>6, Zenon
<1>8. /\ left' = [left EXCEPT ![t] = k] /\ xTimerPeriodInTicks' = xTimerPeriodInTicks
      /\ freed' = freed
  BY <1>1, <1>4, <1>7, Zenon DEF Start, Expect
<1>9. left' \in [Timer -> Int] /\ left'[t] = k /\ \A u \in Timer \ {t} : left'[u] = left[u]
  BY <1>3, <1>8 DEF TimerTypeOK
<1>10. CASE ~ Expired(next, xTimeNow, message.value, p)
  <2>1. /\ list' = [list EXCEPT ![t] = ListFor(next, xTimeNow)]
        /\ xItemValue' = [xItemValue EXCEPT ![t] = next]
        /\ active' = [active EXCEPT ![t] = TRUE]
        /\ pc' = "commands" /\ timer' = timer /\ xExpiredTime' = xExpiredTime
    BY <1>1, <1>4, <1>5, <1>10, Zenon DEF Start, Insert, reload
  <2>2. /\ list' \in [Timer -> {"none", "current", "overflow"}] /\ active' \in [Timer -> BOOLEAN]
        /\ xItemValue' \in [Timer -> TickType_t]
        /\ list'[t] = ListFor(next, xTimeNow) /\ xItemValue'[t] = next /\ active'[t]
        /\ \A u \in Timer \ {t} : /\ list'[u] = list[u] /\ active'[u] = active[u]
                                  /\ xItemValue'[u] = xItemValue[u]
    BY <1>3, <1>6, <1>10, <2>1, Zenon DEF TimerTypeOK
  <2>3. TimerTypeOK'
    BY <1>2, <1>3, <1>8, <1>9, <2>2, Zenon DEF TimerTypeOK
  <2>4. /\ list'[t] = "current" => left'[t] = xItemValue'[t] - elapsed
        /\ list'[t] = "overflow" => left'[t] = xItemValue'[t] + Wrap - elapsed
        /\ list'[t] # "none"
    BY <1>6, <1>7, <1>9, <1>10, <2>2, Zenon
  <2> QED BY <1>1, <1>2, <1>3, <1>8, <1>9, <2>1, <2>2, <2>3, <2>4, HandledKeeps, ZenonT(30)
<1>11. CASE Expired(next, xTimeNow, message.value, p)
  <2>1. /\ list' = list /\ xItemValue' = xItemValue
        /\ active' = [active EXCEPT ![t] = autoReload[t]]
        /\ pc' = (IF autoReload[t] THEN "reload" ELSE "callback")
        /\ timer' = t /\ xExpiredTime' = next
    BY <1>1, <1>4, <1>5, <1>11, Zenon DEF Start, lists
  <2>2. /\ active' \in [Timer -> BOOLEAN] /\ active'[t] = autoReload[t]
        /\ \A u \in Timer \ {t} : active'[u] = active[u]
    BY <1>3, <2>1, Zenon DEF TimerTypeOK
  <2>3. TimerTypeOK'
    BY <1>2, <1>3, <1>8, <1>9, <2>1, <2>2, Zenon DEF TimerTypeOK
  <2>4. /\ left'[t] <= 0
        /\ left'[t] + elapsed <= xTimeNow /\ xTimeNow < left'[t] + elapsed + Wrap
        /\ \/ xExpiredTime' = left'[t] + elapsed
           \/ xExpiredTime' = left'[t] + elapsed + Wrap
    BY <1>6, <1>7, <1>9, <1>11, <2>1, Zenon
  <2>5. pc' \in {"reload", "callback"} /\ (active'[t] <=> pc' = "reload")
    BY <2>1, <2>2
  <2> QED BY <1>1, <1>2, <1>6, <1>8, <1>9, <2>1, <2>2, <2>3, <2>4, <2>5, HandledKeeps, Zenon
<1> QED BY <1>10, <1>11

\* tmrCOMMAND_STOP and tmrCOMMAND_DELETE: no callback is to come.
LEMMA EndKeeps ==
    ASSUME Inv, Execute,
           \/ message.id = "STOP" /\ Stop(message.timer)
           \/ message.id = "DELETE" /\ Delete(message.timer)
    PROVE  Inv'
<1>1. PICK t \in Timer : t = message.timer /\ list[t] = "none"
  BY InHand
<1>2. timer = NoTimer /\ autoReload' = autoReload
  BY InHand
<1>3. TimerTypeOK /\ xExpiredTime \in TickType_t
  BY DEF Inv, TimersTypeOK, DaemonTypeOK
<1>4. /\ active' = [active EXCEPT ![t] = FALSE] /\ left' = [left EXCEPT ![t] = Wrap]
      /\ pc' = "commands" /\ xTimerPeriodInTicks' = xTimerPeriodInTicks
      /\ list' = list /\ xItemValue' = xItemValue
      /\ timer' = timer /\ xExpiredTime' = xExpiredTime
      /\ freed' = freed \/ (freed' = freed \cup {t} /\ message.id = "DELETE")
  <2>1. CASE message.id = "STOP" /\ Stop(message.timer)
    BY <1>1, <2>1 DEF Stop, Expect, lists, reload
  <2>2. CASE message.id = "DELETE" /\ Delete(message.timer)
    BY <1>1, <2>2, Zenon DEF Delete, Expect, lists, reload
  <2> QED BY <2>1, <2>2, Zenon
<1>5. /\ active' \in [Timer -> BOOLEAN] /\ ~active'[t] /\ left' \in [Timer -> Int]
      /\ \A u \in Timer \ {t} : active'[u] = active[u] /\ left'[u] = left[u]
  BY <1>3, <1>4, TimersAssumption DEF TimerTypeOK
<1>6. TimerTypeOK'
  BY <1>2, <1>3, <1>4, <1>5, Zenon DEF TimerTypeOK
<1> QED BY <1>1, <1>2, <1>3, <1>4, <1>5, <1>6, HandledKeeps, Zenon

\* tmrCOMMAND_CHANGE_PERIOD: the new period begins with the sample.
LEMMA ChangePeriodKeeps ==
    ASSUME Inv, Execute, message.id = "CHANGE_PERIOD",
           ChangePeriod(message.timer, message.value)
    PROVE  Inv'
<1>1. PICK t \in Timer : t = message.timer /\ list[t] = "none"
  BY InHand
<1>2. /\ timer = NoTimer /\ autoReload' = autoReload /\ message \in Message /\ switching = "none"
      /\ message # NoMessage
  BY InHand
<1>3. /\ TimerTypeOK /\ xExpiredTime \in TickType_t /\ xTimeNow \in TickType_t
      /\ age \in Nat /\ elapsed = xTimeNow + age
  BY <1>2 DEF Inv, TimersTypeOK, DaemonTypeOK, ClockInv
<1>4. PICK p \in TickType_t \ {0} : p = message.value
  <2>1. message.value > 0 /\ message.value \in TickType_t
    BY <1>2, Zenon DEF Inv, InHandInv, Stamped, Message
  <2> QED BY <2>1, TimersAssumption DEF TickType_t
<1>5. PICK next : next = Plus(xTimeNow, p)
  OBVIOUS
<1>6. /\ next \in TickType_t /\ ~ Expired(next, xTimeNow, xTimeNow, p)
      /\ ListFor(next, xTimeNow) = "current" => next - xTimeNow = p
      /\ ListFor(next, xTimeNow) = "overflow" => next + Wrap - xTimeNow = p
      /\ ListFor(next, xTimeNow) \in {"current", "overflow"}
  <2>1. PICK now \in TickType_t : now = xTimeNow
    BY <1>3
  <2>2. now = now + 0 /\ ~ (0 >= p) /\ 0 < p /\ p - 0 = p
    BY TimersAssumption DEF TickType_t
  <2> QED BY <1>5, <2>1, <2>2, Insertion, Arithmetic
<1>7. PICK k \in Int : k = p - age
  BY <1>3, Arithmetic
<1>8. /\ xTimerPeriodInTicks' = [xTimerPeriodInTicks EXCEPT ![t] = p]
      /\ list' = [list EXCEPT ![t] = ListFor(next, xTimeNow)]
      /\ xItemValue' = [xItemValue EXCEPT ![t] = next]
      /\ active' = [active EXCEPT ![t] = TRUE] /\ left' = [left EXCEPT ![t] = k]
      /\ pc' = "commands" /\ freed' = freed /\ timer' = timer /\ xExpiredTime' = xExpiredTime
  BY <1>1, <1>4, <1>5, <1>6, <1>7, Zenon DEF ChangePeriod, Insert, Expect, reload
<1>9. /\ xTimerPeriodInTicks' \in [Timer -> TickType_t \ {0}]
      /\ list' \in [Timer -> {"none", "current", "overflow"}] /\ active' \in [Timer -> BOOLEAN]
      /\ xItemValue' \in [Timer -> TickType_t] /\ left' \in [Timer -> Int]
  BY <1>3, <1>6, <1>8, Zenon DEF TimerTypeOK
<1>10. /\ list'[t] = ListFor(next, xTimeNow) /\ xItemValue'[t] = next /\ active'[t] /\ left'[t] = k
       /\ \A u \in Timer \ {t} : /\ list'[u] = list[u] /\ active'[u] = active[u]
                                 /\ xItemValue'[u] = xItemValue[u] /\ left'[u] = left[u]
  BY <1>3, <1>8, Zenon DEF TimerTypeOK
<1>11. TimerTypeOK'
  BY <1>2, <1>3, <1>8, <1>9, Zenon DEF TimerTypeOK
<1>12. /\ list'[t] = "current" => left'[t] = xItemValue'[t] - elapsed
       /\ list'[t] = "overflow" => left'[t] = xItemValue'[t] + Wrap - elapsed
       /\ list'[t] # "none"
  BY <1>3, <1>6, <1>7, <1>10, TimersAssumption DEF TickType_t
<1>13. /\ pc' = "commands" /\ freed' = freed /\ timer' = NoTimer /\ xExpiredTime' \in TickType_t
       /\ message.id # "PEND"
  BY <1>2, <1>3, <1>8, Zenon
<1> QED BY <1>1, <1>10, <1>11, <1>12, <1>13, HandledKeeps, Zenon

\* A pended function.
LEMMA PendKeeps ==
    ASSUME Inv, Execute, message.id = "PEND"
    PROVE  Inv'
<1> USE DEF Inv, TimersTypeOK
<1>1. /\ pc = "execute" /\ switching = "none" /\ sleep = 0 /\ timer = NoTimer
      /\ message' = NoMessage /\ switching' = "none" /\ sleep' = 0
      /\ xTickCount' = xTickCount /\ autoReload' = autoReload
      /\ xTimeNow' = xTimeNow /\ xLastTime' = xLastTime /\ age' = age /\ elapsed' = elapsed
      /\ xTimerQueue' = xTimerQueue /\ message # NoMessage
  BY InHand, Zenon
<1>2. /\ pc' = "commands" /\ xTimerPeriodInTicks' = xTimerPeriodInTicks /\ active' = active
      /\ freed' = freed /\ list' = list /\ xItemValue' = xItemValue /\ left' = left
      /\ timer' = timer /\ xExpiredTime' = xExpiredTime
  BY Zenon DEF Execute, lists, reload
<1>3. TimersTypeOK'
  BY <1>1, <1>2, Zenon DEF TimerTypeOK, DaemonTypeOK, CommandTypeOK
<1>4. ControlInv' /\ InHandInv' /\ NeverSleepsPast' /\ CallsAreDue' /\ ReloadInv'
  BY <1>1, <1>2, Zenon DEF ControlInv, InHandInv, NeverSleepsPast, CallsAreDue, ReloadInv
<1>5. CommandInv'
  BY <1>1, <1>2, Zenon DEF CommandInv, Stamped
<1>6. ClockInv' /\ ListsTellTheTime'
  BY <1>1, <1>2, Zenon DEF ClockInv, SomeActive, UsesSample, ListsTellTheTime, Due
<1>7. ActiveIsListed' /\ FreedIsGone'
  <2>1. message.timer = NoTimer
    BY <1>1, Zenon DEF InHandInv, Stamped
  <2> QED BY <1>1, <1>2, <2>1, Zenon DEF ActiveIsListed, FreedIsGone, NoMessage
<1> QED BY <1>3, <1>4, <1>5, <1>6, <1>7

-----------------------------------------------------------------------------
(* The theorems.                                                           *)

\* Every step of the daemon and of what is around it keeps Inv.
LEMMA NextKeeps == Inv /\ [Next]_vars => Inv'
<1> SUFFICES ASSUME Inv, [Next]_vars PROVE Inv'
  OBVIOUS
<1>1. CASE prvProcessTimerOrBlockTask
  <2>1. \/ Wrapped
        \/ /\ ~Wrapped /\ sleep' = sleep
           /\ \E t \in HeadEntry : xItemValue[t] <= xTickCount /\ prvProcessExpiredTimer(t)
        \/ ~Wrapped /\ \A t \in HeadEntry : xItemValue[t] > xTickCount
    BY <1>1, Zenon DEF prvProcessTimerOrBlockTask
  <2> QED BY <1>1, <2>1, ProcessSwitchKeeps, ProcessExpiredKeeps, ProcessBlockKeeps
<1>2. CASE Execute
  <2>1. CASE message.id = "START" /\ Start(message.timer, message.value)
    BY <1>2, <2>1, StartKeeps
  <2>2. CASE message.id = "STOP" /\ Stop(message.timer)
    BY <1>2, <2>2, EndKeeps
  <2>3. CASE message.id = "CHANGE_PERIOD" /\ ChangePeriod(message.timer, message.value)
    BY <1>2, <2>3, ChangePeriodKeeps
  <2>4. CASE message.id = "DELETE" /\ Delete(message.timer)
    BY <1>2, <2>4, EndKeeps
  <2>5. CASE message.id = "PEND"
    BY <1>2, <2>5, PendKeeps
  <2> QED BY <1>2, <2>1, <2>2, <2>3, <2>4, <2>5, Zenon DEF Execute
<1>3. CASE Receive \/ SampleForCommand
  BY <1>3, ReceiveKeeps, SampleForCommandKeeps
<1>4. CASE SwitchExpired \/ SwitchLists
  BY <1>4, SwitchExpiredKeeps, SwitchListsKeeps
<1>5. CASE prvReloadTimer \/ Callback
  BY <1>5, ReloadKeeps, CallbackKeeps
<1>6. CASE Environment
  BY <1>6, EnvironmentKeeps
<1>7. CASE UNCHANGED vars
  <2>1. /\ xTickCount' = xTickCount /\ left' = left
        /\ xTimerPeriodInTicks' = xTimerPeriodInTicks /\ autoReload' = autoReload
        /\ active' = active /\ freed' = freed /\ list' = list /\ xItemValue' = xItemValue
        /\ xTimeNow' = xTimeNow /\ xLastTime' = xLastTime /\ age' = age /\ elapsed' = elapsed
        /\ timer' = timer /\ xExpiredTime' = xExpiredTime /\ switching' = switching
        /\ message' = message /\ xTimerQueue' = xTimerQueue /\ sleep' = sleep /\ pc' = pc
    BY <1>7 DEF vars, timers, status, lists, sample, reload, commands
  <2>2. TimersTypeOK'
    BY <2>1, Zenon DEF Inv, TimersTypeOK, TimerTypeOK, DaemonTypeOK, CommandTypeOK
  <2>3. ControlInv' /\ CommandInv' /\ InHandInv'
    BY <2>1, Zenon DEF Inv, ControlInv, CommandInv, InHandInv, Stamped
  <2>4. ClockInv' /\ ReloadInv'
    BY <2>1, Zenon DEF Inv, ClockInv, SomeActive, UsesSample, ReloadInv, Limit
  <2>5. ListsTellTheTime' /\ CallsAreDue' /\ NeverSleepsPast'
    BY <2>1, Zenon DEF Inv, ListsTellTheTime, Due, CallsAreDue, NeverSleepsPast
  <2>6. ActiveIsListed' /\ FreedIsGone'
    BY <2>1, Zenon DEF Inv, ActiveIsListed, FreedIsGone
  <2> QED BY <2>2, <2>3, <2>4, <2>5, <2>6 DEF Inv
<1> QED BY <1>1, <1>2, <1>3, <1>4, <1>5, <1>6, <1>7 DEF Next, prvTimerTask

\* Inv holds in every state the timers can be in.
THEOREM Invariant == Spec => []Inv
<1> QED BY Initially, NextKeeps, PTL DEF Spec

\* Tick counts, item values and the queue stay in their ranges, and the daemon
\* has a timer or a command in hand exactly at the steps that use one.
THEOREM TypeCorrect == Spec => []TimersTypeOK
<1>1. Inv => TimersTypeOK
  BY DEF Inv
<1> QED BY <1>1, Invariant, PTL

\* What prvInsertTimerInActiveList, prvReloadTimer and prvSwitchTimerLists do
\* with tick counts that wrap gives every timer in a list its true expiry.
THEOREM TimeTold == Spec => []ListsTellTheTime
<1>1. Inv => ListsTellTheTime
  BY DEF Inv
<1> QED BY <1>1, Invariant, PTL

\* The daemon calls no callback before its time.
THEOREM NoneEarly == Spec => []CallsAreDue
<1>1. Inv => CallsAreDue
  BY DEF Inv
<1> QED BY <1>1, Invariant, PTL

\* prvProcessTimerOrBlockTask never blocks the daemon past an expiry.
THEOREM NoneSleptPast == Spec => []NeverSleepsPast
<1>1. Inv => NeverSleepsPast
  BY DEF Inv
<1> QED BY <1>1, Invariant, PTL

\* The status bit tmrSTATUS_IS_ACTIVE agrees with the lists.
THEOREM ActiveListed == Spec => []ActiveIsListed
<1>1. Inv => ActiveIsListed
  BY DEF Inv
<1> QED BY <1>1, Invariant, PTL

\* tmrCOMMAND_DELETE frees a timer that nothing refers to any more.
THEOREM FreedGone == Spec => []FreedIsGone
<1>1. Inv => FreedIsGone
  BY DEF Inv
<1> QED BY <1>1, Invariant, PTL

=============================================================================
