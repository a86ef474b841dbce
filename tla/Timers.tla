-------------------------------- MODULE Timers -------------------------------
(***************************************************************************)
(* The software timers of FreeRTOS (timers.c): the daemon task that keeps   *)
(* the active timers in two lists, one for the present round of the tick   *)
(* count and one for the next, and the commands that tasks, interrupts and *)
(* callbacks send it through a queue.  Ticks and commands may come between  *)
(* any two steps of the daemon, also while it is inside a callback.        *)
(*                                                                         *)
(*   top --> commands --> sample --> execute --> commands ... --> top      *)
(*    |         ^            |          |                                  *)
(*    +-- blocked            +-- switch +-- reload, callback               *)
(*                                                                         *)
(* A list is the set of its timers with their item values, its head being  *)
(* one of least value.  The queue is the sequence it implements (modules    *)
(* Queue and Fifo).  The code knows tick counts that wrap; true time is     *)
(* kept in histories that count ticks, so that no bound on time is needed. *)
(***************************************************************************)
EXTENDS Integers, Sequences

CONSTANTS Timer,
          NoTimer,
          Wrap,      \* the tick count is below Wrap, 2^32 in the code
          configTIMER_QUEUE_LENGTH

ASSUME TimersAssumption ==
    /\ NoTimer \notin Timer
    /\ Wrap \in Nat /\ Wrap >= 2
    /\ configTIMER_QUEUE_LENGTH \in Nat \ {0}

tmrMAX_TIME_BEFORE_OVERFLOW == Wrap - 1
TickType_t == 0 .. Wrap - 1
Commands == {"START", "STOP", "CHANGE_PERIOD", "DELETE", "PEND"}

VARIABLES
    xTickCount,
    xTimerPeriodInTicks, autoReload, active,  \* of each timer
    list,           \* "current", "overflow" or "none", of each timer
    xItemValue,     \* when it expires, 0 while it is in no list
    freed,          \* timers that do not exist: not created, or deleted
    xTimerQueue,
    xLastTime,      \* of prvSampleTimeNow
    pc,             \* of the daemon
    xTimeNow,       \* its last sample of the tick count
    timer, xExpiredTime,  \* arguments of prvReloadTimer
    switching,      \* the caller of prvSwitchTimerLists, or "none"
    message,        \* the command in hand, NoMessage if there is none
    sleep,          \* ticks until the blocked daemon wakes, 0 for no limit
    left,           \* history: ticks left until the next callback of each
                    \* timer, negative if it is overdue, Wrap if none is to come
    age,            \* history: ticks since the last sample
    elapsed         \* history: ticks since the round of the current list
                    \* began; both stop when age reaches Wrap

status == <<xTimerPeriodInTicks, autoReload, active, freed>>
lists == <<list, xItemValue>>
timers == <<status, lists, left>>
sample == <<xTimeNow, xLastTime, age, elapsed>>
reload == <<timer, xExpiredTime>>
commands == <<xTimerQueue, message>>
vars == <<xTickCount, timers, sample, reload, commands, pc, switching, sleep>>

NoMessage == [timer |-> NoTimer, age |-> 0, id |-> "none", value |-> 0]

\* Arithmetic of TickType_t.
Plus(m, n) == IF m + n >= Wrap THEN m + n - Wrap ELSE m + n
Minus(m, n) == IF m >= n THEN m - n ELSE m - n + Wrap

Listed(name) == {t \in Timer : list[t] = name}
HeadEntry == {t \in Listed("current") :
                  \A u \in Listed("current") : xItemValue[t] <= xItemValue[u]}

Init ==
    /\ xTickCount = 0
    /\ xTimerPeriodInTicks = [t \in Timer |-> 1]
    /\ autoReload = [t \in Timer |-> FALSE]
    /\ active = [t \in Timer |-> FALSE]
    /\ list = [t \in Timer |-> "none"]
    /\ xItemValue = [t \in Timer |-> 0]
    /\ freed = Timer
    /\ xTimerQueue = <<>> /\ message = NoMessage
    /\ xLastTime = 0 /\ xTimeNow = 0
    /\ pc = "top"
    /\ timer = NoTimer /\ xExpiredTime = 0
    /\ switching = "none"
    /\ sleep = 0
    /\ left = [t \in Timer |-> Wrap]
    /\ age = 0 /\ elapsed = 0

-----------------------------------------------------------------------------
(* What happens around the daemon.                                         *)

\* The callbacks of prvSwitchTimerLists run with the scheduler suspended when
\* prvProcessTimerOrBlockTask calls it: the tick count does not move.
Suspended == switching = "process"

\* A tick passes for the time stamp of a command.
Aged(m) == IF m.id = "START" THEN [m EXCEPT !.age = @ + 1] ELSE m
AgedAll(s) == [i \in 1 .. Len(s) |-> Aged(s[i])]

\* The daemon has sampled the time for the switch or the command at hand.
UsesSample == switching # "none" \/ (pc = "execute" /\ message.id # "PEND")

\* The daemon is not kept from running for a whole round of the tick count:
\* it samples the time while a timer is active, and handles a command, before
\* that.
Punctual ==
    /\ UsesSample \/ (\E t \in Timer : active[t]) => age + 1 < Wrap
    /\ \A i \in 1 .. Len(xTimerQueue) : Aged(xTimerQueue[i]).age < Wrap
    /\ Aged(message).age < Wrap

Tick ==
    /\ ~Suspended /\ Punctual
    /\ xTickCount' = Plus(xTickCount, 1)
    /\ sleep' = IF sleep = 0 THEN 0 ELSE sleep - 1
    /\ pc' = IF sleep = 1 THEN "commands" ELSE pc
    /\ left' = [t \in Timer |-> IF active[t] THEN left[t] - 1 ELSE left[t]]
    /\ IF age = Wrap THEN UNCHANGED <<age, elapsed>>
       ELSE age' = age + 1 /\ elapsed' = elapsed + 1
    /\ xTimerQueue' = AgedAll(xTimerQueue) /\ message' = Aged(message)
    /\ UNCHANGED <<status, lists, xTimeNow, xLastTime, reload, switching>>

\* Mutated: the queue is not tested for room.
SendUnchecked(m) ==
    /\ xTimerQueue' = Append(xTimerQueue, m)
    /\ pc' = IF pc = "blocked" THEN "commands" ELSE pc
    /\ sleep' = 0
    /\ UNCHANGED <<xTickCount, timers, sample, reload, message, switching>>

\* A message wakes the daemon.
xTimerGenericCommand(m) ==
    /\ Len(xTimerQueue) < configTIMER_QUEUE_LENGTH
    /\ xTimerQueue' = Append(xTimerQueue, m)
    /\ pc' = IF pc = "blocked" THEN "commands" ELSE pc
    /\ sleep' = 0
    /\ UNCHANGED <<xTickCount, timers, sample, reload, message, switching>>

\* A timer is not used once its deletion has been asked for.
Usable(t) ==
    /\ t \notin freed
    /\ \A i \in 1 .. Len(xTimerQueue) : xTimerQueue[i].timer = t => xTimerQueue[i].id # "DELETE"
    /\ message.timer = t => message.id # "DELETE"

\* xTimerStart reads the tick count first; the caller may then be preempted or
\* wait for room in the queue.
xTimerStart(t) ==
    \E late \in TickType_t :
        xTimerGenericCommand([timer |-> t, age |-> late, id |-> "START",
                              value |-> Minus(xTickCount, late)])

xTimerChangePeriod(t) ==
    \E period \in TickType_t \ {0} :
        xTimerGenericCommand([timer |-> t, age |-> 0, id |-> "CHANGE_PERIOD",
                              value |-> period])

\* xTimerStop, xTimerDelete and xTimerPendFunctionCall.
Send(id, t) == xTimerGenericCommand([timer |-> t, age |-> 0, id |-> id, value |-> 0])

\* The memory may be that of a timer deleted before.
xTimerCreate(t) ==
    /\ t \in freed
    /\ freed' = freed \ {t}
    /\ \E period \in TickType_t \ {0}, mode \in BOOLEAN :
           /\ xTimerPeriodInTicks' = [xTimerPeriodInTicks EXCEPT ![t] = period]
           /\ autoReload' = [autoReload EXCEPT ![t] = mode]
    /\ active' = [active EXCEPT ![t] = FALSE]
    /\ list' = [list EXCEPT ![t] = "none"]
    /\ UNCHANGED <<xTickCount, xItemValue, left, sample, reload, commands, pc,
                   switching, sleep>>

vTimerSetReloadMode(t) ==
    /\ autoReload' = [autoReload EXCEPT ![t] = ~@]
    /\ UNCHANGED <<xTickCount, xTimerPeriodInTicks, active, freed, lists, left,
                   sample, reload, commands, pc, switching, sleep>>

Environment ==
    \/ Tick
    \/ Send("PEND", NoTimer)
    \/ \E t \in Timer : xTimerCreate(t)
    \/ \E t \in Timer :
           /\ Usable(t)
           /\ \/ xTimerStart(t) \/ xTimerChangePeriod(t) \/ vTimerSetReloadMode(t)
              \/ \E id \in {"STOP", "DELETE"} : Send(id, t)

-----------------------------------------------------------------------------
(* Expiry.                                                                 *)

\* Mutated: any expiry not beyond now counts, whatever the command time.
ExpiredUnlessAhead(next, now, commandTime, period) ==
    IF next <= now THEN TRUE ELSE now < commandTime /\ next >= commandTime

\* prvInsertTimerInActiveList: whether a timer of that period that is to
\* expire at next has expired already, counted from commandTime, and the list
\* it goes to otherwise.
Expired(next, now, commandTime, period) ==
    IF next <= now THEN Minus(now, commandTime) >= period
                   ELSE now < commandTime /\ next >= commandTime

\* Mutated: only one list is used.
ListForCurrent(next, now) == "current"
ListFor(next, now) == IF next <= now THEN "overflow" ELSE "current"

Insert(t, next, now) ==
    /\ list' = [list EXCEPT ![t] = ListFor(next, now)]
    /\ xItemValue' = [xItemValue EXCEPT ![t] = next]

\* Mutated: the timer stays in its list.
RemoveNothing(t) == UNCHANGED lists

\* uxListRemove.
Remove(t) ==
    /\ list' = [list EXCEPT ![t] = "none"]
    /\ xItemValue' = [xItemValue EXCEPT ![t] = 0]

\* The next callback of t is to come in so many ticks.
Expect(t, ticks) == left' = [left EXCEPT ![t] = ticks]

\* prvProcessExpiredTimer, up to the reload or the callback.
prvProcessExpiredTimer(t) ==
    /\ Remove(t)
    /\ timer' = t /\ xExpiredTime' = xItemValue[t]
    /\ pc' = IF autoReload[t] THEN "reload" ELSE "callback"
    /\ active' = [active EXCEPT ![t] = @ /\ autoReload[t]]
    /\ UNCHANGED <<xTimerPeriodInTicks, autoReload, freed, left>>

\* The time that prvReloadTimer catches up with.
Limit == IF switching = "none" THEN xTimeNow ELSE tmrMAX_TIME_BEFORE_OVERFLOW

\* A turn of the loop of prvReloadTimer: a call for a period missed, or the
\* timer is in a list again.
prvReloadTimer ==
    /\ pc = "reload"
    /\ LET period == xTimerPeriodInTicks[timer]
           next == Plus(xExpiredTime, period)
       IN  IF Expired(next, Limit, xExpiredTime, period)
           THEN /\ xExpiredTime' = next
                /\ Expect(timer, left[timer] + period)
                /\ UNCHANGED <<lists, pc>>
           ELSE /\ Insert(timer, next, Limit)
                /\ pc' = "callback"
                /\ UNCHANGED <<xExpiredTime, left>>
    /\ UNCHANGED <<xTickCount, status, sample, timer, commands, switching, sleep>>

\* The call for the expiry that was found first.
Callback ==
    /\ pc = "callback"
    /\ IF list[timer] = "none" THEN Expect(timer, Wrap)
       ELSE Expect(timer, left[timer] + xTimerPeriodInTicks[timer])
    /\ timer' = NoTimer /\ xExpiredTime' = 0
    /\ pc' = IF switching = "none" THEN "commands" ELSE "switch"
    /\ UNCHANGED <<xTickCount, status, lists, sample, commands, switching, sleep>>

-----------------------------------------------------------------------------
(* The tick count has wrapped since the last sample.                       *)

Wrapped == xTickCount < xLastTime

\* prvSampleTimeNow, up to the switch of the lists.
Sample(caller) ==
    /\ xTimeNow' = xTickCount /\ age' = 0
    /\ IF Wrapped
       THEN switching' = caller /\ UNCHANGED <<xLastTime, elapsed>>
       ELSE xLastTime' = xTickCount /\ elapsed' = xTickCount /\ UNCHANGED switching

\* A turn of the loop of prvSwitchTimerLists.
SwitchExpired ==
    /\ pc = "switch"
    /\ \E t \in HeadEntry : prvProcessExpiredTimer(t)
    /\ UNCHANGED <<xTickCount, sample, commands, switching, sleep>>

Exchanged == [t \in Timer |-> IF list[t] = "overflow" THEN "current" ELSE "none"]

\* The end of prvSwitchTimerLists and of prvSampleTimeNow.
SwitchLists ==
    /\ pc = "switch" /\ Listed("current") = {}
    /\ list' = Exchanged
    /\ xLastTime' = xTimeNow /\ elapsed' = xTimeNow + age
    /\ pc' = IF switching = "process" THEN "commands" ELSE "execute"
    /\ switching' = "none"
    /\ UNCHANGED <<xTickCount, status, xItemValue, left, xTimeNow, age, reload,
                   commands, sleep>>

-----------------------------------------------------------------------------
(* The loop of the daemon.                                                 *)

\* Mutated: the overflow list is not looked at.
TicksToWaitCurrent ==
    IF HeadEntry = {} THEN 0
    ELSE Minus(xItemValue[CHOOSE t \in HeadEntry : TRUE], xTickCount)

\* How long prvProcessTimerOrBlockTask waits: to the next expiry, to the wrap
\* if all timers are in the overflow list, or without limit.  A wait of no
\* ticks ends with the next one.
TicksToWait ==
    LET next == IF Listed("current") = {} THEN 0 ELSE xItemValue[CHOOSE t \in HeadEntry : TRUE]
    IN  IF \A t \in Timer : list[t] = "none" THEN 0
        ELSE IF next = xTickCount THEN 1
        ELSE Minus(next, xTickCount)

\* prvGetNextExpireTime and prvProcessTimerOrBlockTask.
prvProcessTimerOrBlockTask ==
    /\ pc = "top"
    /\ Sample("process")
    /\ \/ /\ Wrapped
          /\ pc' = "switch"
          /\ UNCHANGED <<timers, reload, sleep>>
       \/ /\ ~Wrapped
          /\ \E t \in HeadEntry : xItemValue[t] <= xTickCount /\ prvProcessExpiredTimer(t)
          /\ UNCHANGED sleep
       \/ /\ ~Wrapped
          /\ \A t \in HeadEntry : xItemValue[t] > xTickCount
          /\ IF xTimerQueue = <<>> THEN pc' = "blocked" /\ sleep' = TicksToWait
                                   ELSE pc' = "commands" /\ UNCHANGED sleep
          /\ UNCHANGED <<timers, reload>>
    /\ UNCHANGED <<xTickCount, commands>>

\* The head of the loop of prvProcessReceivedCommands; a timer that is
\* commanded is taken from its list.
Receive ==
    /\ pc = "commands"
    /\ IF xTimerQueue = <<>>
       THEN pc' = "top" /\ UNCHANGED <<commands, lists>>
       ELSE /\ xTimerQueue' = Tail(xTimerQueue)
            /\ message' = Head(xTimerQueue)
            /\ IF Head(xTimerQueue).id = "PEND" THEN pc' = "execute" /\ UNCHANGED lists
               ELSE pc' = "sample" /\ Remove(Head(xTimerQueue).timer)
    /\ UNCHANGED <<xTickCount, status, left, sample, reload, switching, sleep>>

SampleForCommand ==
    /\ pc = "sample"
    /\ Sample("command")
    /\ pc' = IF Wrapped THEN "switch" ELSE "execute"
    /\ UNCHANGED <<xTickCount, timers, reload, commands, sleep>>

Start(t, commandTime) ==
    LET period == xTimerPeriodInTicks[t]
        next == Plus(commandTime, period)
    IN  /\ Expect(t, period - message.age)
        /\ IF ~Expired(next, xTimeNow, commandTime, period)
           THEN /\ Insert(t, next, xTimeNow)
                /\ active' = [active EXCEPT ![t] = TRUE]
                /\ pc' = "commands"
                /\ UNCHANGED reload
           ELSE /\ timer' = t /\ xExpiredTime' = next
                /\ active' = [active EXCEPT ![t] = autoReload[t]]
                /\ pc' = IF autoReload[t] THEN "reload" ELSE "callback"
                /\ UNCHANGED lists
        /\ UNCHANGED <<xTimerPeriodInTicks, freed>>

\* Mutated: the timer still counts as active.
StopUnmarked(t) ==
    /\ Expect(t, Wrap)
    /\ pc' = "commands"
    /\ UNCHANGED <<xTimerPeriodInTicks, active, freed, lists, reload>>

Stop(t) ==
    /\ active' = [active EXCEPT ![t] = FALSE]
    /\ Expect(t, Wrap)
    /\ pc' = "commands"
    /\ UNCHANGED <<xTimerPeriodInTicks, freed, lists, reload>>

ChangePeriod(t, period) ==
    LET next == Plus(xTimeNow, period)
    IN  /\ xTimerPeriodInTicks' = [xTimerPeriodInTicks EXCEPT ![t] = period]
        /\ IF Expired(next, xTimeNow, xTimeNow, period) THEN UNCHANGED lists
           ELSE Insert(t, next, xTimeNow)
        /\ active' = [active EXCEPT ![t] = TRUE]
        /\ Expect(t, period - age)
        /\ pc' = "commands"
        /\ UNCHANGED <<freed, reload>>

Delete(t) ==
    /\ freed' = freed \cup {t}
    /\ active' = [active EXCEPT ![t] = FALSE]
    /\ Expect(t, Wrap)
    /\ pc' = "commands"
    /\ UNCHANGED <<xTimerPeriodInTicks, lists, reload>>

\* The rest of that loop; a pended function does nothing to the timers.
Execute ==
    /\ pc = "execute"
    /\ \/ message.id = "START" /\ Start(message.timer, message.value)
       \/ message.id = "STOP" /\ Stop(message.timer)
       \/ message.id = "CHANGE_PERIOD" /\ ChangePeriod(message.timer, message.value)
       \/ message.id = "DELETE" /\ Delete(message.timer)
       \/ /\ message.id = "PEND"
          /\ pc' = "commands"
          /\ UNCHANGED <<xTimerPeriodInTicks, active, freed, lists, left, reload>>
    /\ message' = NoMessage
    /\ UNCHANGED <<xTickCount, autoReload, sample, xTimerQueue, switching, sleep>>

prvTimerTask ==
    \/ prvProcessTimerOrBlockTask \/ Receive \/ SampleForCommand \/ Execute
    \/ SwitchExpired \/ SwitchLists \/ prvReloadTimer \/ Callback

Next == prvTimerTask \/ Environment

Spec == Init /\ [][Next]_vars
-----------------------------------------------------------------------------
Message == [timer : Timer \cup {NoTimer}, age : TickType_t, id : Commands, value : TickType_t]

\* The types of a timer, of the daemon and of the commands; the daemon has a
\* timer in hand exactly while it reloads it or calls it back, and a command
\* while it handles one.
TimerTypeOK ==
    /\ xTimerPeriodInTicks \in [Timer -> TickType_t \ {0}]
    /\ autoReload \in [Timer -> BOOLEAN] /\ active \in [Timer -> BOOLEAN]
    /\ list \in [Timer -> {"none", "current", "overflow"}]
    /\ xItemValue \in [Timer -> TickType_t]
    /\ freed \subseteq Timer
    /\ left \in [Timer -> Int]

DaemonTypeOK ==
    /\ xTickCount \in TickType_t
    /\ xLastTime \in TickType_t /\ xTimeNow \in TickType_t
    /\ pc \in {"top", "blocked", "commands", "sample", "execute", "switch", "reload", "callback"}
    /\ timer \in Timer \cup {NoTimer} /\ xExpiredTime \in TickType_t
    /\ timer \in Timer <=> pc \in {"reload", "callback"}
    /\ switching \in {"none", "process", "command"}
    /\ sleep \in TickType_t
    /\ age \in 0 .. Wrap /\ elapsed \in 0 .. 3 * Wrap

CommandTypeOK ==
    /\ xTimerQueue \in Seq(Message) /\ Len(xTimerQueue) <= configTIMER_QUEUE_LENGTH
    /\ message \in Message \cup {NoMessage}
    /\ message # NoMessage <=> pc \in {"sample", "execute"} \/ switching = "command"

\* The types of the state; the queue never holds more than its length.
TimersTypeOK == TimerTypeOK /\ DaemonTypeOK /\ CommandTypeOK

\* When a timer in a list is to call back, once the call in hand is made.
Due(t) ==
    left[t] + IF pc = "callback" /\ timer = t THEN xTimerPeriodInTicks[t] ELSE 0

\* The lists and item values, which know only tick counts that wrap, tell
\* exactly when each timer is to call back, however late commands, samples and
\* switches of the lists come.
ListsTellTheTime ==
    \A t \in Timer :
        /\ list[t] = "current" => Due(t) = xItemValue[t] - elapsed
        /\ list[t] = "overflow" => Due(t) = xItemValue[t] + Wrap - elapsed

\* No callback is called early, twice for one expiry, or after a stop that
\* the daemon has handled: a timer in hand has a callback due.
CallsAreDue ==
    pc \in {"reload", "callback"} => left[timer] <= 0

\* The daemon never sleeps past an expiry, nor on one that is due.
NeverSleepsPast ==
    pc = "blocked" => \A t \in Timer : active[t] => sleep \in 1 .. left[t]

\* The status xTimerIsTimerActive reports is that of the lists: an active
\* timer is in one, and is not forgotten, unless the daemon has it in hand.
ActiveIsListed ==
    \A t \in Timer :
        /\ list[t] # "none" => active[t]
        /\ active[t] => \/ list[t] # "none"
                        \/ pc = "reload" /\ timer = t
                        \/ message.timer = t

\* A timer whose memory is freed is in no list and not in the daemon's hands.
FreedIsGone ==
    \A t \in freed :
        /\ list[t] = "none" /\ timer # t
        /\ message.timer # t
=============================================================================
