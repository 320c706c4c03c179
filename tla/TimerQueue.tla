----------------------------- MODULE TimerQueue -----------------------------
(***************************************************************************)
(* The queue of kernel/timer.c: timers set and cancelled by a thread, and  *)
(* by callbacks inside the tick, which may set and cancel any timer, their *)
(* own included.  The time is a machine word: timers are ordered by the    *)
(* sign of a difference.                                                   *)
(*                                                                         *)
(* Kernel lets a timer fire at any tick; this is what stands behind it.  A  *)
(* callback leaves alone the timer a thread is inside timer_set for: that   *)
(* function looks at the list and writes the fields with interrupts on.     *)
(***************************************************************************)
EXTENDS Integers, Sequences, FiniteSets, SequencesExt

CONSTANTS
    Timers,
    Delays,         \* the delays and periods timers are set to
    Half,           \* time_t is a number modulo 2 * Half
    TickEvery,      \* the period of the tick, 10 ms
    MaxLate,        \* bound: how much a tick, or a thread inside timer_set, is held up
    MaxCalls        \* bound: the calls of one callback

\* No timer.
None == "none"

\* A timer may be put in the queue MaxLate overdue, wait for a tick, and stay while that
\* tick's callbacks set others: the delays are shorter than half the word, 24 days, by that.
ASSUME TimersAssumption ==
    /\ None \notin Timers
    /\ Delays \subseteq Nat
    /\ Half \in Nat /\ TickEvery \in Nat \ {0} /\ MaxLate \in Nat /\ MaxCalls \in Nat
    /\ \A d \in Delays \cup {1} : d + MaxLate + (2 * (TickEvery + MaxLate)) < Half

Word == 2 * Half

VARIABLES
    now,            \* current_time()
    sinceTick,      \* time since the last tick came
    timerQueue,     \* timer_queue
    scheduledTime,  \* 0 of a timer off the queue: the code leaves it, and nothing reads it
    periodicTime,
    tick,           \* where timer_tick is: "none", "loop" or "callback"
    tickNow,        \* its argument now
    firing,         \* its timer
    wasPeriodic,    \* its local periodic
    calls,          \* what the callback has done
    setting,        \* the timer the thread is setting: its fields are written, not its place
    dueIn,          \* history: the true time until it is due, negative when overdue
    armed           \* history: it was set, and since then has neither been cancelled nor,
                    \* if it is no periodic timer, been fired

timeVars == <<now, sinceTick, dueIn>>
fieldVars == <<scheduledTime, periodicTime, armed>>
tickVars == <<tick, tickNow, firing, wasPeriodic, calls>>
timerVars == <<timeVars, fieldVars, tickVars, timerQueue, setting>>

Queued(t) == t \in Range(timerQueue)

\* (long)(a - b)
Difference(a, b) == LET d == (a - b) % Word IN IF d < Half THEN d ELSE d - Word

\* TIME_GT, TIME_LT
Later(a, b) == Difference(a, b) > 0
Earlier(a, b) == Difference(a, b) < 0

TimersInit ==
    /\ now \in {0, Word - 1}
    /\ sinceTick = 0
    /\ timerQueue = <<>>
    /\ scheduledTime = [t \in Timers |-> 0]
    /\ periodicTime = [t \in Timers |-> 0]
    /\ tick = "none" /\ tickNow = 0 /\ firing = None /\ wasPeriodic = FALSE /\ calls = 0
    /\ setting = None
    /\ dueIn = [t \in Timers |-> 0]
    /\ armed = [t \in Timers |-> FALSE]

\* insert_timer_in_queue: behind all that come before the first timer that is later.
Ahead(t, times) ==
    Cardinality({i \in DOMAIN timerQueue : \A j \in 1 .. i : ~Later(times[timerQueue[j]], times[t])})

Insert(t, times) == timerQueue' = InsertAt(timerQueue, Ahead(t, times) + 1, t)

\* The fields timer_set writes.
SetFields(t, delay, period) ==
    /\ scheduledTime' = [scheduledTime EXCEPT ![t] = (now + delay) % Word]
    /\ periodicTime' = [periodicTime EXCEPT ![t] = period]
    /\ dueIn' = [dueIn EXCEPT ![t] = delay]
    /\ armed' = [armed EXCEPT ![t] = TRUE]

\* Mutant: a delay of 0 is taken as it is.
DelaySameTick(d) == d

\* timer_set_oneshot, timer_set_periodic: a delay of 0 is made 1.
Delay(d) == IF d = 0 THEN 1 ELSE d

\* Mutant: timer_cancel leaves the period.
CancelKeepsPeriod(t) ==
    /\ timerQueue' = RemoveFirst(timerQueue, t)
    /\ scheduledTime' = [scheduledTime EXCEPT ![t] = 0]
    /\ armed' = [armed EXCEPT ![t] = FALSE]
    /\ UNCHANGED <<now, sinceTick, dueIn, periodicTime>>

\* timer_cancel
Cancel(t) ==
    /\ timerQueue' = RemoveFirst(timerQueue, t)
    /\ scheduledTime' = [scheduledTime EXCEPT ![t] = 0]
    /\ periodicTime' = [periodicTime EXCEPT ![t] = 0]
    /\ armed' = [armed EXCEPT ![t] = FALSE]
    /\ UNCHANGED <<now, sinceTick, dueIn>>

---------------------------------------------------------------------------
(* The thread *)

\* timer_set up to its critical section; it panics if the timer is in a list.
ThreadSets(t, d, periodic) ==
    /\ tick = "none" /\ setting = None /\ ~Queued(t)
    /\ SetFields(t, Delay(d), IF periodic THEN Delay(d) ELSE 0)
    /\ setting' = t
    /\ UNCHANGED <<now, sinceTick, tickVars, timerQueue>>

\* Its critical section.
ThreadInserts ==
    /\ tick = "none" /\ setting # None
    /\ Insert(setting, scheduledTime)
    /\ setting' = None
    /\ UNCHANGED <<timeVars, fieldVars, tickVars>>

ThreadCancels(t) ==
    /\ tick = "none" /\ setting = None
    /\ Cancel(t)
    /\ UNCHANGED <<tickVars, setting>>

---------------------------------------------------------------------------
(* The tick *)

TickBegins ==
    /\ tick = "none" /\ sinceTick >= TickEvery
    /\ tick' = "loop" /\ tickNow' = now
    /\ sinceTick' = 0
    /\ UNCHANGED <<now, dueIn, fieldVars, firing, wasPeriodic, calls, timerQueue, setting>>

\* The head of the queue is due: it is taken off, and its callback called.
TickFires ==
    /\ tick = "loop" /\ timerQueue # <<>>
    /\ ~Earlier(tickNow, scheduledTime[Head(timerQueue)])
    /\ firing' = Head(timerQueue)
    /\ wasPeriodic' = (periodicTime[firing'] > 0)
    /\ timerQueue' = Tail(timerQueue)
    /\ scheduledTime' = [scheduledTime EXCEPT ![firing'] = 0]
    /\ armed' = [armed EXCEPT ![firing'] = wasPeriodic']
    /\ tick' = "callback" /\ calls' = 0
    /\ UNCHANGED <<timeVars, periodicTime, tickNow, setting>>

CallbackSets(t, d, periodic) ==
    /\ tick = "callback" /\ calls < MaxCalls
    /\ ~Queued(t) /\ setting # t
    /\ SetFields(t, Delay(d), IF periodic THEN Delay(d) ELSE 0)
    /\ timerQueue' = InsertAt(timerQueue, Ahead(t, scheduledTime') + 1, t)
    /\ calls' = calls + 1
    /\ UNCHANGED <<now, sinceTick, tick, tickNow, firing, wasPeriodic, setting>>

CallbackCancels(t) ==
    /\ tick = "callback" /\ calls < MaxCalls
    /\ setting # t
    /\ Cancel(t)
    /\ calls' = calls + 1
    /\ UNCHANGED <<tick, tickNow, firing, wasPeriodic, setting>>

\* A periodic timer goes back, unless the callback queued or cancelled it.
Requeue == wasPeriodic /\ ~Queued(firing) /\ periodicTime[firing] > 0

\* The callback returns.
TickGoesOn ==
    /\ tick = "callback"
    /\ tick' = "loop" /\ firing' = None /\ wasPeriodic' = FALSE /\ calls' = 0
    /\ IF Requeue
       THEN /\ scheduledTime' = [scheduledTime EXCEPT ![firing] = (tickNow + periodicTime[firing]) % Word]
            /\ dueIn' = [dueIn EXCEPT ![firing] = periodicTime[firing] - Difference(now, tickNow)]
            /\ Insert(firing, scheduledTime')
       ELSE UNCHANGED <<scheduledTime, dueIn, timerQueue>>
    /\ UNCHANGED <<now, sinceTick, periodicTime, armed, tickNow, setting>>

\* Nothing more is due.
TickEnds ==
    /\ tick = "loop"
    /\ timerQueue # <<>> => Earlier(tickNow, scheduledTime[Head(timerQueue)])
    /\ tick' = "none" /\ tickNow' = 0
    /\ UNCHANGED <<timeVars, fieldVars, firing, wasPeriodic, calls, timerQueue, setting>>

---------------------------------------------------------------------------

\* Time goes on, in callbacks too.
TimePasses ==
    /\ sinceTick < TickEvery + MaxLate
    /\ setting # None => dueIn[setting] > -MaxLate
    /\ now' = (now + 1) % Word
    /\ sinceTick' = sinceTick + 1
    /\ dueIn' = [t \in Timers |-> IF Queued(t) \/ setting = t THEN dueIn[t] - 1 ELSE 0]
    /\ UNCHANGED <<fieldVars, tickVars, timerQueue, setting>>

TickStep == TickFires \/ TickGoesOn \/ TickEnds

TimersNext ==
    \/ \E t \in Timers :
        \/ \E d \in Delays, periodic \in BOOLEAN : ThreadSets(t, d, periodic) \/ CallbackSets(t, d, periodic)
        \/ ThreadCancels(t)
        \/ CallbackCancels(t)
    \/ ThreadInserts
    \/ TickBegins
    \/ TickStep
    \/ TimePasses

\* Time goes on, the tick comes, runs to its end, and a thread inside timer_set runs again.
TimersSpec ==
    /\ TimersInit /\ [][TimersNext]_timerVars
    /\ WF_timerVars(TimePasses)
    /\ WF_timerVars(TickBegins)
    /\ WF_timerVars(TickStep)
    /\ SF_timerVars(ThreadInserts)

---------------------------------------------------------------------------
(* Properties *)

\* The queue is in the order of the true times although the word wraps around (timer.c:67),
\* and no callback is called before its time.
TimersInOrder ==
    /\ \A i, j \in DOMAIN timerQueue : i < j => dueIn[timerQueue[i]] <= dueIn[timerQueue[j]]
    /\ tick = "callback" /\ calls = 0 => dueIn[firing] <= 0

\* A timer is in the queue, once, just when somebody waits for it: whatever callbacks
\* do with their own timer and others, a cancelled one does not come back and one that
\* was set is not lost (timer.c:241).
QueuedWhenArmed ==
    /\ IsInjective(timerQueue)
    /\ \A t \in Timers : t \notin {setting, firing} => (Queued(t) <=> armed[t])

\* The queue holds the timers somebody waits for, in the order in which they come due.
TimersSound == TimersInOrder /\ QueuedWhenArmed

\* Every timer that waits is called or cancelled: the tick that found it is not kept from
\* it by callbacks that set their timers again to a delay of nothing (timer.c:127).
TimersFire == \A t \in Timers : Queued(t) ~> ~Queued(t)
=============================================================================
