-------------------------------- MODULE Kernel --------------------------------
(***************************************************************************)
(* The kernel services over the scheduler of Sched.tla: thread calls,      *)
(* events, mutexes, timers, the dpc thread that frees dead threads, and    *)
(* the interrupt path.  kmain brings the system up; from then on every     *)
(* application thread may make any of the calls in Calls, at any time it   *)
(* is current, and interrupts arrive whenever they are not masked.         *)
(*                                                                         *)
(* One action is one call, from the caller's code to its return or to the  *)
(* switch to another thread; Resume runs the rest of a call of the thread  *)
(* just switched to.  A call runs with interrupts masked, so nothing can   *)
(* come between its assignments - unless a critical section has leaked     *)
(* (TimeoutFires): then enter_critical_section masks nothing, and an       *)
(* interrupt may come in the middle of any call.  IrqInside is that        *)
(* interrupt; it works on lists and counts half changed, and what becomes  *)
(* of them is not modelled: Torn stands, and nothing more happens.  What   *)
(* this module says of a machine that is Torn is nothing.                  *)
(***************************************************************************)
EXTENDS Sched

CONSTANTS
    InitialApps,    \* the threads kmain starts (bootstrap2, iothread)
    AutoEvents,     \* the events with EVENT_FLAG_AUTOUNSIGNAL
    IrqEvents,      \* the events an interrupt handler signals
    Calls,          \* the calls the application threads make
    CountBound      \* a bound on critical_section_count, which leaks

ASSUME KernelAssumption ==
    /\ InitialApps \subseteq Apps
    /\ AutoEvents \subseteq Events
    /\ DpcEvent \notin AutoEvents
    /\ IrqEvents \subseteq Events \ {DpcEvent}

VARIABLES
    signalled,  \* event -> event_t.signalled
    valid,      \* object -> its magic is set
    holder,     \* mutex -> mutex_t.holder
    mcount,     \* mutex -> mutex_t.count
    timer,      \* thread -> what its timer in the timer queue will do
    call,       \* thread -> the wait it is in, [op, obj]
    irq,        \* the interrupt being served
    stage,      \* how far kmain has come
    dpcAt,      \* where the dpc thread is in its loop
    dpcList,    \* the dead threads queued for clean-up
    dpcJob      \* the one being cleaned up

schedVars == <<state, prio, runq, current, csc, saved, ints, quantum, queueVars, pc, panicked>>
objectVars == <<signalled, valid, holder, mcount>>
dpcVars == <<dpcAt, dpcList, dpcJob>>
vars == <<schedVars, objectVars, timer, call, irq, stage, dpcVars>>

NoCall == [op |-> "none", obj |-> None]
WaitOps == {"event_wait", "mutex_acquire", "mutex_acquire_timeout"}
Stages == {"dpc", "timer", "apps", "enable", "idle", "done"}
Irqs == {"none", "tick", "device", "exit", "inside"}

\* An interrupt was taken in the middle of a call.
Torn == irq = "inside"

\* kmain up to heap_init: one running thread, inside a critical section.
Init ==
    /\ state = [t \in Threads |-> IF t = Boot THEN "running"
                                  ELSE IF t \in InitialApps \cup {Dpc} THEN "suspended"
                                  ELSE "free"]
    /\ prio = [t \in Threads |-> IF t \in Apps THEN AppPriority[t] ELSE HighestPriority]
    /\ runq = [queue |-> [p \in Priorities |-> <<>>], bitmap |-> {}]
    /\ current = Boot
    /\ csc = 1
    /\ saved = [t \in Threads |-> 1]
    /\ ints = FALSE
    /\ quantum = [t \in Threads |-> 0]
    /\ waitq = [w \in Objects |-> <<>>]
    /\ count = [w \in Objects |-> 0]
    /\ bwq = [t \in Threads |-> None]
    /\ ret = [t \in Threads |-> "ok"]
    /\ pc = [t \in Threads |-> IF t = Boot THEN "user" ELSE "new"]
    /\ panicked = FALSE
    /\ signalled = [e \in Events |-> FALSE]
    /\ valid = [w \in Objects |-> TRUE]
    /\ holder = [m \in Mutexes |-> None]
    /\ mcount = [m \in Mutexes |-> 0]
    /\ timer = [t \in Threads |-> "none"]
    /\ call = [t \in Threads |-> NoCall]
    /\ irq = "none"
    /\ stage = "dpc"
    /\ dpcAt = "wait"
    /\ dpcList = <<>>
    /\ dpcJob = None

\* The current thread is in its own code.
InUserCode == pc[current] = "user" /\ irq = "none" /\ ~panicked
AppCalls(c) == InUserCode /\ current \in Apps /\ c \in Calls

---------------------------------------------------------------------------
(* Threads *)

ThreadYield ==
    /\ AppCalls("thread_yield")
    /\ YieldAt(state, runq, csc, "yield")
    /\ UNCHANGED <<objectVars, timer, call, irq, stage, dpcVars>>

ThreadCreate(t) ==
    /\ AppCalls("thread_create")
    /\ state[t] = "free"
    /\ state' = [state EXCEPT ![t] = "suspended"]
    /\ prio' = [prio EXCEPT ![t] = AppPriority[t]]
    /\ saved' = [saved EXCEPT ![t] = 1]
    /\ quantum' = [quantum EXCEPT ![t] = 0]
    /\ bwq' = [bwq EXCEPT ![t] = None]
    /\ ret' = [ret EXCEPT ![t] = "ok"]
    /\ pc' = [pc EXCEPT ![t] = "new"]
    /\ UNCHANGED <<runq, current, csc, ints, waitq, count, panicked,
                   objectVars, timer, call, irq, stage, dpcVars>>

\* thread_resume past its early return: make t ready, then yield.
ResumeThread(t) ==
    /\ YieldAt([state EXCEPT ![t] = "ready"], InsertHead(runq, t), csc + 1, "resume")
    /\ UNCHANGED <<objectVars, timer, call, irq, dpcVars>>

\* Of a thread that is suspended.  The code turns READY and RUNNING threads away
\* and would take a blocked or sleeping one, which no caller resumes.
ThreadResume(t) ==
    /\ AppCalls("thread_resume")
    /\ state[t] = "suspended"
    /\ UNCHANGED stage
    /\ ResumeThread(t)

ThreadSleep ==
    /\ AppCalls("thread_sleep")
    /\ timer[current] = "none"
    /\ timer' = [timer EXCEPT ![current] = "sleep"]
    /\ Resched([state EXCEPT ![current] = "sleeping"], runq, quantum, csc + 1)
    /\ pc' = [pc EXCEPT ![current] = "sleep"]
    /\ ints' = MaskAfterEnter(csc, ints)
    /\ UNCHANGED <<prio, queueVars, panicked, objectVars, call, irq, stage, dpcVars>>

\* Mutant: the dpc thread is not told.
ThreadExitSilent ==
    /\ AppCalls("thread_exit")
    /\ \A m \in Mutexes : holder[m] # current
    /\ dpcList' = Append(dpcList, current)
    /\ Resched([state EXCEPT ![current] = "death"], runq, quantum, csc + 1)
    /\ ints' = MaskAfterEnter(csc, ints)
    /\ UNCHANGED <<prio, queueVars, pc, panicked, objectVars, timer, call, irq, stage,
                   dpcAt, dpcJob>>

\* A thread leaves its dpc behind and never runs again.  A thread that holds a
\* mutex does not exit.
ThreadExit ==
    LET woken == IF signalled[DpcEvent] THEN <<>> ELSE waitq[DpcEvent]
    IN /\ AppCalls("thread_exit")
       /\ \A m \in Mutexes : holder[m] # current
       /\ dpcList' = Append(dpcList, current)
       /\ signalled' = [signalled EXCEPT ![DpcEvent] = TRUE]
       /\ LeaveQueue(DpcEvent, woken, "ok")
       /\ Resched(MadeReady([state EXCEPT ![current] = "death"], woken),
                  InsertAll(runq, woken), quantum, csc + 1)
       /\ ints' = MaskAfterEnter(csc, ints)
       /\ UNCHANGED <<prio, pc, panicked, valid, holder, mcount, timer, call, irq, stage,
                      dpcAt, dpcJob>>

---------------------------------------------------------------------------
(* Waiting *)

\* Join the queue of w from the routine op, with a timer if the wait is finite.
BlockOn(w, op, finite) ==
    /\ Enqueue(w)
    /\ call' = [call EXCEPT ![current] = [op |-> op, obj |-> w]]
    /\ timer' = IF finite THEN [timer EXCEPT ![current] = "timeout"] ELSE timer

\* thread_block, the second half of wait_queue_block.
ThreadBlock ==
    /\ pc[current] = "block" /\ irq = "none" /\ ~panicked
    /\ state[current] = "blocked"
    /\ Resched(state, runq, quantum, csc + 1)
    /\ pc' = [pc EXCEPT ![current] = call[current].op]
    /\ ints' = MaskAfterEnter(csc, ints)
    /\ UNCHANGED <<prio, queueVars, panicked, objectVars, timer, call, irq, stage, dpcVars>>

EventWait(e, finite) ==
    /\ AppCalls(IF finite THEN "event_wait_timeout" ELSE "event_wait")
    /\ valid[e]
    /\ timer[current] = "none"
    /\ \/ /\ signalled[e]
          /\ signalled' = [signalled EXCEPT ![e] = e \notin AutoEvents]
          /\ UNCHANGED <<schedVars, call, timer>>
       \/ /\ ~signalled[e]
          /\ BlockOn(e, "event_wait", finite)
          /\ UNCHANGED signalled
    /\ UNCHANGED <<valid, holder, mcount, irq, stage, dpcVars>>

MutexAcquire(m, finite) ==
    /\ AppCalls(IF finite THEN "mutex_acquire_timeout" ELSE "mutex_acquire")
    /\ valid[m]
    /\ holder[m] # current
    /\ timer[current] = "none"
    /\ mcount' = [mcount EXCEPT ![m] = @ + 1]
    /\ \/ /\ mcount[m] = 0
          /\ holder' = [holder EXCEPT ![m] = current]
          /\ UNCHANGED <<schedVars, call, timer>>
       \/ /\ mcount[m] > 0
          /\ BlockOn(m, IF finite THEN "mutex_acquire_timeout" ELSE "mutex_acquire", finite)
          /\ UNCHANGED holder
    /\ UNCHANGED <<signalled, valid, irq, stage, dpcVars>>

---------------------------------------------------------------------------
(* Waking *)

\* Mutant: everybody is woken where one should be.
AllOf(w) == waitq[w]

FirstOf(w) == IF waitq[w] = <<>> THEN <<>> ELSE <<Head(waitq[w])>>

\* Mutant: the event stays signalled although it has woken a thread.
SignalEventSticky(e, reschedule) ==
    /\ signalled' = [signalled EXCEPT ![e] = TRUE]
    /\ Wake(e, IF signalled[e] THEN <<>> ELSE FirstOf(e), reschedule, "ok")

\* event_signal of a valid event, from a thread or from an interrupt handler.
SignalEvent(e, reschedule) ==
    \/ /\ signalled[e]
       /\ UNCHANGED <<schedVars, signalled>>
    \/ /\ ~signalled[e]
       /\ e \in AutoEvents
       /\ signalled' = [signalled EXCEPT ![e] = waitq[e] = <<>>]
       /\ Wake(e, FirstOf(e), reschedule, "ok")
    \/ /\ ~signalled[e]
       /\ e \notin AutoEvents
       /\ signalled' = [signalled EXCEPT ![e] = TRUE]
       /\ Wake(e, waitq[e], reschedule, "ok")

EventSignal(e, reschedule) ==
    /\ AppCalls(IF reschedule THEN "event_signal" ELSE "event_signal_noresched")
    /\ valid[e]
    /\ SignalEvent(e, reschedule)
    /\ UNCHANGED <<valid, holder, mcount, timer, call, irq, stage, dpcVars>>

EventUnsignal(e) ==
    /\ AppCalls("event_unsignal")
    /\ valid[e]
    /\ signalled' = [signalled EXCEPT ![e] = FALSE]
    /\ UNCHANGED <<schedVars, valid, holder, mcount, timer, call, irq, stage, dpcVars>>

\* Mutant: hands over only when two more threads want the mutex.
MutexReleaseOffByOne(m) ==
    /\ AppCalls("mutex_release")
    /\ valid[m]
    /\ holder[m] = current
    /\ holder' = [holder EXCEPT ![m] = None]
    /\ mcount' = [mcount EXCEPT ![m] = @ - 1]
    /\ Wake(m, IF mcount[m] - 1 > 1 THEN FirstOf(m) ELSE <<>>, TRUE, "ok")
    /\ UNCHANGED <<signalled, valid, timer, call, irq, stage, dpcVars>>

MutexRelease(m) ==
    /\ AppCalls("mutex_release")
    /\ valid[m]
    /\ holder[m] = current
    /\ holder' = [holder EXCEPT ![m] = None]
    /\ mcount' = [mcount EXCEPT ![m] = @ - 1]
    /\ Wake(m, IF mcount[m] - 1 >= 1 THEN FirstOf(m) ELSE <<>>, TRUE, "ok")
    /\ UNCHANGED <<signalled, valid, timer, call, irq, stage, dpcVars>>

\* event_destroy, mutex_destroy: every waiter leaves with ERR_OBJECT_DESTROYED.
\* holder is left as it was.
Destroy(w) ==
    /\ AppCalls("destroy")
    /\ valid[w]
    /\ valid' = [valid EXCEPT ![w] = FALSE]
    /\ signalled' = [e \in Events |-> e # w /\ signalled[e]]
    /\ mcount' = [m \in Mutexes |-> IF m = w THEN 0 ELSE mcount[m]]
    /\ Wake(w, waitq[w], TRUE, "destroyed")
    /\ UNCHANGED <<holder, timer, call, irq, stage, dpcVars>>

---------------------------------------------------------------------------
(* The rest of the call the current thread was switched out of *)

\* The exit_critical_section calls on the way out; for a preempted thread the
\* second one is the decrement in the interrupt glue.
ExitsOf(c) ==
    IF c \in {"new", "yield", "sleep", "signal"} THEN 1 ELSE 2

\* Mutant: a thread that timed out falls through and takes the mutex.
FinishMutexFallThrough(t, m, op) ==
    /\ holder' = [holder EXCEPT ![m] = t]
    /\ UNCHANGED mcount

\* Mutant: a thread that timed out does not back out of the count.
FinishMutexKeepCount(t, m, op) ==
    /\ holder' = IF ret[t] = "ok" THEN [holder EXCEPT ![m] = t] ELSE holder
    /\ UNCHANGED mcount

FinishMutex(t, m, op) ==
    \/ /\ ret[t] = "ok" \/ (op = "mutex_acquire_timeout" /\ ret[t] # "timed_out")
       /\ holder' = [holder EXCEPT ![m] = t]
       /\ UNCHANGED mcount
    \/ /\ op = "mutex_acquire_timeout" /\ ret[t] = "timed_out"
       /\ mcount' = [mcount EXCEPT ![m] = @ - 1]
       /\ UNCHANGED holder
    \/ /\ op = "mutex_acquire" /\ ret[t] # "ok"
       /\ UNCHANGED <<holder, mcount>>

Resume ==
    LET at == pc[current]
        c == csc - ExitsOf(at)
    IN /\ at \notin {"user", "block"} /\ irq = "none" /\ ~panicked
       /\ csc' = c
       /\ ints' = (at = "preempt" \/ MaskAfterExit(c, ints))
       /\ pc' = [pc EXCEPT ![current] = "user"]
       /\ IF at \in WaitOps
            THEN /\ timer' = [timer EXCEPT ![current] = "none"]
                 /\ call' = [call EXCEPT ![current] = NoCall]
            ELSE UNCHANGED <<timer, call>>
       /\ IF at \in {"mutex_acquire", "mutex_acquire_timeout"}
            THEN FinishMutex(current, call[current].obj, at)
            ELSE UNCHANGED <<holder, mcount>>
       /\ dpcAt' = IF current = Dpc /\ at = "event_wait" THEN "take" ELSE dpcAt
       /\ UNCHANGED <<state, prio, runq, current, saved, quantum, queueVars, panicked,
                      signalled, valid, irq, stage, dpcList, dpcJob>>

---------------------------------------------------------------------------
(* The dpc thread *)

DpcWait ==
    /\ InUserCode /\ current = Dpc /\ dpcAt = "wait"
    /\ \/ /\ signalled[DpcEvent]
          /\ dpcAt' = "take"
          /\ UNCHANGED <<schedVars, call, timer>>
       \/ /\ ~signalled[DpcEvent]
          /\ BlockOn(DpcEvent, "event_wait", FALSE)
          /\ UNCHANGED dpcAt
    /\ UNCHANGED <<objectVars, irq, stage, dpcList, dpcJob>>

DpcTake ==
    /\ InUserCode /\ current = Dpc /\ dpcAt = "take"
    /\ \/ /\ dpcList = <<>>
          /\ signalled' = [signalled EXCEPT ![DpcEvent] = FALSE]
          /\ dpcAt' = "wait"
          /\ UNCHANGED <<dpcList, dpcJob>>
       \/ /\ dpcList # <<>>
          /\ dpcJob' = Head(dpcList)
          /\ dpcList' = Tail(dpcList)
          /\ dpcAt' = "cleanup"
          /\ UNCHANGED signalled
    /\ UNCHANGED <<schedVars, valid, holder, mcount, timer, call, irq, stage>>

QueuedToRun(t) == \E p \in Priorities : t \in ToSet(runq.queue[p])

DpcCleanup ==
    /\ InUserCode /\ current = Dpc /\ dpcAt = "cleanup"
    /\ IF state[dpcJob] # "death" \/ bwq[dpcJob] # None \/ QueuedToRun(dpcJob)
         THEN Panic /\ UNCHANGED dpcVars
         ELSE /\ state' = [state EXCEPT ![dpcJob] = "free"]
              /\ dpcAt' = "wait"
              /\ dpcJob' = None
              /\ UNCHANGED <<prio, runq, current, csc, saved, ints, quantum, queueVars,
                             pc, panicked, dpcList>>
    /\ UNCHANGED <<objectVars, timer, call, irq, stage>>

---------------------------------------------------------------------------
(* kmain *)

KmainDpcInit ==
    /\ InUserCode /\ current = Boot /\ stage = "dpc"
    /\ stage' = "timer"
    /\ ResumeThread(Dpc)

KmainTimerInit ==
    /\ InUserCode /\ current = Boot /\ stage = "timer"
    /\ stage' = "apps"
    /\ UNCHANGED <<schedVars, objectVars, timer, call, irq, dpcVars>>

KmainResume(t) ==
    /\ InUserCode /\ current = Boot /\ stage = "apps"
    /\ t \in InitialApps
    /\ state[t] = "suspended"
    /\ stage' = IF \A u \in InitialApps \ {t} : state[u] # "suspended" THEN "enable" ELSE stage
    /\ ResumeThread(t)

KmainEnable ==
    /\ InUserCode /\ current = Boot /\ stage = "enable"
    /\ stage' = "idle"
    /\ csc' = csc - 1
    /\ ints' = MaskAfterExit(csc - 1, ints)
    /\ UNCHANGED <<state, prio, runq, current, saved, quantum, queueVars, pc, panicked,
                   objectVars, timer, call, irq, dpcVars>>

\* thread_become_idle: the lowest priority, then give way to the others.
KmainBecomeIdle ==
    /\ InUserCode /\ current = Boot /\ stage = "idle"
    /\ stage' = "done"
    /\ prio' = [prio EXCEPT ![Boot] = IdlePriority]
    /\ LET rq == [queue  |-> [runq.queue EXCEPT ![IdlePriority] = Append(@, Boot)],
                  bitmap |-> runq.bitmap \cup {IdlePriority}]
       IN Resched([state EXCEPT ![Boot] = "ready"], rq, [quantum EXCEPT ![Boot] = 0], csc + 1)
    /\ pc' = [pc EXCEPT ![Boot] = "yield"]
    /\ ints' = MaskAfterEnter(csc, ints)
    /\ UNCHANGED <<queueVars, panicked, objectVars, timer, call, irq, dpcVars>>

---------------------------------------------------------------------------
(* Interrupts *)

Interrupted(kind) ==
    /\ ints /\ irq = "none" /\ ~panicked
    /\ stage \in {"idle", "done"}
    /\ irq' = kind
    /\ csc' = csc + 1
    /\ ints' = FALSE
    /\ UNCHANGED <<state, prio, runq, current, saved, quantum, queueVars, pc, panicked,
                   objectVars, timer, call, stage, dpcVars>>

\* Between two calls, or in the window of wait_queue_block.
IrqEnter(kind) == pc[current] \in {"user", "block"} /\ Interrupted(kind)

\* Between the assignments of a call: with a section too many in the count the
\* current thread, or one it switches to, runs its calls with interrupts on.  The
\* idle thread makes no calls.
IrqInside ==
    /\ csc > 0
    /\ current # Boot \/ stage = "idle" \/ pc[Boot] # "user"
    /\ Interrupted("inside")

\* thread_sleep_handler
SleepTimerFires(t) ==
    /\ irq = "tick" /\ ~panicked
    /\ timer[t] = "sleep"
    /\ timer' = [timer EXCEPT ![t] = "none"]
    /\ IF state[t] # "sleeping"
         THEN Panic
         ELSE /\ state' = [state EXCEPT ![t] = "ready"]
              /\ runq' = InsertHead(runq, t)
              /\ Balanced
              /\ UNCHANGED <<prio, queueVars, pc, panicked>>
    /\ UNCHANGED <<objectVars, call, irq, stage, dpcVars>>

\* wait_queue_timeout_handler: of a thread that has been woken already, it
\* returns ERR_NOT_BLOCKED from inside the section it entered.
TimeoutFires(t) ==
    /\ irq = "tick" /\ ~panicked
    /\ timer[t] = "timeout"
    /\ timer' = [timer EXCEPT ![t] = "none"]
    /\ \/ /\ state[t] # "blocked"
          /\ csc < CountBound
          /\ csc' = csc + 1
          /\ UNCHANGED <<state, prio, runq, current, saved, ints, quantum, queueVars, pc, panicked>>
       \/ /\ state[t] = "blocked"
          /\ Unblock(t, "timed_out")
    /\ UNCHANGED <<objectVars, call, irq, stage, dpcVars>>

DeviceSignals(e) ==
    /\ irq = "device" /\ ~panicked
    /\ valid[e]
    /\ irq' = "exit"
    /\ SignalEvent(e, FALSE)
    /\ UNCHANGED <<valid, holder, mcount, timer, call, stage, dpcVars>>

\* The tick ends with thread_timer_tick; every interrupt ends in
\* thread_preempt, because platform_irq always returns INT_RESCHEDULE.
IrqExit ==
    /\ irq \notin {"none", "inside"} /\ ~panicked
    /\ irq' = "none"
    /\ IF state[current] # "running"
         THEN Panic
         ELSE Preempt(IF irq = "tick" /\ ~(current = Boot /\ stage = "done")
                      THEN [quantum EXCEPT ![current] = IF @ = 0 THEN 0 ELSE @ - 1]
                      ELSE quantum)
    /\ UNCHANGED <<objectVars, timer, call, stage, dpcVars>>

Halted == (panicked \/ Torn) /\ UNCHANGED vars

---------------------------------------------------------------------------

Next ==
    \/ KmainDpcInit \/ KmainTimerInit \/ KmainEnable \/ KmainBecomeIdle
    \/ \E t \in InitialApps : KmainResume(t)
    \/ ThreadYield \/ ThreadSleep \/ ThreadExit \/ ThreadBlock \/ Resume
    \/ \E t \in Apps : ThreadCreate(t) \/ ThreadResume(t)
    \/ \E e \in Events \ {DpcEvent}, b \in BOOLEAN : EventWait(e, b) \/ EventSignal(e, b)
    \/ \E e \in Events \ {DpcEvent} : EventUnsignal(e)
    \/ \E m \in Mutexes, b \in BOOLEAN : MutexAcquire(m, b)
    \/ \E m \in Mutexes : MutexRelease(m)
    \/ \E w \in Objects \ {DpcEvent} : Destroy(w)
    \/ DpcWait \/ DpcTake \/ DpcCleanup
    \/ IrqEnter("tick") \/ (IrqEvents # {} /\ IrqEnter("device")) \/ IrqInside
    \/ \E t \in Threads : SleepTimerFires(t) \/ TimeoutFires(t)
    \/ \E e \in IrqEvents : DeviceSignals(e)
    \/ IrqExit
    \/ Halted

Spec == Init /\ [][Next]_vars

\* The machine takes steps; the periodic tick keeps coming, and serves the
\* timers that are due; and a thread that is current again and again executes
\* an instruction now and then between two interrupts.
FairSpec ==
    /\ Spec
    /\ WF_vars(Next)
    /\ SF_vars(IrqEnter("tick"))
    /\ \A t \in Threads : SF_vars(SleepTimerFires(t))
    /\ SF_vars(DpcWait) /\ SF_vars(DpcTake) /\ SF_vars(DpcCleanup)

---------------------------------------------------------------------------
(* Properties *)

TypeOK ==
    /\ state \in [Threads -> States]
    /\ prio \in [Threads -> Priorities]
    /\ runq \in [queue : [Priorities -> Seq(Threads)], bitmap : SUBSET Priorities]
    /\ current \in Threads
    /\ csc \in Nat
    /\ saved \in [Threads -> Nat]
    /\ ints \in BOOLEAN
    /\ quantum \in [Threads -> 0 .. Quantum]
    /\ waitq \in [Objects -> Seq(Threads)]
    /\ count \in [Objects -> Nat]
    /\ bwq \in [Threads -> Objects \cup {None}]
    /\ ret \in [Threads -> Results]
    /\ pc \in [Threads -> PCs]
    /\ panicked \in BOOLEAN
    /\ signalled \in [Events -> BOOLEAN]
    /\ valid \in [Objects -> BOOLEAN]
    /\ holder \in [Mutexes -> Threads \cup {None}]
    /\ mcount \in [Mutexes -> Int]
    /\ timer \in [Threads -> {"none", "sleep", "timeout"}]
    /\ call \in [Threads -> [op : WaitOps \cup {"none"}, obj : Objects \cup {None}]]
    /\ irq \in Irqs
    /\ stage \in Stages
    /\ dpcAt \in {"wait", "take", "cleanup"}
    /\ dpcList \in Seq(Apps)
    /\ dpcJob \in Apps \cup {None}

Occurrences(s, t) == Cardinality({i \in DOMAIN s : s[i] = t})

\* A thread is on exactly the list its state says, once: a ready one on the run
\* queue of its priority, a blocked one on the wait queue it blocks on, any
\* other on none (thread.c moves the single queue_node between the lists).
OneListPerThread ==
    \A t \in Threads :
        /\ \A p \in Priorities :
              Occurrences(runq.queue[p], t) = IF state[t] = "ready" /\ p = prio[t] THEN 1 ELSE 0
        /\ \A w \in Objects :
              Occurrences(waitq[w], t) = IF state[t] = "blocked" /\ w = bwq[t] THEN 1 ELSE 0

\* The summaries the code keeps beside the lists agree with them: the bitmap
\* with the run queues, wait_queue_t.count with the wait queue.
SummariesAgree ==
    /\ runq.bitmap = {p \in Priorities : runq.queue[p] # <<>>}
    /\ \A w \in Objects : count[w] = Len(waitq[w])

\* What thread.c and the wait queues keep in several places agrees: the state of
\* a thread with the list its queue_node is on, the bitmap and the counts with
\* the lists, through every switch, wake-up, time-out and destruction, a leaked
\* section included - up to the interrupt that the leak lets into a call.
QueuesAgree == Torn \/ (TypeOK /\ OneListPerThread /\ SummariesAgree)

\* A switch goes to a thread of the highest priority there is: no ready thread
\* outranks the one thread_resched picks, whatever woke or preempted whom, until
\* a leaked section has let an interrupt into a call.
SwitchesToHighest ==
    [][~Torn' /\ current' # current =>
         \A t \in Threads : state'[t] = "ready" => prio'[t] <= prio'[current']]_vars

\* None of the kernel's ASSERTs fails, the one in thread_preempt that the
\* current thread is RUNNING among them (thread.c:437).
NoAssertFails == ~panicked

\* The critical section count of a thread in its own code is zero and its
\* interrupts are on: every service leaves as many sections as it entered.
CriticalSectionsBalanced ==
    InUserCode /\ current \in Apps => csc = 0 /\ ints

\* Critical sections do what thread.c relies on: no ASSERT of the kernel fails,
\* no path through a service, whoever it switches to, keeps a section, and so no
\* interrupt ever comes between the assignments of one.
SectionsHold == NoAssertFails /\ CriticalSectionsBalanced /\ ~Torn

\* A wait on an event and the event's flag never miss each other: nobody is in
\* the queue of an event that is signalled.  (After an interrupt has come into a
\* call with a leaked section nothing is claimed: between the look at the flag,
\* event.c:120, and the queue it may signal, and the thread sleeps on.)
NoSignalMissed == ~Torn => \A e \in Events : signalled[e] => waitq[e] = <<>>

\* A thread that was given mutex m and has not run since.
Granted(m) == {t \in Threads : /\ call[t].obj = m
                               /\ state[t] # "blocked"
                               /\ pc[t] # "block"
                               /\ ret[t] = "ok"}

Owners(m) == Granted(m) \cup {t \in Threads : holder[m] = t}

\* At most one thread owns a mutex, counting the one mutex_release handed it to
\* that has not run yet to write itself into `holder` - until a leaked section has
\* let an interrupt into a call: then two may both find the count at 0.
MutualExclusion ==
    ~Torn => \A m \in Mutexes : valid[m] => Cardinality(Owners(m)) <= 1

\* A thread that has written itself into `holder` keeps the mutex until it
\* releases it: nobody who timed out, or was woken, takes it over, as long as no
\* interrupt has come into a call.
HolderKeepsMutex ==
    [][~Torn' => \A m \in Mutexes : valid[m] /\ holder[m] \notin {None, holder'[m]} =>
                              holder'[m] = None /\ current = holder[m]]_vars

\* A mutex somebody waits for is owned: "This function waits for a mutex to
\* become available" (mutex.c:83), so it does not leave a thread in the queue of
\* a mutex that is available and that no release will ever hand over.
WaitsOnlyForOwned ==
    ~Torn => \A m \in Mutexes : valid[m] /\ waitq[m] # <<>> => Owners(m) # {}

\* mutex_t.count is the number of threads that own or want the mutex, those
\* that have timed out and not backed out yet among them.  (An interrupt in the
\* middle of count++ or count--, mutex.c:104, 152, 163 and 197, which a leak lets
\* in, may lose one of them: after it nothing is claimed.)
MutexCountsContenders ==
    ~Torn => \A m \in Mutexes : valid[m] =>
        mcount[m] = Cardinality({t \in Threads : holder[m] = t \/ call[t].obj = m})

\* A thread that exits is cleaned up: the dpc thread frees its structure.
DeadAreReaped == \A t \in Apps : state[t] = "death" ~> state[t] = "free"

\* A sleeping thread runs again.
SleepersWake == \A t \in Apps : state[t] = "sleeping" ~> current = t
=============================================================================
