------------------------------ MODULE IoThread ------------------------------
(***************************************************************************)
(* The end of the bring-up: kmain (kernel/main.c) starts the DPC thread,   *)
(* bootstrap2 and the I/O thread and becomes the idle thread; bootstrap2   *)
(* boots, and while it decompresses the kernel the I/O thread loads the    *)
(* images of the other processors (iothread.c, decompressor.c).  Nothing   *)
(* but priorities sees to it that the I/O thread initialises the two       *)
(* events before bootstrap2 signals one, and nothing but the two events    *)
(* that only one of them is in the memory map (Mblock).                    *)
(*                                                                         *)
(* A ready thread of the highest priority runs; which of those of one      *)
(* priority is left open (Sched has the queues).  The interrupts are on    *)
(* for the DPC thread before kmain turns them on for good: a thread starts *)
(* by leaving its critical section.                                        *)
(***************************************************************************)
EXTENDS Naturals

VARIABLES
    at,             \* thread -> where it is
    runnable,       \* the threads that are ready or running
    current,        \* current_thread
    known,          \* iothread_start_event and iothread_end_event are initialised
    up              \* event -> it is signalled

bootVars == <<at, runnable, current, known, up>>

BootThreads == {"kmain", "dpc", "io", "bs2"}

\* Mutant: the I/O thread has bootstrap2's priority.
PriorityDefault(t) ==
    CASE t = "dpc" -> 31
      [] t = "kmain" -> IF at["kmain"] = "idle" THEN 0 ELSE 31
      [] t = "io" -> 16
      [] t = "bs2" -> 16

\* DPC_PRIORITY is HIGHEST_PRIORITY, as the bootstrap thread's until it becomes the idle
\* thread; IO_THREAD_PRIORITY is DEFAULT_PRIORITY + 1.
Priority(t) ==
    CASE t = "dpc" -> 31
      [] t = "kmain" -> IF at["kmain"] = "idle" THEN 0 ELSE 31
      [] t = "io" -> 17
      [] t = "bs2" -> 16

BootInit ==
    /\ at = [t \in BootThreads |-> IF t = "kmain" THEN "dpc_init" ELSE "suspended"]
    /\ runnable = {"kmain"}
    /\ current = "kmain"
    /\ known = FALSE
    /\ up = [e \in {"start", "end"} |-> FALSE]

Highest(ready) == {t \in ready : \A u \in ready : Priority(u)' <= Priority(t)'}

\* thread_resched among the threads that are ready after the step.
Resched == current' \in Highest(runnable')

Goes(t, place) == at' = [at EXCEPT ![t] = place]

Runs(t, place) == current = t /\ t \in runnable /\ at[t] = place

---------------------------------------------------------------------------
(* kmain *)

\* thread_resume yields to the thread it resumes, if that has a priority as high.
Resume(place, t, next) ==
    /\ Runs("kmain", place)
    /\ at' = [at EXCEPT !["kmain"] = next, ![t] = "begin"]
    /\ runnable' = runnable \cup {t}
    /\ Resched
    /\ UNCHANGED <<known, up>>

BecomeIdle ==
    /\ Runs("kmain", "become_idle")
    /\ Goes("kmain", "idle")
    /\ UNCHANGED <<runnable, known, up>>
    /\ Resched

\* dpc_thread_routine waits for its event.
DpcWaits ==
    /\ Runs("dpc", "begin")
    /\ Goes("dpc", "waits")
    /\ runnable' = runnable \ {"dpc"}
    /\ Resched
    /\ UNCHANGED <<known, up>>

---------------------------------------------------------------------------
(* The I/O thread and bootstrap2 *)

Advance(t, place, next) ==
    /\ Runs(t, place)
    /\ Goes(t, next)
    /\ UNCHANGED <<runnable, current, known, up>>

\* The two calls of event_init; a signal an event had is gone.
IoInits ==
    /\ Runs("io", "begin")
    /\ known' = TRUE
    /\ up' = [e \in DOMAIN up |-> FALSE]
    /\ Goes("io", "wait")
    /\ UNCHANGED <<runnable, current>>

\* event_wait; an event that is not initialised fails the assertion on its magic.
Wait(t, e, next) ==
    /\ Runs(t, "wait") /\ known
    /\ IF up[e]
       THEN /\ Goes(t, next)
            /\ UNCHANGED <<runnable, current>>
       ELSE /\ Goes(t, "blocked")
            /\ runnable' = runnable \ {t}
            /\ Resched
    /\ UNCHANGED <<known, up>>

\* event_signal: who waits is made ready, and runs at once if it may reschedule.
Signal(t, place, e, waiter, woken, next, reschedule) ==
    /\ Runs(t, place) /\ known
    /\ up' = [up EXCEPT ![e] = TRUE]
    /\ IF at[waiter] = "blocked"
       THEN /\ at' = [at EXCEPT ![t] = next, ![waiter] = woken]
            /\ runnable' = runnable \cup {waiter}
       ELSE Goes(t, next) /\ UNCHANGED runnable
    /\ IF reschedule THEN Resched ELSE UNCHANGED current
    /\ UNCHANGED known

\* event_unsignal
Unsignal(t, e, next) ==
    /\ Runs(t, "unsignal")
    /\ up' = [up EXCEPT ![e] = FALSE]
    /\ Goes(t, next)
    /\ UNCHANGED <<runnable, current, known>>

\* Loading, the I/O thread sleeps or waits for the storage.
IoSleeps ==
    /\ Runs("io", "load")
    /\ Goes("io", "asleep")
    /\ runnable' = runnable \ {"io"}
    /\ Resched
    /\ UNCHANGED <<known, up>>

\* The thread ends.
IoEnds ==
    /\ Runs("io", "return")
    /\ Goes("io", "ended")
    /\ runnable' = runnable \ {"io"}
    /\ Resched
    /\ UNCHANGED <<known, up>>

\* gunzip ends.
Decompress == Advance("bs2", "gunzip", "wait")

ThreadStep ==
    \/ Resume("dpc_init", "dpc", "create_bs2")
    \/ Resume("create_bs2", "bs2", "create_io")
    \/ Resume("create_io", "io", "become_idle")
    \/ BecomeIdle
    \/ DpcWaits
    \/ IoInits
    \/ Wait("io", "start", "unsignal")
    \/ Unsignal("io", "start", "load")
    \/ IoSleeps
    \/ Advance("io", "load", "loaded")
    \/ Signal("io", "loaded", "end", "bs2", "unsignal", "return", TRUE)
    \/ IoEnds
    \/ Advance("bs2", "begin", "reserve")
    \/ Advance("bs2", "reserve", "wake")
    \/ Signal("bs2", "wake", "start", "io", "unsignal", "gunzip", FALSE)
    \/ Decompress
    \/ Wait("bs2", "end", "unsignal")
    \/ Unsignal("bs2", "end", "map")
    \/ Advance("bs2", "map", "kernel")

---------------------------------------------------------------------------
(* Interrupts *)

\* Of a thread that is inside kmain's critical section there are none.
InterruptsOn == current # "kmain" \/ at["kmain"] = "idle"

\* An interrupt, which every time asks for INT_RESCHEDULE: thread_preempt.
Preempt ==
    /\ InterruptsOn
    /\ UNCHANGED <<at, runnable, known, up>>
    /\ Resched

\* One that ends the I/O thread's sleep.
IoWakes ==
    /\ InterruptsOn /\ at["io"] = "asleep"
    /\ Goes("io", "load")
    /\ runnable' = runnable \cup {"io"}
    /\ Resched
    /\ UNCHANGED <<known, up>>

BootNext == ThreadStep \/ Preempt \/ IoWakes

\* The current thread runs, the images are loaded in the end, and sleeps end.
BootSpec ==
    /\ BootInit /\ [][BootNext]_bootVars
    /\ WF_bootVars(ThreadStep)
    /\ SF_bootVars(Advance("io", "load", "loaded"))
    /\ WF_bootVars(IoWakes)

---------------------------------------------------------------------------
(* Properties *)

\* The memory map is never used by both threads, the reservations of the images included.
MapUsedByOne == ~(at["io"] \in {"load", "asleep", "loaded"} /\ at["bs2"] \in {"reserve", "map"})

\* The kernel is started in the end: the signal of bootstrap2 does not come before the event
\* is there to take it (iothread.c:207), though interrupts come early (dpc.c:50), no signal
\* is lost between a wait and its separate event_unsignal (iothread.h:61), and the two
\* threads never use the memory map at once (mblock_v2.c:50).
BootGoesOn == []MapUsedByOne /\ <>(at["bs2"] = "kernel")
=============================================================================
