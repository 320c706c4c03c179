-------------------------------- MODULE Sched --------------------------------
(***************************************************************************)
(* The scheduler of the LK kernel: threads, the run queue (one list per    *)
(* priority and the bitmap that summarises it), the wait queues, the       *)
(* critical-section counter with the CPU's interrupt mask, and the switch  *)
(* from one thread to the next.  src/kernel/thread.c, one CPU.             *)
(*                                                                         *)
(* This module holds the state and the routines every kernel service is    *)
(* made of; Kernel.tla composes them into the services.                    *)
(***************************************************************************)
EXTENDS Integers, Sequences, FiniteSets, SequencesExt

CONSTANTS
    Boot,           \* the bootstrap thread, later the idle thread
    Dpc,            \* the dpc thread
    Apps,           \* every other thread structure
    None,           \* no thread, no object
    AppPriority,    \* [Apps -> Nat], the priority each one is created with
    HighestPriority,
    Events, Mutexes,
    DpcEvent

ASSUME ThreadsAssumption ==
    /\ IsFiniteSet(Apps)
    /\ Boot # Dpc
    /\ Boot \notin Apps
    /\ Dpc \notin Apps
    /\ None \notin Apps \cup {Boot, Dpc} \cup Events \cup Mutexes
    /\ HighestPriority \in Nat
    /\ AppPriority \in [Apps -> 1 .. HighestPriority]
    /\ Events \cap Mutexes = {}
    /\ DpcEvent \in Events

Threads == Apps \cup {Boot, Dpc}
Objects == Events \cup Mutexes      \* each owns one wait queue
Priorities == 0 .. HighestPriority
IdlePriority == 0
Quantum == 1                        \* ENABLE_IO_THREAD is defined

VARIABLES
    state,      \* thread -> thread_state ("free": not allocated)
    prio,       \* thread -> priority
    runq,       \* [queue: priority -> list of threads, bitmap: set of priorities]
    current,    \* current_thread
    csc,        \* critical_section_count
    saved,      \* thread -> saved_critical_section_count
    ints,       \* the CPU takes interrupts
    quantum,    \* thread -> remaining_quantum, negative values counted as 0
    waitq,      \* object -> list of threads
    count,      \* object -> wait_queue_t.count
    bwq,        \* thread -> blocking_wait_queue
    ret,        \* thread -> wait_queue_block_ret
    pc,         \* thread -> the call it is inside
    panicked    \* an ASSERT or a panic() stopped the machine

queueVars == <<waitq, count, bwq, ret>>

States == {"free", "suspended", "ready", "running", "blocked", "sleeping", "death"}
Results == {"ok", "timed_out", "destroyed"}

\* Where a thread can be: in its own code, in the window of wait_queue_block
\* between joining the queue and thread_block ("block"), or switched out
\* inside a kernel routine, whose tail Resume runs.
PCs == {"user", "block", "new", "yield", "resume", "preempt", "sleep", "signal",
        "event_wait", "mutex_acquire", "mutex_acquire_timeout"}

---------------------------------------------------------------------------
(* The run queue *)

InsertHead(rq, t) ==
    [queue  |-> [rq.queue EXCEPT ![prio[t]] = <<t>> \o @],
     bitmap |-> rq.bitmap \cup {prio[t]}]

InsertTail(rq, t) ==
    [queue  |-> [rq.queue EXCEPT ![prio[t]] = Append(@, t)],
     bitmap |-> rq.bitmap \cup {prio[t]}]

\* Mutant: counts the trailing zeros, not the leading ones.
Lowest(bitmap) == CHOOSE p \in bitmap : \A q \in bitmap : p <= q

Highest(bitmap) == CHOOSE p \in bitmap : \A q \in bitmap : q <= p

\* thread_resched: take the head of the highest queue the bitmap names and
\* switch to it.  st, rq and qt are the states, queues and quanta at the call,
\* c the critical section count.
Resched(st, rq, qt, c) ==
    LET p == Highest(rq.bitmap)
        newthread == Head(rq.queue[p])
        rest == Tail(rq.queue[p])
    IN /\ runq' = [queue  |-> [rq.queue EXCEPT ![p] = rest],
                   bitmap |-> IF rest = <<>> THEN rq.bitmap \ {p} ELSE rq.bitmap]
       /\ state' = [st EXCEPT ![newthread] = "running"]
       /\ \/ /\ newthread = current
             /\ csc' = c
             /\ quantum' = qt
             /\ UNCHANGED <<current, saved>>
          \/ /\ newthread # current
             /\ current' = newthread
             /\ saved' = [saved EXCEPT ![current] = c]
             /\ csc' = saved[newthread]
             /\ quantum' = [qt EXCEPT ![newthread] = IF @ = 0 THEN Quantum ELSE @]

---------------------------------------------------------------------------
(* Critical sections *)

\* Mutant: masks on the second entry.
MaskAfterSecondEnter(c, i) == i /\ c # 1

\* The mask after enter_critical_section: only the 0 -> 1 step masks.
MaskAfterEnter(c, i) == i /\ c # 0

\* The mask after exit_critical_section has brought the count down to c.
MaskAfterExit(c, i) == i \/ c = 0

\* A service that enters and leaves one critical section without a switch
\* leaves count and mask as they were.
Balanced == UNCHANGED <<csc, saved, ints, current, quantum>>

Panic ==
    /\ panicked' = TRUE
    /\ UNCHANGED <<state, prio, runq, current, csc, saved, ints, quantum, queueVars, pc>>

---------------------------------------------------------------------------
(* Switching away from the current thread *)

\* Mutant: the current thread is queued without being made READY.
YieldAtRunning(st, rq, c, at) ==
    /\ Resched(st, InsertTail(rq, current), [quantum EXCEPT ![current] = 0], c + 1)
    /\ pc' = [pc EXCEPT ![current] = at]
    /\ ints' = MaskAfterEnter(csc, ints)
    /\ UNCHANGED <<prio, queueVars, panicked>>

\* thread_yield with states st and queues rq, called with the count at c by a
\* routine that found it at csc; the caller continues at `at`.
YieldAt(st, rq, c, at) ==
    /\ Resched([st EXCEPT ![current] = "ready"], InsertTail(rq, current),
               [quantum EXCEPT ![current] = 0], c + 1)
    /\ pc' = [pc EXCEPT ![current] = at]
    /\ ints' = MaskAfterEnter(csc, ints)
    /\ UNCHANGED <<prio, queueVars, panicked>>

\* Mutant: back to the head of the queue, quantum left or not.
PreemptToHead(qt) ==
    /\ Resched([state EXCEPT ![current] = "ready"], InsertHead(runq, current), qt, csc + 1)
    /\ pc' = [pc EXCEPT ![current] = "preempt"]
    /\ UNCHANGED <<prio, ints, queueVars, panicked>>

\* thread_preempt, from the interrupt glue, which has entered one section.
Preempt(qt) ==
    LET st == [state EXCEPT ![current] = "ready"]
        rq == IF qt[current] > 0 THEN InsertHead(runq, current)
                                 ELSE InsertTail(runq, current)
    IN /\ Resched(st, rq, qt, csc + 1)
       /\ pc' = [pc EXCEPT ![current] = "preempt"]
       /\ UNCHANGED <<prio, ints, queueVars, panicked>>

---------------------------------------------------------------------------
(* Wait queues *)

\* wait_queue_block up to thread_block: join the queue of w.  The callers have
\* entered one critical section.
Enqueue(w) ==
    /\ waitq' = [waitq EXCEPT ![w] = Append(@, current)]
    /\ count' = [count EXCEPT ![w] = @ + 1]
    /\ state' = [state EXCEPT ![current] = "blocked"]
    /\ bwq' = [bwq EXCEPT ![current] = w]
    /\ ret' = [ret EXCEPT ![current] = "ok"]
    /\ pc' = [pc EXCEPT ![current] = "block"]
    /\ csc' = csc + 1
    /\ ints' = MaskAfterEnter(csc, ints)
    /\ UNCHANGED <<prio, runq, current, saved, quantum, panicked>>

\* Mutant: the woken threads are left in the list.
LeaveQueueLinked(w, woken, result) ==
    /\ count' = [count EXCEPT ![w] = @ - Len(woken)]
    /\ bwq' = [t \in Threads |-> IF t \in ToSet(woken) THEN None ELSE bwq[t]]
    /\ ret' = [t \in Threads |-> IF t \in ToSet(woken) THEN result ELSE ret[t]]
    /\ UNCHANGED waitq

\* wait_queue_wake_one / wait_queue_wake_all: `woken` is the head of the queue
\* of w, or all of it.  Each one goes to the head of its run queue in turn.
LeaveQueue(w, woken, result) ==
    /\ waitq' = [waitq EXCEPT ![w] = SubSeq(@, Len(woken) + 1, Len(@))]
    /\ count' = [count EXCEPT ![w] = @ - Len(woken)]
    /\ bwq' = [t \in Threads |-> IF t \in ToSet(woken) THEN None ELSE bwq[t]]
    /\ ret' = [t \in Threads |-> IF t \in ToSet(woken) THEN result ELSE ret[t]]

MadeReady(st, woken) ==
    [t \in Threads |-> IF t \in ToSet(woken) THEN "ready" ELSE st[t]]

InsertAll(rq, woken) ==
    LET after[n \in 0 .. Len(woken)] ==
            IF n = 0 THEN rq ELSE InsertHead(after[n - 1], woken[n])
    IN after[Len(woken)]

\* With `reschedule` the current thread goes to the head of the run queue
\* before them, so that they run first, and continues at "signal".
Wake(w, woken, reschedule, result) ==
    /\ LeaveQueue(w, woken, result)
    /\ IF reschedule /\ woken # <<>>
         THEN /\ Resched(MadeReady([state EXCEPT ![current] = "ready"], woken),
                         InsertAll(InsertHead(runq, current), woken), quantum, csc + 1)
              /\ pc' = [pc EXCEPT ![current] = "signal"]
              /\ ints' = MaskAfterEnter(csc, ints)
         ELSE /\ state' = MadeReady(state, woken)
              /\ runq' = InsertAll(runq, woken)
              /\ Balanced
              /\ UNCHANGED pc
    /\ UNCHANGED <<prio, panicked>>

\* Mutant: the thread is not taken off the wait queue.
UnblockLinked(t, result) ==
    /\ count' = [count EXCEPT ![bwq[t]] = @ - 1]
    /\ bwq' = [bwq EXCEPT ![t] = None]
    /\ state' = [state EXCEPT ![t] = "ready"]
    /\ ret' = [ret EXCEPT ![t] = result]
    /\ runq' = InsertHead(runq, t)
    /\ Balanced
    /\ UNCHANGED <<prio, pc, panicked, waitq>>

\* thread_unblock_from_wait_queue(t, false, result) of a blocked thread.
Unblock(t, result) ==
    /\ waitq' = [waitq EXCEPT ![bwq[t]] = RemoveFirst(@, t)]
    /\ count' = [count EXCEPT ![bwq[t]] = @ - 1]
    /\ bwq' = [bwq EXCEPT ![t] = None]
    /\ state' = [state EXCEPT ![t] = "ready"]
    /\ ret' = [ret EXCEPT ![t] = result]
    /\ runq' = InsertHead(runq, t)
    /\ Balanced
    /\ UNCHANGED <<prio, pc, panicked>>
=============================================================================
