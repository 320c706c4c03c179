------------------------- MODULE KernelSectionsProofs -------------------------
(***************************************************************************)
(* That every path through a service leaves as many critical sections as   *)
(* it entered, whichever threads it switches between, and that no ASSERT   *)
(* of the kernel fails, as long as no thread waits with a timeout.         *)
(*                                                                         *)
(* KernelProofs shows that no thread leaves too many.  A thread that       *)
(* leaves too few would run its own code with interrupts masked or, once   *)
(* the count is above zero with interrupts on, be interrupted inside a     *)
(* section.  What a thread that is not current has entered is in the       *)
(* count saved for it, so the exact count of every one of them is part of  *)
(* the invariant, and so is what a thread that dies or sleeps leaves to    *)
(* the timer and the dpc thread.                                           *)
(***************************************************************************)
EXTENDS KernelProofs

\* The calls that wait with a timeout.
Timeouts == {"event_wait_timeout", "mutex_acquire_timeout"}

\* A thread that exists and has not exited.
Alive(t) == state[t] \notin {"death", "free"}

\* Each thread has entered as many sections as its routine leaves; only the current
\* one is in its own code; and the first section masks the interrupts.
Exact ==
    /\ \A t \in Threads : Alive(t) => Depth(t) = Held(t)
    /\ \A t \in Threads : Alive(t) /\ t # current => pc[t] \notin {"user", "block"}
    /\ \A t \in Threads : pc[t] = "block" => Alive(t)
    /\ ints <=> csc = 0
    /\ pc[Boot] = "preempt" => Begun
    /\ irq # "none" => pc[current] = "user"

\* A timer is one of a sleeping thread, and only a blocked thread has a wait queue.
Timers ==
    \A t \in Threads :
        /\ timer[t] \in {"none", "sleep"}
        /\ timer[t] = "sleep" => state[t] = "sleeping"
        /\ bwq[t] # None => state[t] = "blocked"

\* The threads queued for clean-up are dead, and each is queued once.
Dead ==
    /\ Distinct(dpcList)
    /\ \A t \in Threads : On(t, dpcList) => state[t] = "death"
    /\ dpcAt = "cleanup" => /\ dpcJob \in Apps
                            /\ state[dpcJob] = "death"
                            /\ ~ On(dpcJob, dpcList)

SectionsInv == ~ panicked /\ Exact /\ Timers /\ Dead

---------------------------------------------------------------------------
(* Steps by their kind *)

\* Who makes a call holds nothing but kmain's own section.
LEMMA CallersHold ==
    ASSUME QueueInv, SectionsInv, InUserCode
    PROVE  /\ csc = IF current = Boot /\ ~ Begun THEN 1 ELSE 0
           /\ csc \in Nat
           /\ ints <=> csc = 0
           /\ ints \in BOOLEAN
           /\ bwq[current] = None
           /\ timer[current] = "none"
           /\ ~ On(current, dpcList)
<1>1. irq = "none" /\ pc[current] = "user" /\ state[current] = "running" /\ current \in Threads
  BY UserCode
<1>2. Depth(current) = Held(current)
  BY <1>1 DEF SectionsInv, Exact, Alive
<1>3. QED
  BY <1>1, <1>2 DEF Depth, Held, SectionsInv, Exact, Timers, Dead, QueueInv, Sections, Rest

\* Threads asleep and dead stay so.
Undisturbed == \A t \in Threads : state[t] \in {"sleeping", "death"} => state'[t] = state[t]

\* A step that wakes no sleeper and moves nobody on or off a wait queue.
LEMMA TimersFrame ==
    ASSUME QueueInv, Lists', Timers, Undisturbed, UNCHANGED <<timer, waitq, bwq>>
    PROVE  Timers'
<1>1. \A t \in Threads : state'[t] = "blocked" <=> state[t] = "blocked"
  BY SameWaiters DEF QueueInv
<1>2. QED
  BY <1>1 DEF Timers, Undisturbed

\* A step that neither ends a thread nor touches the dpc thread's list.
LEMMA DeadFrame ==
    ASSUME QueueInv, Dead, Undisturbed, UNCHANGED dpcVars
    PROVE  Dead'
<1>1. \A t : On(t, dpcList) => t \in Apps
  BY DEF QueueInv, Rest, On
<1>2. UNCHANGED <<dpcAt, dpcList, dpcJob>> /\ Apps \subseteq Threads
  BY DEF dpcVars, Threads
<1>3. QED
  BY <1>1, <1>2 DEF Dead, Undisturbed

\* A step that neither switches nor enters or leaves a section.
LEMMA QuietExact ==
    ASSUME Exact, UNCHANGED <<current, csc, saved, ints, pc>>,
           irq = "none" <=> irq' = "none",
           Begun <=> Begun',
           \A t \in Threads : Alive(t)' <=> Alive(t)
    PROVE  Exact'
<1>1. \A t \in Threads : Depth(t)' = Depth(t) /\ Held(t)' = Held(t)
  BY DEF Depth, Held, ExitsOf
<1>2. QED
  BY <1>1 DEF Exact

\* A switch, after which the thread left continues at `at` with the count c.
LEMMA SwitchExact ==
    ASSUME QueueInv, SectionsInv, Kept,
           NEW st \in [Threads -> States], NEW rq, NEW qt, NEW c \in Nat, c # 0,
           Resched(st, rq, qt, c),
           NEW at \in PCs \ {"block"}, pc' = [pc EXCEPT ![current] = at],
           irq' = "none", ints' = FALSE,
           Begun => Begun',
           current = Boot \/ (Begun <=> Begun'),
           current = Boot /\ at = "preempt" => Begun',
           st[current] \notin {"death", "free"} =>
              /\ c = ExitsOf(at) + IF current = Boot /\ ~ Begun' THEN 1 ELSE 0
              /\ at \notin {"user", "block"},
           st[current] \in {"death", "free"} => current' # current,
           \A t \in Threads : t # current /\ st[t] \notin {"death", "free"} => Alive(t)
    PROVE  Exact'
<1>1. /\ state' = [st EXCEPT ![current'] = "running"]
      /\ csc' = IF current' = current THEN c ELSE saved[current']
      /\ saved' = IF current' = current THEN saved ELSE [saved EXCEPT ![current] = c]
  BY DEF Resched
<1>2. /\ current \in Threads /\ current' \in Threads
      /\ pc \in [Threads -> PCs] /\ saved \in [Threads -> Nat]
      /\ current' # current => Alive(current')
  BY DEF QueueInv, Lists, Sections, Kept, Alive
<1>3. \A t \in Threads : Alive(t)' => t = current \/ Alive(t)
  BY <1>1, <1>2 DEF Alive
<1>4. ASSUME NEW t \in Threads, t # current, Alive(t)'
      PROVE  /\ Depth(t)' = Held(t)'
             /\ pc'[t] = pc[t] /\ pc[t] \notin {"user", "block"}
             /\ saved[t] = Held(t)' /\ Held(t)' >= 1
  <2>1. Alive(t) /\ pc'[t] = pc[t] /\ pc[t] \notin {"user", "block"}
    BY <1>2, <1>3, <1>4 DEF SectionsInv, Exact
  <2>2. Depth(t) = saved[t] /\ Depth(t) = Held(t)
    BY <1>4, <2>1 DEF Depth, SectionsInv, Exact
  <2>3. Depth(t)' = saved[t]
    BY <1>1, <1>2, <1>4 DEF Depth
  <2>4. Held(t)' = Held(t)
    BY <1>4, <2>1 DEF Held, ExitsOf
  <2>5. Held(t) >= 1
    BY <1>4, <2>1 DEF Held, ExitsOf
  <2>6. QED BY <2>1, <2>2, <2>3, <2>4, <2>5
<1>5. ASSUME NEW t \in Threads, t = current, Alive(t)'
      PROVE  /\ at \notin {"user", "block"}
             /\ Held(t)' = c
             /\ Depth(t)' = c
             /\ pc'[t] = at
  <2>1. st[t] \notin {"death", "free"}
    BY <1>1, <1>2, <1>5 DEF Alive
  <2>2. pc'[t] = at
    BY <1>2, <1>5
  <2>3. at \notin {"user", "block"} /\ c = ExitsOf(at) + IF t = Boot /\ ~ Begun' THEN 1 ELSE 0
    BY <1>5, <2>1
  <2>4. Held(t)' = ExitsOf(at) + IF t = Boot /\ ~ Begun' THEN 1 ELSE 0
    BY <2>2, <2>3 DEF Held, ExitsOf
  <2>5. Depth(t)' = c
    BY <1>1, <1>2, <1>5 DEF Depth
  <2>6. QED BY <2>2, <2>3, <2>4, <2>5
<1>6. \A t \in Threads : Alive(t)' => Depth(t)' = Held(t)' /\ Held(t)' >= 1
  <2> SUFFICES ASSUME NEW t \in Threads, Alive(t)' PROVE Depth(t)' = Held(t)' /\ Held(t)' >= 1
    OBVIOUS
  <2>1. CASE t # current
    BY <1>4, <2>1
  <2>2. CASE t = current
    BY <1>5, <2>2
  <2>3. QED BY <2>1, <2>2
<1>7. \A t \in Threads : Alive(t)' => pc'[t] \notin {"user", "block"}
  BY <1>4, <1>5
<1>8. csc' # 0
  <2>1. PICK n \in Threads : n = current'
    BY <1>2
  <2>2. Alive(n)'
    BY <1>1, <1>2, <2>1 DEF Alive
  <2>3. Depth(n)' = csc'
    BY <2>1 DEF Depth
  <2>4. QED BY <1>6, <2>1, <2>2, <2>3
<1>9. pc'[Boot] = "preempt" => Begun'
  BY <1>2 DEF SectionsInv, Exact, Threads
<1>10. \A t \in Threads : pc'[t] # "block"
  BY <1>2 DEF SectionsInv, Exact
<1>11. QED
  BY <1>6, <1>7, <1>8, <1>9, <1>10 DEF Exact

\* thread_yield, of a thread that had entered c - 1 more sections in its routine.
LEMMA YieldSections ==
    ASSUME QueueInv, SectionsInv, Kept, InUserCode,
           UNCHANGED <<timer, irq, dpcVars>>, Begun <=> Begun',
           NEW st \in [Threads -> States], NEW rq, NEW c,
           \A t \in Threads : st[t] = state[t] \/ (state[t] = "suspended" /\ st[t] = "ready"),
           \/ c = csc /\ YieldAt(st, rq, c, "yield")
           \/ c = csc + 1 /\ YieldAt(st, rq, c, "resume")
    PROVE  SectionsInv'
<1>1. PICK at \in {"yield", "resume"} : YieldAt(st, rq, c, at) /\ c + 1 = csc + ExitsOf(at)
  BY CallersHold DEF ExitsOf
<1> DEFINE s2 == [st EXCEPT ![current] = "ready"]
           r2 == InsertTail(rq, current)
           q2 == [quantum EXCEPT ![current] = 0]
<1>2. /\ Resched(s2, r2, q2, c + 1)
      /\ pc' = [pc EXCEPT ![current] = at]
      /\ ints' = MaskAfterEnter(csc, ints)
      /\ UNCHANGED <<waitq, bwq, panicked>>
  BY <1>1 DEF YieldAt, queueVars
<1>3. /\ state[current] = "running" /\ current \in Threads /\ irq' = "none" /\ pc[current] = "user"
      /\ csc = IF current = Boot /\ ~ Begun THEN 1 ELSE 0
      /\ ints <=> csc = 0
      /\ ints \in BOOLEAN
  BY UserCode, CallersHold
<1>4. /\ s2 \in [Threads -> States]
      /\ \A t \in Threads : s2[t] = IF t = current THEN "ready" ELSE st[t]
  BY <1>3 DEF States
<1>5. ints' = FALSE
  BY <1>2, <1>3 DEF MaskAfterEnter
<1>6. c + 1 \in Nat /\ c + 1 # 0 /\ c + 1 = ExitsOf(at) + IF current = Boot /\ ~ Begun THEN 1 ELSE 0
  BY <1>1, <1>3 DEF ExitsOf
<1> HIDE DEF s2, r2, q2
<1>7. state' = [s2 EXCEPT ![current'] = "running"]
  BY <1>2 DEF Resched
<1>8. Undisturbed
  <2>1. current' = current \/ state[current'] \in {"ready", "blocked", "suspended"}
    BY DEF Kept
  <2>2. QED BY <1>3, <1>4, <1>7, <2>1 DEF Undisturbed
<1>9. Exact'
  <2>1. /\ \A t \in Threads : t # current /\ s2[t] \notin {"death", "free"} => Alive(t)
        /\ s2[current] = "ready" /\ at \in PCs /\ at \notin {"user", "block", "preempt"}
    BY <1>3, <1>4 DEF Alive, PCs
  <2>2. QED
    BY <1>2, <1>3, <1>4, <1>5, <1>6, <2>1, SwitchExact
<1>10. Timers' /\ Dead'
  BY <1>2, <1>8, TimersFrame, DeadFrame DEF SectionsInv, Kept
<1>11. QED
  BY <1>2, <1>9, <1>10 DEF SectionsInv

---------------------------------------------------------------------------
(* The thread calls and kmain *)

\* thread_resume, by a thread or by kmain: a suspended thread has no section but the one
\* thread_create saved for it, which the first return leaves.
LEMMA ResumeSections ==
    ASSUME QueueInv, SectionsInv, Kept, InUserCode, NEW t \in Threads, state[t] = "suspended",
           ResumeThread(t), Begun <=> Begun'
    PROVE  SectionsInv'
<1> DEFINE st == [state EXCEPT ![t] = "ready"]
           rq == InsertHead(runq, t)
<1>1. YieldAt(st, rq, csc + 1, "resume") /\ UNCHANGED <<timer, irq, dpcVars>>
  BY DEF ResumeThread
<1>2. /\ st \in [Threads -> States]
      /\ \A u \in Threads : st[u] = state[u] \/ (state[u] = "suspended" /\ st[u] = "ready")
  BY DEF QueueInv, Lists, States
<1> HIDE DEF st, rq
<1>3. QED
  BY <1>1, <1>2, YieldSections

\* The calls that end in thread_yield.
LEMMA YieldingSections ==
    ASSUME QueueInv, SectionsInv, Kept,
           \/ KmainDpcInit \/ \E t \in InitialApps : KmainResume(t)
           \/ ThreadYield \/ \E t \in Apps : ThreadResume(t)
    PROVE  SectionsInv'
<1>1. CASE KmainDpcInit
  <2>1. state[Dpc] = "suspended" /\ Dpc \in Threads /\ (Begun <=> Begun')
    BY <1>1 DEF KmainDpcInit, Begun, QueueInv, Lists, Threads
  <2>2. QED BY <1>1, <2>1, ResumeSections DEF KmainDpcInit
<1>2. ASSUME NEW t \in InitialApps, KmainResume(t) PROVE SectionsInv'
  <2>1. t \in Threads /\ (Begun <=> Begun')
    BY <1>2, KernelAssumption DEF KmainResume, Begun, Threads
  <2>2. QED BY <1>2, <2>1, ResumeSections DEF KmainResume
<1>3. CASE ThreadYield
  <2>1. /\ InUserCode /\ YieldAt(state, runq, csc, "yield")
        /\ UNCHANGED <<timer, irq, dpcVars>> /\ (Begun <=> Begun')
        /\ state \in [Threads -> States]
    BY <1>3 DEF ThreadYield, AppCalls, Begun, QueueInv, Lists
  <2>2. QED BY <2>1, YieldSections
<1>4. ASSUME NEW t \in Apps, ThreadResume(t) PROVE SectionsInv'
  <2>1. t \in Threads /\ (Begun <=> Begun') /\ InUserCode
    BY <1>4 DEF ThreadResume, AppCalls, Begun, Threads
  <2>2. QED BY <1>4, <2>1, ResumeSections DEF ThreadResume
<1>5. QED BY <1>1, <1>2, <1>3, <1>4

\* thread_become_idle
LEMMA IdleSections == ASSUME QueueInv, SectionsInv, Kept, KmainBecomeIdle PROVE SectionsInv'
<1> DEFINE st == [state EXCEPT ![Boot] = "ready"]
           rq == [queue  |-> [runq.queue EXCEPT ![IdlePriority] = Append(@, Boot)],
                  bitmap |-> runq.bitmap \cup {IdlePriority}]
           qt == [quantum EXCEPT ![Boot] = 0]
<1>1. /\ InUserCode /\ current = Boot /\ stage = "idle" /\ stage' = "done"
      /\ Resched(st, rq, qt, csc + 1)
      /\ pc' = [pc EXCEPT ![Boot] = "yield"]
      /\ ints' = MaskAfterEnter(csc, ints)
      /\ UNCHANGED <<waitq, bwq, panicked, timer, irq, dpcVars>>
  BY DEF KmainBecomeIdle, queueVars
<1>2. /\ state[current] = "running" /\ irq' = "none" /\ Begun /\ Begun'
      /\ csc = 0 /\ ints' = FALSE
      /\ st \in [Threads -> States]
      /\ \A t \in Threads : st[t] = IF t = current THEN "ready" ELSE state[t]
  BY <1>1, UserCode, CallersHold DEF Begun, MaskAfterEnter, QueueInv, Lists, States
<1> HIDE DEF st, rq, qt
<1>3. state' = [st EXCEPT ![current'] = "running"]
  BY <1>1 DEF Resched
<1>4. Undisturbed
  <2>1. current' = current \/ state[current'] \in {"ready", "blocked", "suspended"}
    BY DEF Kept
  <2>2. QED BY <1>2, <1>3, <2>1 DEF Undisturbed
<1>5. Exact'
  <2>1. /\ \A t \in Threads : t # current /\ st[t] \notin {"death", "free"} => Alive(t)
        /\ st[current] = "ready" /\ "yield" \in PCs
        /\ csc + 1 \in Nat /\ csc + 1 # 0
        /\ csc + 1 = ExitsOf("yield") + IF current = Boot /\ ~ Begun' THEN 1 ELSE 0
        /\ pc' = [pc EXCEPT ![current] = "yield"]
    BY <1>1, <1>2 DEF Alive, PCs, ExitsOf, Threads
  <2>2. Resched(st, rq, qt, csc + 1)
    BY <1>1
  <2>3. QED
    BY <1>2, <2>1, <2>2, SwitchExact
<1>6. Timers' /\ Dead'
  BY <1>1, <1>4, TimersFrame, DeadFrame DEF SectionsInv, Kept
<1>7. QED
  BY <1>1, <1>5, <1>6 DEF SectionsInv

\* The end of kmain's critical section.
LEMMA EnableSections == ASSUME QueueInv, SectionsInv, Kept, KmainEnable PROVE SectionsInv'
<1>1. /\ InUserCode /\ current = Boot /\ stage = "enable" /\ stage' = "idle"
      /\ csc' = csc - 1
      /\ ints' = MaskAfterExit(csc - 1, ints)
      /\ UNCHANGED <<state, current, saved, waitq, bwq, pc, panicked, timer, irq, dpcVars>>
  BY DEF KmainEnable, queueVars
<1>2. ~ Begun /\ Begun' /\ csc = 1 /\ csc' = 0 /\ ints' = TRUE /\ irq = "none"
  <2>1. ~ Begun /\ Begun'
    BY <1>1 DEF Begun
  <2>2. InUserCode /\ current = Boot
    BY <1>1
  <2>3. csc = (IF current = Boot /\ ~ Begun THEN 1 ELSE 0) /\ irq = "none"
    BY <2>2, UserCode, CallersHold
  <2>4. csc = 1
    BY <2>1, <2>2, <2>3
  <2>5. csc - 1 = 0
    BY <2>4
  <2>6. ints' = TRUE
    BY <1>1, <2>5, Zenon DEF MaskAfterExit
  <2>7. QED BY <1>1, <2>1, <2>3, <2>4, <2>6
<1>3. Exact'
  <2>1. ASSUME NEW t \in Threads, Alive(t)' PROVE Depth(t)' = Held(t)'
    <3>1. Alive(t) /\ Depth(t) = Held(t)
      BY <1>1, <2>1 DEF Alive, SectionsInv, Exact
    <3>2. CASE t = Boot
      <4>1. pc[t] = "user"
        BY <1>1, <3>2, UserCode
      <4>2. QED BY <1>1, <1>2, <3>2, <4>1 DEF Depth, Held
    <3>3. CASE t # Boot
      BY <1>1, <1>2, <3>1, <3>3 DEF Depth, Held, ExitsOf
    <3>4. QED BY <3>2, <3>3
  <2>2. QED BY <1>1, <1>2, <2>1 DEF SectionsInv, Exact, Alive
<1>4. Undisturbed
  BY <1>1 DEF Undisturbed
<1>5. QED
  BY <1>1, <1>3, <1>4, TimersFrame, DeadFrame DEF SectionsInv, Kept

\* thread_sleep: who sleeps is off the CPU with a timer of its own.
LEMMA SleepSections ==
    ASSUME QueueInv, SectionsInv, Kept, current' # current, ThreadSleep PROVE SectionsInv'
<1> DEFINE st == [state EXCEPT ![current] = "sleeping"]
<1>1. /\ InUserCode /\ current \in Apps
      /\ timer' = [timer EXCEPT ![current] = "sleep"]
      /\ Resched(st, runq, quantum, csc + 1)
      /\ pc' = [pc EXCEPT ![current] = "sleep"]
      /\ ints' = MaskAfterEnter(csc, ints)
      /\ UNCHANGED <<waitq, bwq, panicked, irq, stage, dpcVars>>
  BY DEF ThreadSleep, AppCalls, queueVars
<1>2. /\ state[current] = "running" /\ irq' = "none" /\ (Begun <=> Begun')
      /\ current # Boot /\ current \in Threads
      /\ csc = 0 /\ ints' = FALSE
      /\ st \in [Threads -> States]
      /\ \A t \in Threads : st[t] = IF t = current THEN "sleeping" ELSE state[t]
  BY <1>1, UserCode, CallersHold DEF Begun, MaskAfterEnter, QueueInv, Lists, States
<1> HIDE DEF st
<1>3. state' = [st EXCEPT ![current'] = "running"]
  BY <1>1 DEF Resched
<1>4. Undisturbed
  <2>1. state[current'] \in {"ready", "blocked", "suspended"}
    BY DEF Kept
  <2>2. QED BY <1>2, <1>3, <2>1 DEF Undisturbed
<1>5. Exact'
  <2>1. /\ \A t \in Threads : t # current /\ st[t] \notin {"death", "free"} => Alive(t)
        /\ st[current] = "sleeping" /\ "sleep" \in PCs
        /\ csc + 1 \in Nat /\ csc + 1 # 0
        /\ csc + 1 = ExitsOf("sleep") + IF current = Boot /\ ~ Begun' THEN 1 ELSE 0
    BY <1>1, <1>2 DEF Alive, PCs, ExitsOf
  <2>2. QED
    BY <1>1, <1>2, <2>1, SwitchExact
<1>6. Timers'
  <2>1. \A t \in Threads : state'[t] = "blocked" <=> state[t] = "blocked"
    BY <1>1, SameWaiters DEF QueueInv, Kept
  <2>2. state'[current] = "sleeping"
    BY <1>2, <1>3
  <2>3. timer \in [Threads -> {"none", "sleep", "timeout"}]
    BY DEF QueueInv, Rest
  <2>4. QED
    BY <1>1, <1>4, <2>1, <2>2, <2>3 DEF SectionsInv, Timers, Undisturbed
<1>7. QED
  BY <1>1, <1>4, <1>5, <1>6, DeadFrame DEF SectionsInv

\* thread_block, of the second half of a wait.
LEMMA BlockSections ==
    ASSUME QueueInv, SectionsInv, Kept, current' # current, ThreadBlock PROVE SectionsInv'
<1> DEFINE op == call[current].op
<1>1. /\ pc[current] = "block" /\ irq = "none" /\ state[current] = "blocked"
      /\ Resched(state, runq, quantum, csc + 1)
      /\ pc' = [pc EXCEPT ![current] = op]
      /\ ints' = MaskAfterEnter(csc, ints)
      /\ UNCHANGED <<waitq, bwq, panicked, timer, irq, stage, dpcVars>>
  BY DEF ThreadBlock, queueVars
<1>2. /\ current \in Threads /\ state \in [Threads -> States] /\ (Begun <=> Begun')
      /\ op \in WaitOps
      /\ state[Boot] \in {"running", "ready"}
  BY <1>1 DEF QueueInv, Lists, Rest, Begun
<1> HIDE DEF op
<1>3. op \in PCs /\ op \notin {"user", "block", "preempt"} /\ ExitsOf(op) = 2 /\ current # Boot
  BY <1>1, <1>2 DEF WaitOps, PCs, ExitsOf
<1>4. csc = 1 /\ ints' = FALSE
  <2>1. Depth(current) = Held(current)
    BY <1>1, <1>2 DEF SectionsInv, Exact, Alive
  <2>2. QED BY <1>1, <1>3, <2>1 DEF Depth, Held, SectionsInv, Exact, MaskAfterEnter, QueueInv, Rest
<1>5. state' = [state EXCEPT ![current'] = "running"]
  BY <1>1 DEF Resched
<1>6. Undisturbed
  <2>1. state[current'] \in {"ready", "blocked", "suspended"}
    BY DEF Kept
  <2>2. QED BY <1>2, <1>5, <2>1 DEF Undisturbed
<1>7. Exact'
  <2>1. /\ \A t \in Threads : t # current /\ state[t] \notin {"death", "free"} => Alive(t)
        /\ csc + 1 \in Nat /\ csc + 1 # 0
        /\ csc + 1 = ExitsOf(op) + IF current = Boot /\ ~ Begun' THEN 1 ELSE 0
    BY <1>1, <1>3, <1>4 DEF Alive
  <2>2. QED
    BY <1>1, <1>2, <1>3, <1>4, <2>1, SwitchExact
<1>8. QED
  BY <1>1, <1>6, <1>7, TimersFrame, DeadFrame DEF SectionsInv, Kept

\* thread_exit
LEMMA ExitSections ==
    ASSUME QueueInv, SectionsInv, Kept, ThreadExit PROVE SectionsInv'
<1> DEFINE woken == IF signalled[DpcEvent] THEN <<>> ELSE waitq[DpcEvent]
           s1 == [state EXCEPT ![current] = "death"]
           s2 == MadeReady(s1, woken)
           r2 == InsertAll(runq, woken)
<1>1. /\ InUserCode /\ current \in Apps
      /\ dpcList' = Append(dpcList, current)
      /\ LeaveQueue(DpcEvent, woken, "ok")
      /\ Resched(s2, r2, quantum, csc + 1)
      /\ ints' = MaskAfterEnter(csc, ints)
      /\ UNCHANGED <<pc, panicked, timer, irq, stage, dpcAt, dpcJob>>
  BY DEF ThreadExit, AppCalls
<1>2. /\ state[current] = "running" /\ irq' = "none" /\ (Begun <=> Begun')
      /\ current # Boot /\ current \in Threads /\ pc[current] = "user"
      /\ csc = 0 /\ ints' = FALSE /\ ~ On(current, dpcList) /\ bwq[current] = None
      /\ state \in [Threads -> States]
      /\ pc \in [Threads -> PCs]
  BY <1>1, UserCode, CallersHold DEF Begun, MaskAfterEnter, QueueInv, Lists
<1>3. /\ \A t \in Threads : On(t, woken) => state[t] = "blocked" /\ bwq[t] = DpcEvent
      /\ \A t \in Threads : On(t, woken) <=> t \in ToSet(woken)
      /\ \A t \in Threads : bwq'[t] = IF On(t, woken) THEN None ELSE bwq[t]
  <2>1. Lists /\ waitq \in [Objects -> Seq(Threads)] /\ DpcEvent \in Objects /\ "ok" \in Results
    BY ThreadsAssumption DEF QueueInv, Lists, WaitQueues, Objects, Results
  <2>2. woken \in {<<>>, FirstOf(DpcEvent), waitq[DpcEvent]}
    OBVIOUS
  <2> HIDE DEF woken
  <2>3. Prefix(woken, waitq[DpcEvent])
    BY <2>1, <2>2, PrefixesWoken
  <2>4. QED BY <1>1, <2>1, <2>3, LeaveQueueKeeps
<1> HIDE DEF woken
<1>4. \A t \in Threads :
          s2[t] = IF On(t, woken) THEN "ready" ELSE IF t = current THEN "death" ELSE state[t]
  BY <1>2, <1>3 DEF MadeReady
<1>5. s2 \in [Threads -> States]
  BY <1>2 DEF MadeReady, States
<1> HIDE DEF s1, s2, r2
<1>6. state' = [s2 EXCEPT ![current'] = "running"]
  BY <1>1 DEF Resched
<1>7. /\ state[current'] \in {"ready", "blocked", "suspended"}
      /\ current' \in Threads /\ current' # current
  BY ThreadExitKeeps DEF Kept, Lists
<1>8. \A t \in Threads : state'[t] = IF t = current' THEN "running" ELSE s2[t]
  BY <1>5, <1>6
<1>9. Undisturbed
  BY <1>2, <1>3, <1>4, <1>7, <1>8 DEF Undisturbed
<1>10. Exact'
  <2>1. /\ \A t \in Threads : t # current /\ s2[t] \notin {"death", "free"} => Alive(t)
        /\ s2[current] = "death"
    BY <1>2, <1>3, <1>4 DEF Alive
  <2>2. pc' = [pc EXCEPT ![current] = "user"] /\ "user" \in PCs
    BY <1>1, <1>2 DEF PCs
  <2>3. csc + 1 \in Nat /\ csc + 1 # 0
    BY <1>2
  <2>4. Resched(s2, r2, quantum, csc + 1)
    BY <1>1
  <2>5. QED
    BY <1>2, <1>5, <1>7, <2>1, <2>2, <2>3, <2>4, SwitchExact
<1>11. Timers'
  <2>1. \A t \in Threads : state[t] = "blocked" /\ bwq'[t] # None => state'[t] = "blocked"
    BY ThreadExitKeeps
  <2>2. \A t \in Threads : bwq'[t] # None => bwq[t] # None
    BY <1>3
  <2>3. QED BY <1>1, <1>9, <2>1, <2>2 DEF SectionsInv, Timers, Undisturbed
<1>12. Dead'
  <2>1. /\ dpcList \in Seq(Threads) /\ Distinct(dpcList)
        /\ \A t \in Threads : On(t, dpcList) => state[t] = "death"
    BY DEF QueueInv, Rest, Threads, SectionsInv, Dead
  <2>2. /\ Distinct(dpcList')
        /\ \A t : On(t, dpcList') <=> t = current \/ On(t, dpcList)
    BY <1>1, <1>2, <2>1, AppendFacts
  <2>3. state'[current] = "death"
    BY <1>2, <1>3, <1>4, <1>8, ThreadExitKeeps
  <2>4. dpcAt = "cleanup" => dpcJob \in Threads /\ dpcJob # current
    BY <1>2 DEF SectionsInv, Dead, Threads
  <2>5. QED
    BY <1>1, <1>9, <2>1, <2>2, <2>3, <2>4 DEF SectionsInv, Dead, Undisturbed
<1>13. QED BY <1>1, <1>10, <1>11, <1>12 DEF SectionsInv

---------------------------------------------------------------------------
(* Waits and wake-ups *)

\* The wait queues, and who is blocked, after the threads of `woken` have left theirs.
LEMMA WokenTimers ==
    ASSUME QueueInv, Timers, UNCHANGED timer,
           NEW w \in Objects, NEW woken, Prefix(woken, waitq[w]),
           NEW result \in Results, LeaveQueue(w, woken, result), WakesOnly(woken)
    PROVE  Timers' /\ Undisturbed
<1>1. \A t \in Threads : bwq'[t] = IF On(t, woken) THEN None ELSE bwq[t]
  BY LeaveQueueKeeps DEF QueueInv
<1>2. Undisturbed
  BY DEF WakesOnly, Undisturbed
<1>3. QED
  BY <1>1, <1>2 DEF Timers, WakesOnly, Undisturbed

\* A wake-up, from a thread, which may be switched away from, or from an interrupt, which
\* only asks to reschedule.
LEMMA WakeSections ==
    ASSUME QueueInv, SectionsInv, Kept, UNCHANGED <<timer, dpcVars>>,
           Begun <=> Begun',
           NEW w \in Objects, NEW woken, Prefix(woken, waitq[w]), NEW reschedule \in BOOLEAN,
           reschedule => InUserCode /\ UNCHANGED irq,
           ~ reschedule => (irq = "none" <=> irq' = "none"),
           NEW result \in Results, Wake(w, woken, reschedule, result), WakesOnly(woken)
    PROVE  SectionsInv'
<1>1. /\ LeaveQueue(w, woken, result)
      /\ UNCHANGED panicked
  BY DEF Wake
<1>2. Timers' /\ Undisturbed
  BY <1>1, WokenTimers DEF SectionsInv
<1>3. Dead'
  BY <1>2, DeadFrame DEF SectionsInv
<1>4. \A t \in Threads : On(t, woken) => state[t] = "blocked"
  BY <1>1, LeaveQueueKeeps DEF QueueInv
<1>5. \A t \in Threads : On(t, woken) <=> t \in ToSet(woken)
  BY <1>1, LeaveQueueKeeps DEF QueueInv
<1>6. CASE reschedule /\ woken # <<>>
  <2> DEFINE s1 == [state EXCEPT ![current] = "ready"]
             r1 == InsertHead(runq, current)
             s2 == MadeReady(s1, woken)
             r2 == InsertAll(r1, woken)
  <2>1. /\ Resched(s2, r2, quantum, csc + 1)
        /\ pc' = [pc EXCEPT ![current] = "signal"]
        /\ ints' = MaskAfterEnter(csc, ints)
    BY <1>6 DEF Wake
  <2>2. /\ state[current] = "running" /\ irq' = "none" /\ current \in Threads
        /\ csc = IF current = Boot /\ ~ Begun THEN 1 ELSE 0
        /\ ints' = FALSE
        /\ state \in [Threads -> States]
    BY <1>6, <2>1, UserCode, CallersHold DEF MaskAfterEnter, QueueInv, Lists
  <2>3. \A t \in Threads : s1[t] = IF t = current THEN "ready" ELSE state[t]
    BY <2>2
  <2> HIDE DEF s1, r1
  <2>4. \A t \in Threads : s2[t] = IF On(t, woken) \/ t = current THEN "ready" ELSE state[t]
    BY <1>5, <2>3 DEF MadeReady
  <2>5. s2 \in [Threads -> States]
    BY <2>2, <2>3 DEF MadeReady, States
  <2> HIDE DEF s2, r2
  <2>6. /\ \A t \in Threads : t # current /\ s2[t] \notin {"death", "free"} => Alive(t)
        /\ s2[current] = "ready" /\ "signal" \in PCs
    BY <1>4, <2>2, <2>4 DEF Alive, PCs
  <2>7. /\ csc + 1 \in Nat /\ csc + 1 # 0
        /\ csc + 1 = ExitsOf("signal") + IF current = Boot /\ ~ Begun' THEN 1 ELSE 0
    BY <2>2 DEF ExitsOf
  <2>8. Exact'
    BY <2>1, <2>2, <2>5, <2>6, <2>7, SwitchExact
  <2>9. QED BY <1>1, <1>2, <1>3, <2>8 DEF SectionsInv
<1>7. CASE ~ (reschedule /\ woken # <<>>)
  <2>1. /\ state' = MadeReady(state, woken)
        /\ UNCHANGED <<csc, saved, ints, current, pc>>
    BY <1>7 DEF Wake, Balanced
  <2>2. \A t \in Threads : Alive(t)' <=> Alive(t)
    BY <1>4, <1>5, <2>1 DEF Alive, MadeReady
  <2>3. irq = "none" <=> irq' = "none"
    OBVIOUS
  <2>4. Exact'
    BY <2>1, <2>2, <2>3, QuietExact DEF SectionsInv
  <2>5. QED BY <1>1, <1>2, <1>3, <2>4 DEF SectionsInv
<1>8. QED BY <1>6, <1>7

\* event_signal, with and without rescheduling.
LEMMA SignalSections ==
    ASSUME QueueInv, SectionsInv, Kept, UNCHANGED <<timer, dpcVars, stage>>,
           NEW e \in Events, NEW reschedule \in BOOLEAN, SignalEvent(e, reschedule),
           reschedule => InUserCode /\ current # Boot /\ UNCHANGED irq,
           ~ reschedule => (irq = "none" <=> irq' = "none")
    PROVE  SectionsInv'
<1>1. /\ (Begun <=> Begun') /\ e \in Objects /\ "ok" \in Results /\ (irq = "none" <=> irq' = "none")
      /\ irq' # "none" => irq # "none"
      /\ reschedule => state[current] = "running" /\ irq' = "none"
  BY UserCode DEF Begun, Objects, Results
<1>2. CASE UNCHANGED <<schedVars, signalled>>
  <2>1. UNCHANGED <<state, current, csc, saved, ints, pc, waitq, bwq, panicked>>
    BY <1>2 DEF schedVars, queueVars
  <2>2. Undisturbed /\ \A t \in Threads : Alive(t)' <=> Alive(t)
    BY <2>1 DEF Undisturbed, Alive
  <2>3. QED
    BY <1>1, <2>1, <2>2, QuietExact, TimersFrame, DeadFrame DEF SectionsInv, Kept
<1>3. ASSUME NEW woken, Prefix(woken, waitq[e]), Wake(e, woken, reschedule, "ok"), WakesOnly(woken)
      PROVE  SectionsInv'
  BY <1>1, <1>3, WakeSections
<1>4. QED
  BY <1>1, <1>2, <1>3, SignalEventKeeps

\* The calls that wake, and the interrupt handler that signals an event.
LEMMA WakingSections ==
    ASSUME QueueInv, SectionsInv, Kept,
           \/ \E e \in Events \ {DpcEvent}, b \in BOOLEAN : EventSignal(e, b)
           \/ \E m \in Mutexes : MutexRelease(m)
           \/ \E w \in Objects \ {DpcEvent} : Destroy(w)
           \/ \E e \in IrqEvents : DeviceSignals(e)
    PROVE  SectionsInv'
<1>1. ASSUME NEW e \in Events, NEW b \in BOOLEAN, EventSignal(e, b) PROVE SectionsInv'
  <2>1. /\ InUserCode /\ current \in Apps /\ UNCHANGED <<irq, stage, timer, dpcVars>>
        /\ SignalEvent(e, b)
    BY <1>1 DEF EventSignal, AppCalls
  <2>2. QED BY <2>1, UserCode, SignalSections
<1>2. ASSUME NEW w \in Objects, NEW woken \in {<<>>, FirstOf(w), waitq[w]}, NEW result \in Results,
             InUserCode, current \in Apps, UNCHANGED <<irq, stage, timer, dpcVars>>,
             Wake(w, woken, TRUE, result)
      PROVE  SectionsInv'
  <2>1. Prefix(woken, waitq[w]) /\ WakesOnly(woken)
    BY <1>2, WakeWithin
  <2>2. Begun <=> Begun'
    BY <1>2 DEF Begun
  <2>3. QED BY <1>2, <2>1, <2>2, WakeSections
<1>3. ASSUME NEW m \in Mutexes, MutexRelease(m) PROVE SectionsInv'
  <2> DEFINE woken == IF mcount[m] - 1 >= 1 THEN FirstOf(m) ELSE <<>>
  <2>1. /\ InUserCode /\ current \in Apps /\ UNCHANGED <<irq, stage, timer, dpcVars>>
        /\ Wake(m, woken, TRUE, "ok")
        /\ m \in Objects /\ woken \in {<<>>, FirstOf(m), waitq[m]} /\ "ok" \in Results
    BY <1>3 DEF MutexRelease, AppCalls, Objects, Results
  <2> HIDE DEF woken
  <2>2. QED BY <1>2, <2>1
<1>4. ASSUME NEW w \in Objects, Destroy(w) PROVE SectionsInv'
  <2>1. /\ InUserCode /\ current \in Apps /\ UNCHANGED <<irq, stage, timer, dpcVars>>
        /\ Wake(w, waitq[w], TRUE, "destroyed")
        /\ "destroyed" \in Results
    BY <1>4 DEF Destroy, AppCalls, Results
  <2>2. QED BY <1>2, <2>1
<1>5. ASSUME NEW e \in IrqEvents, DeviceSignals(e) PROVE SectionsInv'
  <2>1. /\ irq = "device" /\ irq' = "exit" /\ UNCHANGED <<stage, timer, dpcVars>> /\ e \in Events
        /\ SignalEvent(e, FALSE)
    BY <1>5, KernelAssumption DEF DeviceSignals
  <2>2. QED BY <2>1, SignalSections
<1>6. QED BY <1>1, <1>3, <1>4, <1>5

\* The first half of a wait: the thread is in the queue, its section entered by the
\* routine it blocks in.
LEMMA BlockOnSections ==
    ASSUME QueueInv, SectionsInv, InUserCode, current # Boot, NEW w \in Objects, NEW op,
           BlockOn(w, op, FALSE), UNCHANGED <<irq, stage>>, Dead'
    PROVE  SectionsInv'
<1>1. /\ UNCHANGED <<current, saved, panicked, timer>>
      /\ bwq' = [bwq EXCEPT ![current] = w]
      /\ pc' = [pc EXCEPT ![current] = "block"]
      /\ csc' = csc + 1
      /\ ints' = MaskAfterEnter(csc, ints)
  BY DEF BlockOn, Enqueue
<1>2. /\ irq = "none" /\ pc[current] = "user" /\ state[current] = "running" /\ current \in Threads
      /\ csc = 0 /\ ints' = FALSE /\ timer[current] = "none"
      /\ bwq \in [Threads -> Objects \cup {None}]
      /\ pc \in [Threads -> PCs]
  BY <1>1, UserCode, CallersHold DEF MaskAfterEnter, QueueInv, Lists
<1>3. \A t \in Threads : state'[t] = IF t = current THEN "blocked" ELSE state[t]
  BY BlockOnKeeps
<1>4. Exact'
  <2>1. ASSUME NEW t \in Threads, Alive(t)' PROVE Depth(t)' = Held(t)'
    <3>1. CASE t = current
      BY <1>1, <1>2, <3>1 DEF Depth, Held
    <3>2. CASE t # current
      <4>1. Alive(t) /\ Depth(t) = Held(t)
        BY <1>3, <2>1, <3>2 DEF Alive, SectionsInv, Exact
      <4>2. Depth(t)' = Depth(t) /\ Held(t)' = Held(t)
        BY <1>1, <1>2, <3>2 DEF Depth, Held, ExitsOf, Begun
      <4>3. QED BY <4>1, <4>2
    <3>3. QED BY <3>1, <3>2
  <2>2. \A t \in Threads : Alive(t)' /\ t # current => Alive(t) /\ pc'[t] = pc[t]
    BY <1>1, <1>2, <1>3 DEF Alive
  <2>3. \A t \in Threads : pc'[t] = "block" => Alive(t)'
    BY <1>1, <1>2, <1>3 DEF Alive, SectionsInv, Exact
  <2>4. csc' # 0
    BY <1>1, <1>2
  <2>5. ints' <=> csc' = 0
    BY <1>2, <2>4, Zenon
  <2>6. pc'[Boot] = pc[Boot] /\ irq' = "none" /\ stage' = stage /\ current' = current
    BY <1>1, <1>2
  <2>7. QED BY <2>1, <2>2, <2>3, <2>5, <2>6 DEF SectionsInv, Exact, Begun
<1>5. Timers'
  BY <1>1, <1>2, <1>3 DEF SectionsInv, Timers
<1>6. QED BY <1>1, <1>4, <1>5 DEF SectionsInv

\* The calls that wait.  None of them sets a timer.
LEMMA WaitingSections ==
    ASSUME QueueInv, SectionsInv, Kept, Calls \cap Timeouts = {},
           \/ \E e \in Events \ {DpcEvent}, b \in BOOLEAN : EventWait(e, b)
           \/ \E m \in Mutexes, b \in BOOLEAN : MutexAcquire(m, b)
           \/ DpcWait
    PROVE  SectionsInv'
<1>1. ASSUME UNCHANGED <<schedVars, timer, irq, stage>>, Dead' PROVE SectionsInv'
  <2>1. UNCHANGED <<state, current, csc, saved, ints, pc, waitq, bwq, panicked>>
    BY <1>1 DEF schedVars, queueVars
  <2>2. Undisturbed /\ (Begun <=> Begun') /\ \A t \in Threads : Alive(t)' <=> Alive(t)
    BY <1>1, <2>1 DEF Undisturbed, Alive, Begun
  <2>3. QED
    BY <1>1, <2>1, <2>2, QuietExact, TimersFrame DEF SectionsInv, Kept
<1>2. ASSUME NEW w \in Objects, NEW op, NEW finite \in BOOLEAN, BlockOn(w, op, finite),
             InUserCode, current # Boot, UNCHANGED <<irq, stage>>
      PROVE  Undisturbed
  <2>1. state[current] = "running"
    BY <1>2, UserCode
  <2>2. \A t \in Threads : state'[t] = IF t = current THEN "blocked" ELSE state[t]
    BY <1>2, BlockOnKeeps
  <2>3. QED BY <2>1, <2>2 DEF Undisturbed
<1>3. ASSUME NEW e \in Events, NEW b \in BOOLEAN, EventWait(e, b) PROVE SectionsInv'
  <2>1. /\ InUserCode /\ current \in Apps /\ UNCHANGED <<irq, stage, dpcVars>> /\ current # Boot
        /\ e \in Objects /\ b = FALSE
    BY <1>3, UserCode DEF EventWait, AppCalls, Objects, Timeouts
  <2>2. CASE UNCHANGED <<schedVars, call, timer>>
    <3>1. Undisturbed
      BY <2>2 DEF Undisturbed, schedVars
    <3>2. QED BY <1>1, <2>1, <2>2, <3>1, DeadFrame DEF SectionsInv
  <2>3. CASE BlockOn(e, "event_wait", b)
    BY <1>2, <2>1, <2>3, BlockOnSections, DeadFrame DEF SectionsInv
  <2>4. QED BY <1>3, <2>2, <2>3 DEF EventWait
<1>4. ASSUME NEW m \in Mutexes, NEW b \in BOOLEAN, MutexAcquire(m, b) PROVE SectionsInv'
  <2>1. /\ InUserCode /\ current \in Apps /\ UNCHANGED <<irq, stage, dpcVars>> /\ current # Boot
        /\ m \in Objects /\ b = FALSE
    BY <1>4, UserCode DEF MutexAcquire, AppCalls, Objects, Timeouts
  <2>2. CASE UNCHANGED <<schedVars, call, timer>>
    <3>1. Undisturbed
      BY <2>2 DEF Undisturbed, schedVars
    <3>2. QED BY <1>1, <2>1, <2>2, <3>1, DeadFrame DEF SectionsInv
  <2>3. CASE BlockOn(m, "mutex_acquire", FALSE)
    BY <1>2, <2>1, <2>3, BlockOnSections, DeadFrame DEF SectionsInv
  <2>4. QED BY <1>4, <2>1, <2>2, <2>3 DEF MutexAcquire
<1>5. ASSUME DpcWait PROVE SectionsInv'
  <2>1. /\ InUserCode /\ current = Dpc /\ UNCHANGED <<irq, stage, dpcList, dpcJob>> /\ current # Boot
        /\ DpcEvent \in Objects /\ dpcAt = "wait" /\ dpcAt' \in {"wait", "take"}
    BY <1>5, UserCode, ThreadsAssumption DEF DpcWait, Objects
  <2>2. ASSUME Undisturbed PROVE Dead'
    <3>1. \A t : On(t, dpcList) => t \in Threads
      BY DEF QueueInv, Rest, On, Threads
    <3>2. QED BY <2>1, <2>2, <3>1 DEF SectionsInv, Dead, Undisturbed
  <2>3. CASE UNCHANGED <<schedVars, call, timer>>
    <3>1. Undisturbed
      BY <2>3 DEF Undisturbed, schedVars
    <3>2. QED BY <1>1, <2>1, <2>2, <2>3, <3>1
  <2>4. CASE BlockOn(DpcEvent, "event_wait", FALSE)
    BY <1>2, <2>1, <2>2, <2>4, BlockOnSections
  <2>5. QED BY <1>5, <2>3, <2>4 DEF DpcWait
<1>6. QED BY <1>3, <1>4, <1>5

---------------------------------------------------------------------------
(* The way out of a call, creation, and the dpc thread *)

\* The way out of a routine: as many exits as the routine has, after which the thread is
\* in its own code with none left.
LEMMA ReturnSections == ASSUME QueueInv, SectionsInv, Kept, Resume PROVE SectionsInv'
<1> DEFINE at == pc[current]
           c == csc - ExitsOf(at)
<1>1. /\ at \notin {"user", "block"} /\ irq = "none"
      /\ csc' = c
      /\ ints' = (at = "preempt" \/ MaskAfterExit(c, ints))
      /\ pc' = [pc EXCEPT ![current] = "user"]
      /\ UNCHANGED <<state, current, saved, waitq, bwq, panicked, irq, stage, dpcList, dpcJob>>
      /\ timer' \in {timer, [timer EXCEPT ![current] = "none"]}
  BY DEF Resume, queueVars
<1>2. /\ current \in Threads /\ state[current] = "running"
      /\ pc \in [Threads -> PCs] /\ csc \in Nat
      /\ timer \in [Threads -> {"none", "sleep", "timeout"}]
      /\ ints \in BOOLEAN
  BY <1>1 DEF QueueInv, Lists, Sections, Rest
<1>3. csc = ExitsOf(at) + IF current = Boot /\ ~ Begun THEN 1 ELSE 0
  <2>1. Depth(current) = Held(current)
    BY <1>2 DEF SectionsInv, Exact, Alive
  <2>2. QED BY <1>1, <1>2, <2>1 DEF Depth, Held, ExitsOf
<1>4. /\ c = IF current = Boot /\ ~ Begun THEN 1 ELSE 0
      /\ csc # 0
  BY <1>3 DEF ExitsOf
<1>5. ints' <=> c = 0
  <2>1. ~ ints
    BY <1>4 DEF SectionsInv, Exact
  <2>2. at = "preempt" => c = 0
    BY <1>4 DEF SectionsInv, Exact
  <2> HIDE DEF c
  <2>3. ints' <=> at = "preempt" \/ c = 0
    BY <1>1, <2>1, Zenon DEF MaskAfterExit
  <2>4. QED BY <2>2, <2>3
<1> HIDE DEF c
<1>6. Exact'
  <2>1. ASSUME NEW t \in Threads, Alive(t)' PROVE Depth(t)' = Held(t)'
    <3>1. CASE t = current
      BY <1>1, <1>2, <1>4, <3>1 DEF Depth, Held, Begun
    <3>2. CASE t # current
      <4>1. Alive(t) /\ Depth(t) = Held(t)
        BY <1>1, <2>1, <3>2 DEF Alive, SectionsInv, Exact
      <4>2. Depth(t)' = Depth(t) /\ Held(t)' = Held(t)
        BY <1>1, <1>2, <3>2 DEF Depth, Held, ExitsOf, Begun
      <4>3. QED BY <4>1, <4>2
    <3>3. QED BY <3>1, <3>2
  <2>2. \A t \in Threads : Alive(t)' /\ t # current => Alive(t) /\ pc'[t] = pc[t]
    BY <1>1, <1>2 DEF Alive
  <2>3. pc'[Boot] = "preempt" => pc[Boot] = "preempt"
    BY <1>1, <1>2
  <2>4. ints' <=> csc' = 0
    BY <1>1, <1>5
  <2>5. QED BY <1>1, <2>1, <2>2, <2>3, <2>4 DEF SectionsInv, Exact, Begun
<1>7. Timers'
  <2>1. \A t \in Threads : timer'[t] = timer[t] \/ timer'[t] = "none"
    BY <1>1, <1>2
  <2>2. QED BY <1>1, <2>1 DEF SectionsInv, Timers
<1>8. Dead'
  <2>1. dpcAt' = "cleanup" => dpcAt = "cleanup"
    BY DEF Resume
  <2>2. QED BY <1>1, <2>1 DEF SectionsInv, Dead
<1>9. QED BY <1>1, <1>6, <1>7, <1>8 DEF SectionsInv

\* thread_create: a new thread starts inside the one section its first return leaves.
LEMMA CreateSections ==
    ASSUME QueueInv, SectionsInv, Kept, NEW t \in Apps, ThreadCreate(t) PROVE SectionsInv'
<1>1. /\ InUserCode
      /\ state[t] = "free"
      /\ state' = [state EXCEPT ![t] = "suspended"]
      /\ saved' = [saved EXCEPT ![t] = 1]
      /\ bwq' = [bwq EXCEPT ![t] = None]
      /\ pc' = [pc EXCEPT ![t] = "new"]
      /\ UNCHANGED <<current, csc, ints, waitq, panicked, timer, irq, stage, dpcVars>>
  BY DEF ThreadCreate, AppCalls
<1>2. /\ t \in Threads /\ t # Boot /\ t # current
      /\ state \in [Threads -> States] /\ saved \in [Threads -> Nat]
      /\ pc \in [Threads -> PCs] /\ bwq \in [Threads -> Objects \cup {None}]
  BY <1>1, UserCode, ThreadsAssumption DEF QueueInv, Lists, Sections, Threads
<1>3. Exact'
  <2>1. ASSUME NEW u \in Threads, Alive(u)' PROVE Depth(u)' = Held(u)'
    <3>1. CASE u = t
      BY <1>1, <1>2, <3>1 DEF Depth, Held, ExitsOf
    <3>2. CASE u # t
      <4>1. Alive(u) /\ Depth(u) = Held(u)
        BY <1>1, <1>2, <2>1, <3>2 DEF Alive, SectionsInv, Exact
      <4>2. Depth(u)' = Depth(u) /\ Held(u)' = Held(u)
        BY <1>1, <1>2, <3>2 DEF Depth, Held, ExitsOf, Begun
      <4>3. QED BY <4>1, <4>2
    <3>3. QED BY <3>1, <3>2
  <2>2. \A u \in Threads : Alive(u)' /\ u # t => Alive(u) /\ pc'[u] = pc[u]
    BY <1>1, <1>2 DEF Alive
  <2>3. pc'[Boot] = pc[Boot] /\ pc'[current] = pc[current] /\ pc'[t] = "new"
    BY <1>1, <1>2
  <2>4. \A u \in Threads : pc'[u] = "block" => Alive(u)'
    BY <1>1, <1>2 DEF Alive, SectionsInv, Exact
  <2>5. QED BY <1>1, <2>1, <2>2, <2>3, <2>4 DEF SectionsInv, Exact, Begun
<1>4. Undisturbed
  BY <1>1, <1>2 DEF Undisturbed
<1>5. Timers'
  BY <1>1, <1>2 DEF SectionsInv, Timers
<1>6. QED BY <1>1, <1>3, <1>4, <1>5, DeadFrame DEF SectionsInv

\* The dpc thread takes the head of its list.
LEMMA TakeSections == ASSUME QueueInv, SectionsInv, Kept, DpcTake PROVE SectionsInv'
<1>1. /\ UNCHANGED <<state, current, csc, saved, ints, pc, waitq, bwq, panicked, timer, irq, stage>>
      /\ \/ dpcAt' = "wait" /\ UNCHANGED dpcList
         \/ /\ dpcList # <<>> /\ dpcJob' = Head(dpcList)
            /\ dpcList' = Tail(dpcList) /\ dpcAt' = "cleanup"
  BY DEF DpcTake, schedVars, queueVars
<1>2. Undisturbed /\ (Begun <=> Begun') /\ \A t \in Threads : Alive(t)' <=> Alive(t)
  BY <1>1 DEF Undisturbed, Alive, Begun
<1>3. Exact' /\ Timers'
  BY <1>1, <1>2, QuietExact, TimersFrame DEF SectionsInv, Kept
<1>4. Dead'
  <2>1. CASE dpcAt' = "wait" /\ UNCHANGED dpcList
    BY <1>1, <2>1 DEF SectionsInv, Dead
  <2>2. CASE /\ dpcList # <<>> /\ dpcJob' = Head(dpcList)
             /\ dpcList' = Tail(dpcList) /\ dpcAt' = "cleanup"
    <3>1. /\ dpcList \in Seq(Apps) /\ dpcList \in Seq(Threads) /\ Distinct(dpcList)
          /\ \A t \in Threads : On(t, dpcList) => state[t] = "death"
      BY DEF QueueInv, Rest, Threads, SectionsInv, Dead
    <3>2. /\ Distinct(Tail(dpcList))
          /\ \A t : On(t, Tail(dpcList)) <=> On(t, dpcList) /\ t # Head(dpcList)
      BY <2>2, <3>1, TailFacts
    <3>3. On(Head(dpcList), dpcList) /\ Head(dpcList) \in Apps
      BY <2>2, <3>1 DEF On
    <3>4. QED BY <1>1, <2>2, <3>1, <3>2, <3>3 DEF Dead, Threads
  <2>3. QED BY <1>1, <2>1, <2>2
<1>5. QED BY <1>1, <1>3, <1>4 DEF SectionsInv

\* The dpc thread frees a dead thread, which is on no list.
LEMMA CleanupSections == ASSUME QueueInv, SectionsInv, Kept, DpcCleanup PROVE SectionsInv'
<1>1. dpcJob \in Threads /\ state[dpcJob] = "death" /\ ~ On(dpcJob, dpcList) /\ bwq[dpcJob] = None
  BY DEF DpcCleanup, SectionsInv, Dead, Timers, Threads
<1>2. ~ QueuedToRun(dpcJob)
  <2>1. ASSUME NEW p \in Priorities, dpcJob \in ToSet(runq.queue[p]) PROVE FALSE
    <3>1. runq.queue[p] \in Seq(Threads)
      BY DEF QueueInv, Lists, RunQueue
    <3>2. On(dpcJob, runq.queue[p])
      BY <2>1, <3>1 DEF ToSet, On
    <3>3. QED BY <1>1, <3>2 DEF QueueInv, Lists, RunQueue
  <2>2. QED BY <2>1 DEF QueuedToRun
<1>3. /\ state' = [state EXCEPT ![dpcJob] = "free"]
      /\ dpcAt' = "wait"
      /\ UNCHANGED <<current, csc, saved, ints, pc, waitq, bwq, panicked, timer, irq, stage, dpcList>>
  BY <1>1, <1>2 DEF DpcCleanup, queueVars
<1>4. \A t \in Threads : state'[t] = IF t = dpcJob THEN "free" ELSE state[t]
  BY <1>3 DEF QueueInv, Lists
<1>5. Exact'
  <2>1. (Begun <=> Begun') /\ \A t \in Threads : Alive(t)' <=> Alive(t)
    BY <1>1, <1>3, <1>4 DEF Alive, Begun
  <2>2. QED BY <1>3, <2>1, QuietExact DEF SectionsInv
<1>6. Timers' /\ Dead'
  BY <1>1, <1>3, <1>4 DEF SectionsInv, Timers, Dead
<1>7. QED BY <1>3, <1>5, <1>6 DEF SectionsInv

---------------------------------------------------------------------------
(* Interrupts *)

\* The glue around an interrupt handler enters a section of its own.
LEMMA EnterSections ==
    ASSUME QueueInv, SectionsInv, Kept, NEW kind \in {"tick", "device"}, IrqEnter(kind)
    PROVE  SectionsInv'
<1>1. /\ ints /\ irq = "none" /\ pc[current] \in {"user", "block"} /\ stage \in {"idle", "done"}
      /\ irq' = kind /\ csc' = csc + 1 /\ ints' = FALSE
      /\ UNCHANGED <<state, current, saved, pc, waitq, bwq, panicked, timer, stage, dpcVars>>
  BY DEF IrqEnter, Interrupted, queueVars
<1>2. csc = 0 /\ current \in Threads /\ Begun /\ Begun'
  BY <1>1 DEF SectionsInv, Exact, QueueInv, Lists, Begun
<1>3. pc[current] = "user"
  <2>1. SUFFICES ASSUME pc[current] = "block" PROVE FALSE
    BY <1>1
  <2>2. Depth(current) = Held(current)
    BY <1>2, <2>1 DEF SectionsInv, Exact
  <2>3. QED BY <1>1, <1>2, <2>1, <2>2 DEF Depth, Held
<1>4. Exact'
  <2>1. ASSUME NEW t \in Threads, Alive(t)' PROVE Depth(t)' = Held(t)'
    <3>1. Alive(t) /\ Depth(t) = Held(t)
      BY <1>1, <2>1 DEF Alive, SectionsInv, Exact
    <3>2. CASE t = current
      BY <1>1, <1>2, <1>3, <3>2 DEF Depth, Held
    <3>3. CASE t # current
      BY <1>1, <1>2, <3>1, <3>3 DEF Depth, Held, ExitsOf
    <3>4. QED BY <3>2, <3>3
  <2>2. csc' # 0
    BY <1>1, <1>2
  <2>3. QED BY <1>1, <1>2, <1>3, <2>1, <2>2 DEF SectionsInv, Exact, Alive
<1>5. Undisturbed
  BY <1>1 DEF Undisturbed
<1>6. QED
  BY <1>1, <1>4, <1>5, TimersFrame, DeadFrame DEF SectionsInv, Kept

\* thread_sleep_handler: a timer that fires finds its thread asleep.
LEMMA TimerSections ==
    ASSUME QueueInv, SectionsInv, Kept, NEW t \in Threads, SleepTimerFires(t) PROVE SectionsInv'
<1>1. state[t] = "sleeping"
  BY DEF SleepTimerFires, SectionsInv, Timers
<1>2. /\ state' = [state EXCEPT ![t] = "ready"]
      /\ timer' = [timer EXCEPT ![t] = "none"]
      /\ UNCHANGED <<current, csc, saved, ints, pc, waitq, bwq, panicked, irq, stage, dpcVars>>
  BY <1>1 DEF SleepTimerFires, Balanced, queueVars
<1>3. \A u \in Threads : state'[u] = IF u = t THEN "ready" ELSE state[u]
  BY <1>2 DEF QueueInv, Lists
<1>4. \A u \in Threads : timer'[u] = IF u = t THEN "none" ELSE timer[u]
  BY <1>2 DEF QueueInv, Rest
<1>5. Exact'
  <2>1. (Begun <=> Begun') /\ \A u \in Threads : Alive(u)' <=> Alive(u)
    BY <1>1, <1>2, <1>3 DEF Alive, Begun
  <2>2. QED BY <1>2, <2>1, QuietExact DEF SectionsInv
<1>6. Timers'
  BY <1>1, <1>2, <1>3, <1>4 DEF SectionsInv, Timers
<1>7. Dead'
  <2>1. \A u : On(u, dpcList) => u \in Threads
    BY DEF QueueInv, Rest, On, Threads
  <2>2. \A u \in Threads : state[u] = "death" => state'[u] = "death"
    BY <1>1, <1>3
  <2>3. UNCHANGED <<dpcAt, dpcList, dpcJob>> /\ Apps \subseteq Threads
    BY <1>2 DEF dpcVars, Threads
  <2>4. QED BY <2>1, <2>2, <2>3 DEF SectionsInv, Dead
<1>8. QED BY <1>2, <1>5, <1>6, <1>7 DEF SectionsInv

\* thread_preempt
LEMMA LeaveSections == ASSUME QueueInv, SectionsInv, Kept, IrqExit PROVE SectionsInv'
<1> DEFINE qt == IF irq = "tick" /\ ~ (current = Boot /\ stage = "done")
                 THEN [quantum EXCEPT ![current] = IF @ = 0 THEN 0 ELSE @ - 1]
                 ELSE quantum
           st == [state EXCEPT ![current] = "ready"]
           rq == IF qt[current] > 0 THEN InsertHead(runq, current)
                                    ELSE InsertTail(runq, current)
<1>1. /\ irq # "none" /\ irq' = "none" /\ pc[current] = "user" /\ state[current] = "running"
      /\ current \in Threads /\ Begun
  BY DEF IrqExit, SectionsInv, Exact, QueueInv, Lists, Sections
<1>2. /\ Resched(st, rq, qt, csc + 1)
      /\ pc' = [pc EXCEPT ![current] = "preempt"]
      /\ UNCHANGED <<ints, waitq, bwq, panicked, timer, stage, dpcVars>>
  BY <1>1 DEF IrqExit, Preempt, queueVars
<1>3. csc = 1 /\ ints' = FALSE
  <2>1. Depth(current) = Held(current)
    BY <1>1 DEF SectionsInv, Exact, Alive
  <2>2. csc = 1
    BY <1>1, <2>1 DEF Depth, Held
  <2>3. ~ ints /\ ints \in BOOLEAN
    BY <2>2 DEF SectionsInv, Exact, QueueInv, Rest
  <2>4. QED BY <1>2, <2>2, <2>3
<1>4. /\ st \in [Threads -> States]
      /\ \A t \in Threads : st[t] = IF t = current THEN "ready" ELSE state[t]
  BY <1>1 DEF QueueInv, Lists, States
<1> HIDE DEF st, rq, qt
<1>5. state' = [st EXCEPT ![current'] = "running"]
  BY <1>2 DEF Resched
<1>6. Undisturbed
  <2>1. current' = current \/ state[current'] \in {"ready", "blocked", "suspended"}
    BY DEF Kept
  <2>2. QED BY <1>1, <1>4, <1>5, <2>1 DEF Undisturbed
<1>7. Exact'
  <2>1. /\ \A t \in Threads : t # current /\ st[t] \notin {"death", "free"} => Alive(t)
        /\ st[current] = "ready" /\ "preempt" \in PCs
        /\ csc + 1 \in Nat /\ csc + 1 # 0
        /\ csc + 1 = ExitsOf("preempt") + IF current = Boot /\ ~ Begun' THEN 1 ELSE 0
        /\ Begun'
    BY <1>1, <1>2, <1>3, <1>4 DEF Alive, PCs, ExitsOf, Begun
  <2>2. QED
    BY <1>1, <1>2, <1>3, <1>4, <2>1, SwitchExact
<1>8. QED
  BY <1>2, <1>6, <1>7, TimersFrame, DeadFrame DEF SectionsInv, Kept

---------------------------------------------------------------------------

\* The first section masks the interrupts, so none comes into a call.
LEMMA NoneInside == SectionsInv /\ QueueInv => ~ IrqInside
BY DEF SectionsInv, Exact, QueueInv, Sections, IrqInside, Interrupted

\* Nothing else makes a machine Torn.
LEMMA TornByInside ==
    ASSUME ~ Torn, ~ IrqInside, [Next]_vars PROVE ~ Torn'
<1>1. CASE UNCHANGED irq
  BY <1>1 DEF Torn
<1>2. CASE \/ KmainDpcInit \/ KmainTimerInit \/ KmainEnable \/ KmainBecomeIdle
           \/ \E t \in InitialApps : KmainResume(t)
           \/ ThreadYield \/ ThreadSleep \/ ThreadExit \/ ThreadBlock \/ Resume
           \/ \E t \in Apps : ThreadCreate(t) \/ ThreadResume(t)
  <2>1. CASE \/ KmainDpcInit \/ KmainTimerInit \/ KmainEnable \/ KmainBecomeIdle
             \/ \E t \in InitialApps : KmainResume(t)
    BY <1>1, <2>1 DEF KmainDpcInit, KmainTimerInit, KmainEnable, KmainBecomeIdle, KmainResume,
          ResumeThread
  <2>2. CASE ThreadYield \/ ThreadSleep \/ ThreadExit \/ ThreadBlock
    BY <1>1, <2>2 DEF ThreadYield, ThreadSleep, ThreadExit, ThreadBlock
  <2>3. CASE Resume
    BY <1>1, <2>3 DEF Resume
  <2>4. CASE \E t \in Apps : ThreadCreate(t) \/ ThreadResume(t)
    BY <1>1, <2>4 DEF ThreadCreate, ThreadResume, ResumeThread
  <2>5. QED BY <1>2, <2>1, <2>2, <2>3, <2>4
<1>3. CASE \/ \E e \in Events \ {DpcEvent}, b \in BOOLEAN : EventWait(e, b) \/ EventSignal(e, b)
           \/ \E e \in Events \ {DpcEvent} : EventUnsignal(e)
           \/ \E m \in Mutexes, b \in BOOLEAN : MutexAcquire(m, b)
           \/ \E m \in Mutexes : MutexRelease(m)
           \/ \E w \in Objects \ {DpcEvent} : Destroy(w)
           \/ DpcWait \/ DpcTake \/ DpcCleanup
  BY <1>1, <1>3 DEF EventWait, EventSignal, EventUnsignal, MutexAcquire, MutexRelease, Destroy,
        DpcWait, DpcTake, DpcCleanup
<1>4. CASE \/ IrqEnter("tick") \/ IrqEnter("device") \/ IrqExit
           \/ \E t \in Threads : SleepTimerFires(t) \/ TimeoutFires(t)
           \/ \E e \in IrqEvents : DeviceSignals(e)
  BY <1>1, <1>4 DEF IrqEnter, Interrupted, IrqExit, SleepTimerFires, TimeoutFires, DeviceSignals, Torn
<1>5. CASE Halted \/ UNCHANGED vars
  BY <1>1, <1>5 DEF Halted, vars
<1>6. QED
  BY <1>2, <1>3, <1>4, <1>5 DEF Next

\* Each step, by its kind.  Without timeouts no timer of a wait ever fires.
LEMMA SectionsStep ==
    ASSUME Calls \cap Timeouts = {}, QueueInv, SectionsInv, [Next]_vars
    PROVE  SectionsInv'
<1>1. CASE UNCHANGED vars
  BY <1>1 DEF vars, schedVars, queueVars, dpcVars, SectionsInv, Exact, Timers, Dead,
              Alive, Depth, Held, Begun
<1>2. CASE Next
  <2>1. Kept
    BY <1>2, QueueStep
  <2>2. CASE KmainTimerInit \/ \E e \in Events \ {DpcEvent} : EventUnsignal(e)
    <3>1. /\ UNCHANGED <<state, current, csc, saved, ints, pc, waitq, bwq, panicked>>
          /\ UNCHANGED <<timer, irq, dpcVars>> /\ (Begun <=> Begun')
      BY <2>2 DEF KmainTimerInit, EventUnsignal, schedVars, queueVars, Begun
    <3>2. Undisturbed /\ \A t \in Threads : Alive(t)' <=> Alive(t)
      BY <3>1 DEF Undisturbed, Alive
    <3>3. QED
      BY <2>1, <3>1, <3>2, QuietExact, TimersFrame, DeadFrame DEF SectionsInv, Kept
  <2>3. CASE \/ KmainDpcInit \/ KmainEnable \/ KmainBecomeIdle
             \/ \E t \in InitialApps : KmainResume(t)
    BY <2>1, <2>3, YieldingSections, EnableSections, IdleSections
  <2>4. CASE ThreadYield \/ ThreadSleep \/ ThreadExit \/ ThreadBlock \/ Resume
    BY <2>1, <2>4, YieldingSections, SleepSections, ThreadSleepKeeps, ExitSections,
       BlockSections, ThreadBlockKeeps, ReturnSections
  <2>5. CASE \E t \in Apps : ThreadCreate(t) \/ ThreadResume(t)
    BY <2>1, <2>5, CreateSections, YieldingSections
  <2>6. CASE \/ \E e \in Events \ {DpcEvent}, b \in BOOLEAN : EventWait(e, b) \/ EventSignal(e, b)
             \/ \E m \in Mutexes, b \in BOOLEAN : MutexAcquire(m, b)
             \/ \E m \in Mutexes : MutexRelease(m)
             \/ \E w \in Objects \ {DpcEvent} : Destroy(w)
    BY <2>1, <2>6, WaitingSections, WakingSections
  <2>7. CASE DpcWait \/ DpcTake \/ DpcCleanup
    BY <2>1, <2>7, WaitingSections, TakeSections, CleanupSections
  <2>8. CASE IrqEnter("tick") \/ IrqEnter("device") \/ IrqInside \/ IrqExit
    <3>1. ~ IrqInside
      BY NoneInside
    <3>2. QED BY <2>1, <2>8, <3>1, EnterSections, LeaveSections
  <2>9. CASE \E t \in Threads : SleepTimerFires(t) \/ TimeoutFires(t)
    <3>1. \A t \in Threads : ~ TimeoutFires(t)
      BY DEF TimeoutFires, SectionsInv, Timers
    <3>2. QED BY <2>1, <2>9, <3>1, TimerSections
  <2>10. CASE (\E e \in IrqEvents : DeviceSignals(e)) \/ Halted
    BY <1>1, <2>1, <2>10, WakingSections DEF Halted
  <2>11. QED
    BY <1>2, <2>2, <2>3, <2>4, <2>5, <2>6, <2>7, <2>8, <2>9, <2>10 DEF Next
<1>3. QED BY <1>1, <1>2

\* kmain starts inside its critical section with interrupts masked.
LEMMA InitSections == Init => SectionsInv
<1> SUFFICES ASSUME Init PROVE SectionsInv
  OBVIOUS
<1>1. /\ Boot \in Threads /\ ~ Begun
      /\ \A t \in Threads : state[t] = IF t = Boot THEN "running"
                                       ELSE IF t \in InitialApps \cup {Dpc} THEN "suspended"
                                       ELSE "free"
      /\ \A t \in Threads : saved[t] = 1 /\ bwq[t] = None /\ timer[t] = "none"
      /\ \A t \in Threads : pc[t] = IF t = Boot THEN "user" ELSE "new"
  BY DEF Init, Threads, Begun
<1>2. current = Boot /\ csc = 1 /\ ints = FALSE /\ irq = "none" /\ panicked = FALSE
  BY DEF Init
<1>3. Exact
  BY <1>1, <1>2 DEF Exact, Depth, Held, ExitsOf, Alive
<1>4. Timers
  BY <1>1 DEF Timers
<1>5. Dead
  BY DEF Init, Dead, Distinct, On
<1>6. QED BY <1>2, <1>3, <1>4, <1>5 DEF SectionsInv

\* Every thread's count of critical sections, the CPU's while it runs and the saved one
\* while it does not (thread.c: thread_resched), is exactly the number of sections it has
\* entered and not left; timers belong to sleepers, and the threads handed to the dpc
\* thread are dead and handed over once.  For threads that wait without timeouts.
THEOREM SectionsInvHolds ==
    ASSUME Calls \cap Timeouts = {}
    PROVE  Spec => [](QueueInv /\ SectionsInv)
<1>1. QueueInv /\ SectionsInv /\ [Next]_vars => SectionsInv'
  BY SectionsStep
<1>2. QED
  BY <1>1, InitSections, QueueInvAlways, PTL DEF Spec

\* No ASSERT of the kernel fails, and a thread that runs its own code is in no critical
\* section and has interrupts on, for every set of threads, priorities, events and
\* mutexes and every order of calls and interrupts, as long as no thread waits with a
\* timeout.  With event_wait_timeout the code does not keep it:
\* thread_unblock_from_wait_queue returns ERR_NOT_BLOCKED inside its section
\* (thread.c:902), as the run kernel_leak shows.  Nor does an interrupt ever come between
\* the assignments of a call.
THEOREM SectionsHoldHolds ==
    ASSUME Calls \cap Timeouts = {}
    PROVE  Spec => []SectionsHold
<1>1. QueueInv /\ SectionsInv => NoAssertFails /\ CriticalSectionsBalanced
  <2> SUFFICES ASSUME QueueInv, SectionsInv PROVE NoAssertFails /\ CriticalSectionsBalanced
    OBVIOUS
  <2>1. InUserCode /\ current \in Apps => csc = 0 /\ ints
    BY UserCode, CallersHold
  <2>2. QED BY <2>1 DEF SectionsInv, NoAssertFails, CriticalSectionsBalanced
<1>2. Init => ~ Torn
  BY DEF Init, Torn
<1>3. (QueueInv /\ SectionsInv) /\ ~ Torn /\ [Next]_vars => ~ Torn'
  BY NoneInside, TornByInside
<1>4. QED
  BY <1>1, <1>2, <1>3, SectionsInvHolds, PTL DEF Spec, SectionsHold
=============================================================================
