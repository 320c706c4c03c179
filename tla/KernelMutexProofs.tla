-------------------------- MODULE KernelMutexProofs --------------------------
(***************************************************************************)
(* That a mutex has one owner and counts the threads that want it, and     *)
(* that nobody waits for a mutex that is available, for every set of       *)
(* threads and mutexes and every order of calls, time-outs and             *)
(* destructions.                                                           *)
(*                                                                         *)
(* Between mutex_release and the next run of the thread it wakes nobody is *)
(* in `holder`: the owner is known from what the waking recorded in the    *)
(* woken thread only.  So the invariant of the mutexes rests on one about  *)
(* the calls the threads are in, and that one on the lists.                *)
(***************************************************************************)
EXTENDS KernelProofs

---------------------------------------------------------------------------
(* The inductive invariants *)

\* Thread t is inside a wait: in the window of wait_queue_block, or switched
\* out in it.
InCall(t) == pc[t] \in WaitOps \cup {"block"}

\* What the scheduler knows of a thread inside a wait and what the wait itself recorded
\* agree: a blocked thread is inside the call it blocks in, with no result yet; a thread
\* that is told its object was destroyed was told the truth; mutex_acquire without a
\* timeout does not time out.
CallInv ==
    /\ \A t \in Threads : pc[t] = "block" => t = current /\ state[t] \in {"blocked", "ready"}
    /\ irq \notin {"none", "inside"} => pc[current] \in {"user", "block"}
    /\ \A t \in Threads : ~ InCall(t) => call[t] = NoCall
    /\ \A t \in Threads : InCall(t) =>
          /\ call[t].op \in WaitOps
          /\ call[t].op = "event_wait" <=> call[t].obj \in Events
          /\ call[t].obj \in Objects
          /\ pc[t] # "block" => pc[t] = call[t].op
          /\ state[t] \in {"blocked", "ready", "running"}
    /\ \A t \in Threads : state[t] = "blocked" =>
          InCall(t) /\ bwq[t] = call[t].obj /\ ret[t] = "ok"
    /\ \A t \in Threads : call[t].op = "mutex_acquire" =>
          timer[t] # "timeout" /\ ret[t] # "timed_out"
    /\ \A t \in Threads, m \in Mutexes : call[t].obj = m =>
          /\ ret[t] = "destroyed" => ~ valid[m]
          /\ valid[m] => holder[m] # t

\* The threads mutex_t.count counts.
Contenders(m) == {t \in Threads : holder[m] = t \/ call[t].obj = m}

\* The inductive invariant of the mutexes: the count is exact and the owner, the one
\* handed the mutex included, is one.
MutexInv ==
    \A m \in Mutexes : valid[m] =>
        /\ mcount[m] = Cardinality(Contenders(m))
        /\ \A t, u \in Owners(m) : t = u

---------------------------------------------------------------------------

\* What a step that starts and ends no wait has to leave alone.
LEMMA CallFrame ==
    ASSUME QueueInv, CallInv, UNCHANGED call,
           \/ UNCHANGED pc
           \/ \E t \in Threads, x \in PCs \ (WaitOps \cup {"block"}) :
                 ~ InCall(t) /\ pc' = [pc EXCEPT ![t] = x],
           \A t \in Threads : pc'[t] = "block" => t = current' /\ state'[t] \in {"blocked", "ready"},
           irq' \notin {"none", "inside"} => pc'[current'] \in {"user", "block"},
           \A t \in Threads : InCall(t) => state'[t] \in {"blocked", "ready", "running"},
           \A t \in Threads : state'[t] = "blocked" =>
                state[t] = "blocked" /\ bwq'[t] = bwq[t] /\ ret'[t] = ret[t],
           \A t \in Threads : call[t].op = "mutex_acquire" =>
                timer'[t] # "timeout" /\ ret'[t] # "timed_out",
           \A t \in Threads, m \in Mutexes : call[t].obj = m =>
                /\ ret'[t] = "destroyed" => ~ valid'[m]
                /\ valid'[m] => valid[m]
                /\ holder'[m] = t => holder[m] = t
    PROVE  CallInv'
<1>1. \A t \in Threads : /\ InCall(t)' <=> InCall(t)
                         /\ InCall(t) => pc'[t] = pc[t]
  BY DEF InCall, QueueInv, Lists
<1>2. QED
  BY <1>1 DEF CallInv

\* Nobody is between joining a queue and thread_block while the current thread runs.
LEMMA RunningIsNoWindow ==
    ASSUME CallInv, state[current] = "running"
    PROVE  \A t \in Threads : pc[t] # "block"
BY DEF CallInv

\* Who makes a call is in no wait.
LEMMA UserIsOutside ==
    ASSUME QueueInv, CallInv, InUserCode
    PROVE  /\ ~ InCall(current) /\ call[current] = NoCall
           /\ call[current].op \notin WaitOps /\ call[current].obj \notin Objects
           /\ \A t \in Threads : pc[t] # "block"
           /\ irq = "none" /\ state[current] = "running" /\ current \in Threads
<1>1. irq = "none" /\ pc[current] = "user" /\ state[current] = "running" /\ current \in Threads
  BY UserCode
<1>2. ~ InCall(current)
  BY <1>1 DEF InCall, WaitOps
<1>3. call[current] = NoCall
  BY <1>1, <1>2 DEF CallInv
<1>4. NoCall.op \notin WaitOps /\ NoCall.obj \notin Objects
  BY ThreadsAssumption DEF NoCall, WaitOps, Objects
<1>5. QED BY <1>1, <1>2, <1>3, <1>4, RunningIsNoWindow

\* A call of the current thread that wakes nobody and does not wait.
LEMMA QuietCall ==
    ASSUME QueueInv, CallInv, Next, InUserCode,
           UNCHANGED <<call, irq, waitq, bwq, ret, holder, valid>>,
           UNCHANGED pc \/ \E x \in PCs \ (WaitOps \cup {"block"}) : pc' = [pc EXCEPT ![current] = x],
           \A t \in Threads : InCall(t) => timer'[t] = timer[t],
           \A t \in Threads : InCall(t) => state'[t] \in {state[t], "ready", "running"}
    PROVE  CallInv'
<1>1. Lists /\ Lists'
  BY QueueStep DEF Kept, QueueInv
<1>2. \A t \in Threads : state'[t] = "blocked" => state[t] = "blocked"
  BY <1>1, SameWaiters
<1>3. /\ ~ InCall(current) /\ current \in Threads /\ irq = "none"
      /\ \A t \in Threads : pc[t] # "block"
  BY UserIsOutside
<1>4. \A t \in Threads : pc'[t] # "block"
  BY <1>1, <1>3 DEF Lists
<1>5. \A t \in Threads : InCall(t) => state'[t] \in {"blocked", "ready", "running"}
  BY DEF CallInv
<1>6. \A t \in Threads : call[t].op = "mutex_acquire" => InCall(t)
  BY DEF CallInv, NoCall
<1>7. QED
  BY <1>2, <1>3, <1>4, <1>5, <1>6, CallFrame DEF CallInv

\* A call that ends in thread_yield.
LEMMA YieldCall ==
    ASSUME QueueInv, CallInv, Next, InUserCode, UNCHANGED <<objectVars, timer, call, irq>>,
           NEW st, \A t \in Threads : InCall(t) => st[t] = state[t], st \in [Threads -> States],
           NEW rq, NEW c, NEW at \in {"yield", "resume"}, YieldAt(st, rq, c, at)
    PROVE  CallInv'
<1>1. /\ state' = [[st EXCEPT ![current] = "ready"] EXCEPT ![current'] = "running"]
      /\ pc' = [pc EXCEPT ![current] = at]
      /\ UNCHANGED <<waitq, bwq, ret>>
  BY DEF YieldAt, Resched, queueVars
<1>2. at \in PCs \ (WaitOps \cup {"block"})
  BY DEF PCs, WaitOps
<1>3. \A t \in Threads : InCall(t) => state'[t] \in {state[t], "ready", "running"}
  BY <1>1
<1>4. QED BY <1>1, <1>2, <1>3, QuietCall DEF objectVars

\* The calls that wake nobody and do not wait.
LEMMA QuietCalls ==
    ASSUME QueueInv, CallInv, Next,
           \/ KmainDpcInit \/ KmainTimerInit \/ KmainEnable \/ KmainBecomeIdle
           \/ \E t \in InitialApps : KmainResume(t)
           \/ ThreadYield \/ ThreadSleep \/ \E t \in Apps : ThreadResume(t)
           \/ DpcTake \/ DpcCleanup \/ \E e \in Events : EventUnsignal(e)
    PROVE  CallInv'
<1>0. /\ state \in [Threads -> States] /\ Dpc \in Threads
      /\ \A t \in Threads : InCall(t) => state[t] # "suspended"
  BY DEF QueueInv, Lists, Threads, CallInv
<1>1. ASSUME NEW t \in Threads, state[t] = "suspended", InUserCode, ResumeThread(t), UNCHANGED irq
      PROVE  CallInv'
  <2> DEFINE st == [state EXCEPT ![t] = "ready"]
  <2>1. st \in [Threads -> States] /\ \A u \in Threads : InCall(u) => st[u] = state[u]
    BY <1>0, <1>1 DEF States
  <2>2. YieldAt(st, InsertHead(runq, t), csc + 1, "resume") /\ UNCHANGED <<objectVars, timer, call>>
    BY <1>1 DEF ResumeThread
  <2> HIDE DEF st
  <2>3. QED BY <1>1, <2>1, <2>2, YieldCall
<1>2. CASE KmainDpcInit
  <2>1. state[Dpc] = "suspended"
    BY <1>2 DEF KmainDpcInit, QueueInv, Lists
  <2>2. UNCHANGED irq
    BY <1>2 DEF KmainDpcInit, ResumeThread
  <2>3. QED BY <1>0, <1>1, <1>2, <2>1, <2>2 DEF KmainDpcInit
<1>3. ASSUME NEW t \in InitialApps, KmainResume(t) PROVE CallInv'
  <2>1. t \in Threads /\ UNCHANGED irq
    BY <1>3, KernelAssumption DEF Threads, KmainResume, ResumeThread
  <2>2. QED BY <1>1, <1>3, <2>1 DEF KmainResume
<1>4. ASSUME NEW t \in Apps, ThreadResume(t) PROVE CallInv'
  <2>1. t \in Threads /\ UNCHANGED irq
    BY <1>4 DEF Threads, ThreadResume, ResumeThread
  <2>2. QED BY <1>1, <1>4, <2>1 DEF ThreadResume, AppCalls
<1>5. CASE ThreadYield
  BY <1>0, <1>5, YieldCall DEF ThreadYield, AppCalls
<1>6. CASE ThreadSleep
  <2>1. /\ state' = [[state EXCEPT ![current] = "sleeping"] EXCEPT ![current'] = "running"]
        /\ pc' = [pc EXCEPT ![current] = "sleep"]
        /\ timer' = [timer EXCEPT ![current] = "sleep"]
        /\ UNCHANGED <<call, irq, waitq, bwq, ret, holder, valid>>
        /\ InUserCode
    BY <1>6 DEF ThreadSleep, AppCalls, Resched, queueVars, objectVars
  <2>2. ~ InCall(current) /\ "sleep" \in PCs \ (WaitOps \cup {"block"})
    BY <2>1, UserIsOutside DEF PCs, WaitOps
  <2>3. \A t \in Threads : InCall(t) => /\ state'[t] \in {state[t], "ready", "running"}
                                        /\ timer'[t] = timer[t]
    BY <1>0, <2>1, <2>2 DEF QueueInv, Rest
  <2>4. QED BY <2>1, <2>2, <2>3, QuietCall
<1>7. CASE KmainBecomeIdle
  <2>1. /\ state' = [[state EXCEPT ![Boot] = "ready"] EXCEPT ![current'] = "running"]
        /\ pc' = [pc EXCEPT ![current] = "yield"]
        /\ UNCHANGED <<call, irq, waitq, bwq, ret, holder, valid, timer>>
        /\ InUserCode
    BY <1>7 DEF KmainBecomeIdle, Resched, queueVars, objectVars
  <2>2. "yield" \in PCs \ (WaitOps \cup {"block"})
    BY DEF PCs, WaitOps
  <2>3. \A t \in Threads : InCall(t) => state'[t] \in {state[t], "ready", "running"}
    BY <1>0, <2>1
  <2>4. QED BY <2>1, <2>2, <2>3, QuietCall
<1>8. CASE DpcCleanup
  <2>1. InUserCode /\ UNCHANGED <<call, irq, waitq, bwq, ret, holder, valid, timer, pc>>
    BY <1>8 DEF DpcCleanup, Panic, queueVars, objectVars
  <2>2. state' = state \/ (state[dpcJob] = "death" /\ state' = [state EXCEPT ![dpcJob] = "free"])
    BY <1>8 DEF DpcCleanup, Panic
  <2>3. \A t \in Threads : InCall(t) => state'[t] \in {state[t], "ready", "running"}
    BY <1>0, <2>2 DEF CallInv
  <2>4. QED BY <2>1, <2>3, QuietCall
<1>9. CASE KmainTimerInit \/ KmainEnable \/ DpcTake \/ \E e \in Events : EventUnsignal(e)
  <2>1. InUserCode /\ UNCHANGED <<call, irq, waitq, bwq, ret, holder, valid, timer, pc, state>>
    BY <1>9 DEF KmainTimerInit, KmainEnable, DpcTake, EventUnsignal, AppCalls,
          schedVars, queueVars, objectVars
  <2>2. QED BY <2>1, QuietCall
<1>10. QED
  BY <1>2, <1>3, <1>4, <1>5, <1>6, <1>7, <1>8, <1>9

\* What a wake-up writes into the threads it wakes.
LEMMA WokenFacts ==
    ASSUME QueueInv, NEW w \in Objects, NEW woken, Prefix(woken, waitq[w]),
           NEW result \in Results, LeaveQueue(w, woken, result)
    PROVE  /\ \A t \in Threads : On(t, woken) => state[t] = "blocked" /\ bwq[t] = w
           /\ \A t \in Threads : bwq'[t] = IF On(t, woken) THEN None ELSE bwq[t]
           /\ \A t \in Threads : ret'[t] = IF On(t, woken) THEN result ELSE ret[t]
<1>1. Lists
  BY DEF QueueInv
<1>2. /\ woken \in Seq(Threads)
      /\ \A t \in Threads : On(t, woken) => state[t] = "blocked" /\ bwq[t] = w
      /\ \A t \in Threads : bwq'[t] = IF On(t, woken) THEN None ELSE bwq[t]
  BY <1>1, LeaveQueueKeeps DEF Lists
<1>3. \A t \in Threads : t \in ToSet(woken) <=> On(t, woken)
  <2>1. DOMAIN woken = 1 .. Len(woken)
    BY <1>2
  <2>2. QED BY <2>1 DEF ToSet, On
<1>4. QED BY <1>2, <1>3 DEF LeaveQueue

\* A wake-up keeps what is known of the calls.
LEMMA WakingCall ==
    ASSUME QueueInv, CallInv, NEW w \in Objects, NEW woken, Prefix(woken, waitq[w]),
           NEW result \in {"ok", "destroyed"}, LeaveQueue(w, woken, result),
           UNCHANGED <<call, timer>>,
           \A m \in Mutexes, t \in Threads : holder'[m] = t => holder[m] = t,
           \A v \in Objects : valid'[v] => valid[v],
           result = "destroyed" => ~ valid'[w],
           \A t \in Threads : state'[t] = "blocked" => state[t] = "blocked" /\ ~ On(t, woken),
           \A t \in Threads : InCall(t) => state'[t] \in {"blocked", "ready", "running"},
           \/ UNCHANGED pc
           \/ \E t \in Threads, x \in PCs \ (WaitOps \cup {"block"}) :
                 ~ InCall(t) /\ pc' = [pc EXCEPT ![t] = x],
           \A t \in Threads : pc'[t] = "block" => t = current' /\ state'[t] \in {"blocked", "ready"},
           irq' \notin {"none", "inside"} => pc'[current'] \in {"user", "block"}
    PROVE  CallInv'
<1>1. "ok" \in Results /\ "destroyed" \in Results /\ result # "timed_out"
  BY DEF Results
<1>2. /\ \A t \in Threads : On(t, woken) => state[t] = "blocked" /\ bwq[t] = w
      /\ \A t \in Threads : bwq'[t] = IF On(t, woken) THEN None ELSE bwq[t]
      /\ \A t \in Threads : ret'[t] = IF On(t, woken) THEN result ELSE ret[t]
  BY <1>1, WokenFacts
<1>3. \A t \in Threads : state'[t] = "blocked" =>
           state[t] = "blocked" /\ bwq'[t] = bwq[t] /\ ret'[t] = ret[t]
  BY <1>2
<1>4. \A t \in Threads : call[t].op = "mutex_acquire" =>
           timer'[t] # "timeout" /\ ret'[t] # "timed_out"
  BY <1>1, <1>2 DEF CallInv
<1>5. \A t \in Threads : On(t, woken) => call[t].obj = w
  BY <1>2 DEF CallInv
<1>6. \A t \in Threads, m \in Mutexes : call[t].obj = m =>
           /\ ret'[t] = "destroyed" => ~ valid'[m]
           /\ valid'[m] => valid[m]
           /\ holder'[m] = t => holder[m] = t
  <2> SUFFICES ASSUME NEW t \in Threads, NEW m \in Mutexes, call[t].obj = m
               PROVE  /\ ret'[t] = "destroyed" => ~ valid'[m]
                      /\ valid'[m] => valid[m]
                      /\ holder'[m] = t => holder[m] = t
    OBVIOUS
  <2>1. m \in Objects
    BY DEF Objects
  <2>2. CASE On(t, woken)
    BY <1>2, <1>5, <2>1, <2>2
  <2>3. CASE ~ On(t, woken)
    BY <1>2, <2>1, <2>3 DEF CallInv
  <2>4. QED BY <2>2, <2>3
<1>7. QED
  BY <1>3, <1>4, <1>6, CallFrame

LEMMA WakeCall ==
    ASSUME QueueInv, CallInv, InUserCode, UNCHANGED <<call, timer, irq>>,
           \A m \in Mutexes, t \in Threads : holder'[m] = t => holder[m] = t,
           NEW w \in Objects, NEW woken, Prefix(woken, waitq[w]), NEW reschedule,
           NEW result \in {"ok", "destroyed"}, Wake(w, woken, reschedule, result), WakesOnly(woken),
           \A v \in Objects : valid'[v] => valid[v],
           result = "destroyed" => ~ valid'[w]
    PROVE  CallInv'
<1>1. LeaveQueue(w, woken, result) /\ (pc' = pc \/ pc' = [pc EXCEPT ![current] = "signal"])
  BY DEF Wake
<1>2. /\ ~ InCall(current) /\ current \in Threads /\ irq = "none"
      /\ \A t \in Threads : pc[t] # "block"
      /\ pc \in [Threads -> PCs]
  BY UserIsOutside DEF QueueInv, Lists
<1>3. "signal" \in PCs \ (WaitOps \cup {"block"})
  BY DEF PCs, WaitOps
<1>4. \A t \in Threads : pc'[t] # "block"
  BY <1>1, <1>2
<1>5. \A t \in Threads : InCall(t) => state'[t] \in {"blocked", "ready", "running"}
  BY DEF CallInv, WakesOnly
<1>6. \A t \in Threads : state'[t] = "blocked" => state[t] = "blocked" /\ ~ On(t, woken)
  BY DEF WakesOnly
<1>7. QED
  BY <1>1, <1>2, <1>3, <1>4, <1>5, <1>6, WakingCall

\* The calls that wake.
LEMMA WakingCalls ==
    ASSUME QueueInv, CallInv, Next,
           \/ \E e \in Events, b \in BOOLEAN : EventSignal(e, b)
           \/ \E m \in Mutexes : MutexRelease(m)
           \/ \E w \in Objects \ {DpcEvent} : Destroy(w)
    PROVE  CallInv'
<1>1. ASSUME NEW e \in Events, NEW b \in BOOLEAN, EventSignal(e, b) PROVE CallInv'
  <2>1. /\ InUserCode /\ UNCHANGED <<call, holder, timer, irq, stage, valid>>
        /\ current \in Apps /\ SignalEvent(e, b) /\ e \in Objects
    BY <1>1 DEF EventSignal, AppCalls, Objects
  <2>2. state[current] = "running" /\ current # Boot /\ irq' = "none"
    BY <2>1, UserCode
  <2>3. \/ UNCHANGED <<schedVars, signalled>>
        \/ \E woken \in {<<>>, FirstOf(e), waitq[e]} :
              /\ Prefix(woken, waitq[e])
              /\ Wake(e, woken, b, "ok")
              /\ WakesOnly(woken)
    BY <2>1, <2>2, SignalEventKeeps
  <2>4. CASE UNCHANGED <<schedVars, signalled>>
    BY <2>1, <2>4, QuietCall DEF schedVars, queueVars
  <2>5. QED BY <2>1, <2>3, <2>4, WakeCall
<1>2. ASSUME NEW m \in Mutexes, MutexRelease(m) PROVE CallInv'
  <2> DEFINE woken == IF mcount[m] - 1 >= 1 THEN FirstOf(m) ELSE <<>>
             after == [holder EXCEPT ![m] = None]
  <2>1. /\ InUserCode /\ current \in Apps /\ UNCHANGED <<irq, stage, call, timer, valid>>
        /\ Wake(m, woken, TRUE, "ok")
        /\ m \in Objects /\ woken \in {<<>>, FirstOf(m), waitq[m]} /\ "ok" \in Results
        /\ holder' = after
    BY <1>2 DEF MutexRelease, AppCalls, Objects, Results
  <2> HIDE DEF woken
  <2>2. Prefix(woken, waitq[m]) /\ WakesOnly(woken)
    BY <2>1, WakeWithin
  <2>3. \A n \in Mutexes, t \in Threads : holder'[n] = t => holder[n] = t
    BY <2>1, ThreadsAssumption DEF QueueInv, Rest, Threads
  <2>4. QED BY <2>1, <2>2, <2>3, WakeCall
<1>3. ASSUME NEW w \in Objects, Destroy(w) PROVE CallInv'
  <2> DEFINE woken == waitq[w]
  <2>1. /\ InUserCode /\ current \in Apps /\ UNCHANGED <<irq, stage, call, holder, timer>>
        /\ Wake(w, woken, TRUE, "destroyed")
        /\ woken \in {<<>>, FirstOf(w), waitq[w]} /\ "destroyed" \in Results
        /\ valid' = [valid EXCEPT ![w] = FALSE]
    BY <1>3 DEF Destroy, AppCalls, Results
  <2> HIDE DEF woken
  <2>2. Prefix(woken, waitq[w]) /\ WakesOnly(woken)
    BY <2>1, WakeWithin
  <2>3. ~ valid'[w] /\ \A v \in Objects : valid'[v] => valid[v]
    BY <2>1 DEF QueueInv, Rest
  <2>4. QED BY <2>1, <2>2, <2>3, WakeCall
<1>4. QED BY <1>1, <1>2, <1>3

\* thread_exit, which wakes the dpc thread.
LEMMA ExitCall == ASSUME QueueInv, CallInv, Next, ThreadExit PROVE CallInv'
<1> DEFINE woken == IF signalled[DpcEvent] THEN <<>> ELSE waitq[DpcEvent]
           s1 == [state EXCEPT ![current] = "death"]
<1>1. /\ InUserCode /\ current \in Apps
      /\ LeaveQueue(DpcEvent, woken, "ok")
      /\ state' = [MadeReady(s1, woken) EXCEPT ![current'] = "running"]
      /\ UNCHANGED <<pc, irq, call, holder, timer, valid>>
  BY DEF ThreadExit, AppCalls, Resched
<1>2. /\ ~ InCall(current) /\ current \in Threads /\ irq = "none"
      /\ \A t \in Threads : pc[t] # "block"
      /\ DpcEvent \in Objects /\ waitq \in [Objects -> Seq(Threads)]
      /\ Lists /\ state \in [Threads -> States]
  BY <1>1, UserIsOutside, ThreadsAssumption DEF QueueInv, Lists, Objects, WaitQueues
<1>3. Prefix(woken, waitq[DpcEvent])
  <2>1. woken \in {<<>>, FirstOf(DpcEvent), waitq[DpcEvent]}
    OBVIOUS
  <2> HIDE DEF woken
  <2>2. QED BY <1>2, <2>1, PrefixesWoken
<1> HIDE DEF woken
<1>4. woken \in Seq(Threads)
  <2>1. "ok" \in Results
    BY DEF Results
  <2>2. QED BY <1>1, <1>2, <1>3, <2>1, LeaveQueueKeeps DEF Lists
<1>5. \A t \in Threads : t \in ToSet(woken) <=> On(t, woken)
  <2>1. DOMAIN woken = 1 .. Len(woken)
    BY <1>4
  <2>2. QED BY <2>1 DEF ToSet, On
<1>6. \A t \in Threads : state'[t] = IF t = current' THEN "running"
                                     ELSE IF On(t, woken) THEN "ready"
                                     ELSE IF t = current THEN "death" ELSE state[t]
  BY <1>1, <1>2, <1>5 DEF MadeReady
<1>7. \A t \in Threads : state'[t] = "blocked" => state[t] = "blocked" /\ ~ On(t, woken)
  BY <1>6
<1>8. \A t \in Threads : InCall(t) => state'[t] \in {"blocked", "ready", "running"}
  BY <1>2, <1>6 DEF CallInv
<1>9. \A t \in Threads : pc'[t] # "block"
  BY <1>1, <1>2
<1>10. QED
  BY <1>1, <1>2, <1>3, <1>7, <1>8, <1>9, WakingCall

\* Joining a queue.
LEMMA BlockingCall ==
    ASSUME QueueInv, CallInv, InUserCode, current # Boot, UNCHANGED <<irq, stage, valid, holder>>,
           NEW w \in Objects, NEW op \in WaitOps, NEW finite \in BOOLEAN,
           BlockOn(w, op, finite),
           op = "event_wait" <=> w \in Events,
           op = "mutex_acquire" => ~ finite /\ timer[current] = "none",
           w \in Mutexes => holder[w] # current
    PROVE  CallInv'
<1>1. /\ ~ InCall(current) /\ current \in Threads /\ irq = "none" /\ irq' = "none"
      /\ \A t \in Threads : pc[t] # "block"
      /\ pc \in [Threads -> PCs]
      /\ bwq \in [Threads -> Objects \cup {None}] /\ ret \in [Threads -> Results]
      /\ timer \in [Threads -> {"none", "sleep", "timeout"}]
  BY UserIsOutside DEF QueueInv, Lists, Rest
<1>2. /\ call' = [call EXCEPT ![current] = [op |-> op, obj |-> w]]
      /\ call \in [Threads -> [op : WaitOps \cup {"none"}, obj : Objects \cup {None}]]
      /\ pc' = [pc EXCEPT ![current] = "block"]
      /\ bwq' = [bwq EXCEPT ![current] = w]
      /\ ret' = [ret EXCEPT ![current] = "ok"]
      /\ timer' = IF finite THEN [timer EXCEPT ![current] = "timeout"] ELSE timer
      /\ current' = current
      /\ UNCHANGED <<valid, holder>>
  BY DEF BlockOn, Enqueue, QueueInv, Rest
<1>3. \A t \in Threads : state'[t] = IF t = current THEN "blocked" ELSE state[t]
  BY BlockOnKeeps
<1>4. \A t \in Threads : t # current =>
          /\ call'[t] = call[t] /\ pc'[t] = pc[t] /\ bwq'[t] = bwq[t] /\ ret'[t] = ret[t]
          /\ timer'[t] = timer[t] /\ state'[t] = state[t]
  BY <1>1, <1>2, <1>3
<1>5. /\ call'[current].op = op /\ call'[current].obj = w /\ pc'[current] = "block"
      /\ bwq'[current] = w /\ ret'[current] = "ok" /\ state'[current] = "blocked"
      /\ op = "mutex_acquire" => timer'[current] # "timeout"
  BY <1>1, <1>2, <1>3
<1>6. \A t \in Threads : t # current => (InCall(t)' <=> InCall(t))
  BY <1>4 DEF InCall
<1>7. \A t \in Threads : t = current => InCall(t)'
  BY <1>1, <1>2 DEF InCall
<1>8. \A t \in Threads : pc'[t] = "block" => t = current' /\ state'[t] \in {"blocked", "ready"}
  BY <1>1, <1>2, <1>4, <1>5
<1>9. \A t \in Threads : ~ InCall(t)' => call'[t] = NoCall
  <2>1. \A t \in Threads : ~ InCall(t) => call[t] = NoCall
    BY DEF CallInv
  <2>2. QED BY <1>4, <1>6, <1>7, <2>1
<1>10. \A t \in Threads : InCall(t)' =>
          /\ call'[t].op \in WaitOps
          /\ call'[t].op = "event_wait" <=> call'[t].obj \in Events
          /\ call'[t].obj \in Objects
          /\ pc'[t] # "block" => pc'[t] = call'[t].op
          /\ state'[t] \in {"blocked", "ready", "running"}
  BY <1>4, <1>5, <1>6, <1>7 DEF CallInv
<1>11. \A t \in Threads : state'[t] = "blocked" =>
          InCall(t)' /\ bwq'[t] = call'[t].obj /\ ret'[t] = "ok"
  <2>1. \A t \in Threads : state[t] = "blocked" => InCall(t) /\ bwq[t] = call[t].obj /\ ret[t] = "ok"
    BY DEF CallInv
  <2>2. QED BY <1>4, <1>5, <1>6, <1>7, <2>1
<1>12. \A t \in Threads : call'[t].op = "mutex_acquire" =>
          timer'[t] # "timeout" /\ ret'[t] # "timed_out"
  BY <1>4, <1>5 DEF CallInv
<1>13. \A t \in Threads, m \in Mutexes : call'[t].obj = m =>
          /\ ret'[t] = "destroyed" => ~ valid'[m]
          /\ valid'[m] => holder'[m] # t
  BY <1>2, <1>4, <1>5 DEF CallInv
<1>14. QED
  BY <1>1, <1>8, <1>9, <1>10, <1>11, <1>12, <1>13 DEF CallInv

\* The calls that wait.
LEMMA BlockingCalls ==
    ASSUME QueueInv, CallInv, Next,
           \/ \E e \in Events \ {DpcEvent}, b \in BOOLEAN : EventWait(e, b)
           \/ \E m \in Mutexes, b \in BOOLEAN : MutexAcquire(m, b)
           \/ DpcWait
    PROVE  CallInv'
<1>1. ASSUME NEW e \in Events, NEW b \in BOOLEAN, EventWait(e, b) PROVE CallInv'
  <2>1. /\ InUserCode /\ current # Boot /\ e \in Objects /\ e \notin Mutexes
        /\ UNCHANGED <<irq, stage, valid, holder>> /\ "event_wait" \in WaitOps
    BY <1>1, UserCode, ThreadsAssumption DEF EventWait, AppCalls, Objects, WaitOps
  <2>2. CASE UNCHANGED <<schedVars, call, timer>>
    BY <2>1, <2>2, QuietCall DEF schedVars, queueVars
  <2>3. CASE BlockOn(e, "event_wait", b)
    BY <2>1, <2>3, BlockingCall
  <2>4. QED BY <1>1, <2>2, <2>3 DEF EventWait
<1>2. ASSUME NEW m \in Mutexes, NEW b \in BOOLEAN, MutexAcquire(m, b) PROVE CallInv'
  <2> DEFINE op == IF b THEN "mutex_acquire_timeout" ELSE "mutex_acquire"
  <2>1. /\ InUserCode /\ current # Boot /\ m \in Objects /\ m \notin Events
        /\ UNCHANGED <<irq, stage, valid>> /\ op \in WaitOps
        /\ holder[m] # current /\ timer[current] = "none"
        /\ op # "event_wait" /\ (op = "mutex_acquire" => ~ b)
    BY <1>2, UserCode, ThreadsAssumption DEF MutexAcquire, AppCalls, Objects, WaitOps
  <2>2. CASE UNCHANGED <<schedVars, call, timer>> /\ holder' = [holder EXCEPT ![m] = current]
    <3>1. Lists /\ Lists'
      BY QueueStep DEF Kept, QueueInv
    <3>2. /\ ~ InCall(current) /\ current \in Threads /\ irq = "none"
          /\ call[current].obj \notin Objects
      BY <2>1, UserIsOutside
    <3>3. UNCHANGED <<state, pc, current, bwq, ret, timer, call, irq, valid>>
      BY <2>1, <2>2 DEF schedVars, queueVars
    <3>4. \A t \in Threads, n \in Mutexes : call[t].obj = n /\ holder'[n] = t => holder[n] = t
      BY <2>2, <3>2 DEF QueueInv, Rest, Objects
    <3>5. QED BY <3>3, <3>4, CallFrame DEF CallInv
  <2>3. CASE BlockOn(m, op, b) /\ UNCHANGED holder
    <3> HIDE DEF op
    <3>1. QED BY <2>1, <2>3, BlockingCall
  <2>4. QED BY <1>2, <2>2, <2>3 DEF MutexAcquire
<1>3. CASE DpcWait
  <2>1. /\ InUserCode /\ current # Boot /\ DpcEvent \in Objects /\ DpcEvent \in Events
        /\ DpcEvent \notin Mutexes
        /\ UNCHANGED <<irq, stage, valid, holder>> /\ "event_wait" \in WaitOps
    BY <1>3, UserCode, ThreadsAssumption DEF DpcWait, Objects, WaitOps, objectVars
  <2>2. CASE UNCHANGED <<schedVars, call, timer>>
    BY <2>1, <2>2, QuietCall DEF schedVars, queueVars
  <2>3. CASE BlockOn(DpcEvent, "event_wait", FALSE)
    BY <2>1, <2>3, BlockingCall
  <2>4. QED BY <1>3, <2>2, <2>3 DEF DpcWait
<1>4. QED BY <1>1, <1>2, <1>3

\* The way out of a call.
LEMMA ResumeCall == ASSUME QueueInv, CallInv, Resume PROVE CallInv'
<1> DEFINE at == pc[current]
           m == call[current].obj
<1>1. /\ at \notin {"user", "block"} /\ irq = "none" /\ irq' = "none"
      /\ pc' = [pc EXCEPT ![current] = "user"]
      /\ UNCHANGED <<state, current, bwq, ret, valid>>
      /\ IF at \in WaitOps
           THEN /\ timer' = [timer EXCEPT ![current] = "none"]
                /\ call' = [call EXCEPT ![current] = NoCall]
           ELSE UNCHANGED <<timer, call>>
      /\ UNCHANGED holder \/ (at \in WaitOps /\ holder' = [holder EXCEPT ![m] = current])
  BY DEF Resume, FinishMutex, queueVars, WaitOps
<1>2. /\ current \in Threads /\ state[current] = "running"
      /\ pc \in [Threads -> PCs]
      /\ call \in [Threads -> [op : WaitOps \cup {"none"}, obj : Objects \cup {None}]]
      /\ timer \in [Threads -> {"none", "sleep", "timeout"}]
      /\ holder \in [Mutexes -> Threads \cup {None}]
  BY <1>1 DEF QueueInv, Lists, Rest
<1>3. /\ NoCall.op \notin WaitOps /\ NoCall.obj \notin Mutexes
  BY ThreadsAssumption DEF NoCall, WaitOps, Objects
<1>4. \A t \in Threads : t # current => /\ pc'[t] = pc[t] /\ call'[t] = call[t]
                                        /\ timer'[t] = timer[t]
                                        /\ InCall(t)' <=> InCall(t)
  BY <1>1, <1>2 DEF InCall
<1>5. \A t \in Threads : t = current => ~ InCall(t)' /\ call'[t] = NoCall /\ pc'[t] = "user"
  BY <1>1, <1>2 DEF InCall, WaitOps, CallInv
<1>6. \A t \in Threads : pc'[t] = "block" => t = current' /\ state'[t] \in {"blocked", "ready"}
  BY <1>1, <1>4, <1>5 DEF CallInv
<1>7. \A t \in Threads : ~ InCall(t)' => call'[t] = NoCall
  <2>1. \A t \in Threads : ~ InCall(t) => call[t] = NoCall
    BY DEF CallInv
  <2>2. QED BY <1>4, <1>5, <2>1
<1>8. \A t \in Threads : InCall(t)' =>
          /\ call'[t].op \in WaitOps
          /\ call'[t].op = "event_wait" <=> call'[t].obj \in Events
          /\ call'[t].obj \in Objects
          /\ pc'[t] # "block" => pc'[t] = call'[t].op
          /\ state'[t] \in {"blocked", "ready", "running"}
  <2> SUFFICES ASSUME NEW t \in Threads, InCall(t)'
               PROVE  /\ call'[t].op \in WaitOps
                      /\ call'[t].op = "event_wait" <=> call'[t].obj \in Events
                      /\ call'[t].obj \in Objects
                      /\ pc'[t] # "block" => pc'[t] = call'[t].op
                      /\ state'[t] \in {"blocked", "ready", "running"}
    OBVIOUS
  <2>1. InCall(t) /\ call'[t] = call[t] /\ pc'[t] = pc[t] /\ state'[t] = state[t]
    BY <1>1, <1>4, <1>5
  <2>2. QED BY <2>1 DEF CallInv
<1>9. \A t \in Threads : state'[t] = "blocked" =>
          InCall(t)' /\ bwq'[t] = call'[t].obj /\ ret'[t] = "ok"
  <2>1. \A t \in Threads : state[t] = "blocked" => InCall(t) /\ bwq[t] = call[t].obj /\ ret[t] = "ok"
    BY DEF CallInv
  <2>2. QED BY <1>1, <1>2, <1>4, <2>1
<1>10. \A t \in Threads : call'[t].op = "mutex_acquire" =>
          timer'[t] # "timeout" /\ ret'[t] # "timed_out"
  BY <1>1, <1>3, <1>4, <1>5 DEF CallInv, WaitOps
<1>11. \A t \in Threads, n \in Mutexes : call'[t].obj = n =>
          /\ ret'[t] = "destroyed" => ~ valid'[n]
          /\ valid'[n] => holder'[n] # t
  <2> SUFFICES ASSUME NEW t \in Threads, NEW n \in Mutexes, call'[t].obj = n
               PROVE  /\ ret'[t] = "destroyed" => ~ valid'[n]
                      /\ valid'[n] => holder'[n] # t
    OBVIOUS
  <2>1. t # current /\ call[t].obj = n
    BY <1>3, <1>4, <1>5
  <2>2. holder'[n] = holder[n] \/ holder'[n] = current
    BY <1>1, <1>2
  <2>3. QED BY <1>1, <2>1, <2>2 DEF CallInv
<1>12. QED
  BY <1>1, <1>6, <1>7, <1>8, <1>9, <1>10, <1>11 DEF CallInv

\* thread_block, or what a time-out in its window has left of it.
LEMMA BlockedCall == ASSUME QueueInv, CallInv, Next, ThreadBlock PROVE CallInv'
<1>1. /\ pc[current] = "block" /\ irq = "none" /\ irq' = "none" /\ state[current] = "blocked"
      /\ pc' = [pc EXCEPT ![current] = call[current].op]
      /\ state' = [state EXCEPT ![current'] = "running"]
      /\ UNCHANGED <<waitq, bwq, ret, valid, holder, timer, call>>
  BY DEF ThreadBlock, Resched, queueVars, objectVars
<1>2. Lists /\ Lists' /\ current \in Threads /\ pc \in [Threads -> PCs]
      /\ state \in [Threads -> States]
  BY QueueStep DEF Kept, QueueInv, Lists
<1>3. \A t \in Threads : state'[t] = "blocked" <=> state[t] = "blocked"
  BY <1>1, <1>2, SameWaiters
<1>4. /\ InCall(current) /\ call[current].op \in WaitOps
      /\ \A t \in Threads : t # current => pc[t] # "block"
  BY <1>1, <1>2 DEF InCall, CallInv
<1>5. \A t \in Threads : InCall(t)' <=> InCall(t)
  BY <1>1, <1>2, <1>4 DEF InCall
<1>6. \A t \in Threads : pc'[t] # "block"
  BY <1>1, <1>2, <1>4 DEF WaitOps
<1>7. \A t \in Threads : InCall(t) => pc'[t] = call'[t].op
  BY <1>1, <1>2, <1>4 DEF CallInv
<1>8. \A t \in Threads : state'[t] \in {state[t], "running"}
  BY <1>1, <1>2
<1>9. \A t \in Threads : InCall(t)' =>
          /\ call'[t].op \in WaitOps
          /\ call'[t].op = "event_wait" <=> call'[t].obj \in Events
          /\ call'[t].obj \in Objects
          /\ pc'[t] # "block" => pc'[t] = call'[t].op
          /\ state'[t] \in {"blocked", "ready", "running"}
  BY <1>1, <1>5, <1>7, <1>8 DEF CallInv
<1>10. \A t \in Threads : state'[t] = "blocked" =>
          InCall(t)' /\ bwq'[t] = call'[t].obj /\ ret'[t] = "ok"
  BY <1>1, <1>3, <1>5 DEF CallInv
<1>11. QED
  BY <1>1, <1>5, <1>6, <1>9, <1>10 DEF CallInv

\* A new thread is in no call.
LEMMA CreateCall ==
    ASSUME QueueInv, CallInv, NEW t \in Apps, ThreadCreate(t) PROVE CallInv'
<1>1. /\ InUserCode /\ state[t] = "free" /\ t \in Threads
      /\ state' = [state EXCEPT ![t] = "suspended"]
      /\ bwq' = [bwq EXCEPT ![t] = None]
      /\ ret' = [ret EXCEPT ![t] = "ok"]
      /\ pc' = [pc EXCEPT ![t] = "new"]
      /\ UNCHANGED <<current, call, valid, holder, timer, irq>>
  BY DEF ThreadCreate, AppCalls, objectVars, Threads
<1>2. /\ irq = "none" /\ \A u \in Threads : pc[u] # "block"
  BY <1>1, UserIsOutside
<1>3. ~ InCall(t)
  BY <1>1 DEF CallInv
<1>4. "new" \in PCs \ (WaitOps \cup {"block"})
  BY DEF PCs, WaitOps
<1>5. /\ state \in [Threads -> States] /\ bwq \in [Threads -> Objects \cup {None}]
      /\ ret \in [Threads -> Results] /\ pc \in [Threads -> PCs]
  BY DEF QueueInv, Lists
<1>6. \A u \in Threads : u # t => /\ state'[u] = state[u] /\ bwq'[u] = bwq[u]
                                  /\ ret'[u] = ret[u] /\ pc'[u] = pc[u]
  BY <1>1, <1>5
<1>7. pc'[t] = "new" /\ state'[t] = "suspended" /\ ret'[t] = "ok"
  BY <1>1, <1>5
<1>8. \A u \in Threads : pc'[u] # "block"
  BY <1>2, <1>6, <1>7
<1>9. \A u \in Threads : InCall(u) => state'[u] \in {"blocked", "ready", "running"}
  BY <1>3, <1>6 DEF CallInv
<1>10. \A u \in Threads : call[u].op = "mutex_acquire" =>
                timer'[u] # "timeout" /\ ret'[u] # "timed_out"
  BY <1>1, <1>6, <1>7 DEF CallInv
<1>11. \A u \in Threads, m \in Mutexes : call[u].obj = m =>
                /\ ret'[u] = "destroyed" => ~ valid'[m]
                /\ valid'[m] => valid[m]
                /\ holder'[m] = u => holder[m] = u
  BY <1>1, <1>6, <1>7 DEF CallInv
<1>12. QED
  BY <1>1, <1>2, <1>3, <1>4, <1>6, <1>7, <1>8, <1>9, <1>10, <1>11, CallFrame

\* A step of the interrupt path before thread_preempt.
LEMMA InterruptCall ==
    ASSUME QueueInv, CallInv,
           UNCHANGED <<pc, current, call, valid, holder>>,
           irq' \notin {"none", "inside"} => pc[current] \in {"user", "block"},
           \A t \in Threads : InCall(t) => state'[t] \in {state[t], "ready"},
           \A t \in Threads : state'[t] = "blocked" =>
                state[t] = "blocked" /\ bwq'[t] = bwq[t] /\ ret'[t] = ret[t],
           \A t \in Threads : timer'[t] = "timeout" => timer[t] = "timeout",
           \A t \in Threads : ret'[t] # ret[t] =>
                ret'[t] # "destroyed" /\ (ret'[t] = "timed_out" => timer[t] = "timeout")
    PROVE  CallInv'
<1>1. \A t \in Threads : pc'[t] = "block" => t = current' /\ state'[t] \in {"blocked", "ready"}
  BY DEF CallInv, InCall
<1>2. \A t \in Threads : InCall(t) => state'[t] \in {"blocked", "ready", "running"}
  BY DEF CallInv
<1>3. \A t \in Threads : call[t].op = "mutex_acquire" =>
                timer'[t] # "timeout" /\ ret'[t] # "timed_out"
  BY DEF CallInv
<1>4. \A t \in Threads, m \in Mutexes : call[t].obj = m =>
                /\ ret'[t] = "destroyed" => ~ valid'[m]
                /\ valid'[m] => valid[m]
                /\ holder'[m] = t => holder[m] = t
  BY DEF CallInv
<1>5. QED BY <1>1, <1>2, <1>3, <1>4, CallFrame

\* Interrupts: on entry, the timers, a device that signals, and thread_preempt.
LEMMA InterruptCalls ==
    ASSUME QueueInv, CallInv, Next,
           \/ IrqEnter("tick") \/ IrqEnter("device") \/ IrqInside \/ IrqExit
           \/ \E t \in Threads : SleepTimerFires(t) \/ TimeoutFires(t)
           \/ \E e \in IrqEvents : DeviceSignals(e)
    PROVE  CallInv'
<1>0. /\ state \in [Threads -> States] /\ ret \in [Threads -> Results]
      /\ bwq \in [Threads -> Objects \cup {None}]
      /\ timer \in [Threads -> {"none", "sleep", "timeout"}]
      /\ current \in Threads /\ Lists /\ Sections
      /\ waitq \in [Objects -> Seq(Threads)]
      /\ irq \notin {"none", "inside"} => pc[current] \in {"user", "block"}
  BY DEF QueueInv, Lists, Rest, CallInv, WaitQueues
<1>1. CASE IrqEnter("tick") \/ IrqEnter("device") \/ IrqInside
  <2>1. /\ UNCHANGED <<state, pc, current, call, valid, holder, timer, bwq, ret>>
        /\ irq' = "inside" \/ pc[current] \in {"user", "block"}
    BY <1>1 DEF IrqEnter, IrqInside, Interrupted, queueVars, objectVars
  <2>2. QED BY <2>1, InterruptCall
<1>2. ASSUME NEW t \in Threads, SleepTimerFires(t) PROVE CallInv'
  <2>1. /\ UNCHANGED <<pc, current, call, valid, holder, bwq, ret>>
        /\ irq = "tick" /\ timer' = [timer EXCEPT ![t] = "none"]
        /\ UNCHANGED state \/ (state[t] = "sleeping" /\ state' = [state EXCEPT ![t] = "ready"])
    BY <1>2 DEF SleepTimerFires, Panic, Balanced, queueVars, objectVars
  <2>2. \A u \in Threads : InCall(u) => state'[u] \in {state[u], "ready"}
    BY <1>0, <2>1
  <2>3. \A u \in Threads : state'[u] = "blocked" => state[u] = "blocked"
    BY <1>0, <2>1
  <2>4. QED BY <1>0, <2>1, <2>2, <2>3, InterruptCall
<1>3. ASSUME NEW t \in Threads, TimeoutFires(t) PROVE CallInv'
  <2>1. /\ UNCHANGED <<pc, current, call, valid, holder>>
        /\ irq = "tick" /\ timer[t] = "timeout" /\ timer' = [timer EXCEPT ![t] = "none"]
        /\ \/ UNCHANGED <<state, bwq, ret>>
           \/ /\ state' = [state EXCEPT ![t] = "ready"]
              /\ ret' = [ret EXCEPT ![t] = "timed_out"]
              /\ bwq' = [bwq EXCEPT ![t] = None]
    BY <1>3 DEF TimeoutFires, Unblock, Balanced, queueVars, objectVars
  <2>2. \A u \in Threads : InCall(u) => state'[u] \in {state[u], "ready"}
    BY <1>0, <2>1
  <2>3. \A u \in Threads : state'[u] = "blocked" =>
                state[u] = "blocked" /\ bwq'[u] = bwq[u] /\ ret'[u] = ret[u]
    BY <1>0, <2>1
  <2>4. \A u \in Threads : ret'[u] # ret[u] =>
                ret'[u] # "destroyed" /\ (ret'[u] = "timed_out" => timer[u] = "timeout")
    BY <1>0, <2>1
  <2>5. \A u \in Threads : timer'[u] = "timeout" => timer[u] = "timeout"
    BY <1>0, <2>1
  <2>6. QED BY <1>0, <2>1, <2>2, <2>3, <2>4, <2>5, InterruptCall
<1>4. ASSUME NEW e \in IrqEvents, DeviceSignals(e) PROVE CallInv'
  <2>1. /\ irq = "device" /\ e \in Events /\ e \in Objects
        /\ UNCHANGED <<stage, valid, holder, timer, call>>
        /\ SignalEvent(e, FALSE)
    BY <1>4, KernelAssumption DEF DeviceSignals, Objects
  <2>2. \/ UNCHANGED <<schedVars, signalled>>
        \/ \E woken \in {<<>>, FirstOf(e), waitq[e]} :
              /\ Prefix(woken, waitq[e])
              /\ Wake(e, woken, FALSE, "ok")
              /\ WakesOnly(woken)
    BY <2>1, SignalEventKeeps
  <2>3. CASE UNCHANGED <<schedVars, signalled>>
    <3>1. UNCHANGED <<state, pc, current, bwq, ret>>
      BY <2>3 DEF schedVars, queueVars
    <3>2. QED BY <1>0, <2>1, <3>1, InterruptCall
  <2>4. ASSUME NEW woken, Prefix(woken, waitq[e]), Wake(e, woken, FALSE, "ok"), WakesOnly(woken)
        PROVE  CallInv'
    <3>1. /\ LeaveQueue(e, woken, "ok") /\ "ok" \in Results
          /\ state' = MadeReady(state, woken) /\ UNCHANGED <<pc, current>>
      BY <2>4 DEF Wake, Balanced, Results
    <3>2. \A u \in Threads : state'[u] \in {state[u], "ready"}
      BY <1>0, <3>1 DEF MadeReady
    <3>3. /\ \A u \in Threads : bwq'[u] = IF On(u, woken) THEN None ELSE bwq[u]
          /\ \A u \in Threads : ret'[u] = IF On(u, woken) THEN "ok" ELSE ret[u]
      BY <2>1, <2>4, <3>1, WokenFacts
    <3>4. \A u \in Threads : state'[u] = "blocked" =>
                state[u] = "blocked" /\ bwq'[u] = bwq[u] /\ ret'[u] = ret[u]
      BY <2>4, <3>3 DEF WakesOnly
    <3>5. \A u \in Threads : ret'[u] # ret[u] => ret'[u] = "ok"
      BY <3>3
    <3>6. QED BY <1>0, <2>1, <3>1, <3>2, <3>4, <3>5, InterruptCall
  <2>5. QED BY <2>2, <2>3, <2>4
<1>5. CASE IrqExit
  <2>1. /\ UNCHANGED <<waitq, call, valid, holder, timer, bwq, ret>> /\ irq' = "none"
        /\ irq \notin {"none", "inside"}
        /\ \/ UNCHANGED <<state, pc, current>>
           \/ /\ state[current] = "running"
              /\ pc' = [pc EXCEPT ![current] = "preempt"]
              /\ state' = [[state EXCEPT ![current] = "ready"] EXCEPT ![current'] = "running"]
    BY <1>5 DEF IrqExit, Panic, Preempt, Resched, queueVars, objectVars
  <2>2. CASE UNCHANGED <<state, pc, current>>
    BY <1>0, <2>1, <2>2, InterruptCall
  <2>3. CASE /\ state[current] = "running"
             /\ pc' = [pc EXCEPT ![current] = "preempt"]
             /\ state' = [[state EXCEPT ![current] = "ready"] EXCEPT ![current'] = "running"]
    <3>1. \A t \in Threads : pc[t] # "block"
      BY <2>3, RunningIsNoWindow
    <3>2. ~ InCall(current) /\ pc \in [Threads -> PCs]
      BY <1>0, <2>1, <3>1 DEF InCall, WaitOps, Lists
    <3>3. "preempt" \in PCs \ (WaitOps \cup {"block"})
      BY DEF PCs, WaitOps
    <3>4. \A t \in Threads : pc'[t] # "block"
      BY <2>3, <3>1, <3>2
    <3>5. \A t \in Threads : InCall(t) => state'[t] \in {"blocked", "ready", "running"}
      BY <1>0, <2>3, <3>2 DEF CallInv
    <3>6. \A t \in Threads : state'[t] = "blocked" => state[t] = "blocked"
      BY <2>1, QueueStep, SameWaiters DEF Kept, QueueInv
    <3>7. \A t \in Threads : call[t].op = "mutex_acquire" =>
                timer'[t] # "timeout" /\ ret'[t] # "timed_out"
      BY <2>1 DEF CallInv
    <3>8. \A t \in Threads, m \in Mutexes : call[t].obj = m =>
                /\ ret'[t] = "destroyed" => ~ valid'[m]
                /\ valid'[m] => valid[m]
                /\ holder'[m] = t => holder[m] = t
      BY <2>1 DEF CallInv
    <3>9. QED BY <1>0, <2>1, <2>3, <3>2, <3>3, <3>4, <3>5, <3>6, <3>7, <3>8, CallFrame
  <2>4. QED BY <2>1, <2>2, <2>3
<1>6. QED BY <1>1, <1>2, <1>3, <1>4, <1>5

\* Each step, by its kind.
LEMMA CallStep == QueueInv /\ CallInv /\ [Next]_vars => CallInv'
<1> SUFFICES ASSUME QueueInv, CallInv, [Next]_vars PROVE CallInv'
  OBVIOUS
<1>1. CASE UNCHANGED vars
  BY <1>1 DEF vars, schedVars, queueVars, objectVars, CallInv, InCall
<1>2. CASE Halted
  BY <1>1, <1>2 DEF Halted
<1>3. CASE Next /\ ~ Halted
  BY <1>3, QuietCalls, WakingCalls, ExitCall, BlockingCalls, ResumeCall, BlockedCall, CreateCall,
     InterruptCalls DEF Next
<1>4. QED BY <1>1, <1>2, <1>3

\* The invariant holds once kmain has set up its threads.
LEMMA InitCall == Init => CallInv
<1> SUFFICES ASSUME Init PROVE CallInv
  OBVIOUS
<1>1. \A t \in Threads : pc[t] \in {"user", "new"} /\ call[t] = NoCall /\ state[t] # "blocked"
  BY DEF Init
<1>2. \A t \in Threads : ~ InCall(t)
  BY <1>1 DEF InCall, WaitOps
<1>3. NoCall.op # "mutex_acquire" /\ NoCall.obj \notin Mutexes
  BY ThreadsAssumption DEF NoCall
<1>4. irq = "none"
  BY DEF Init
<1>5. QED BY <1>1, <1>2, <1>3, <1>4 DEF CallInv

\* The invariants of the model, the states it calls Torn included.
LEMMA CallInvAlways == Spec => [](QueueInv /\ CallInv)
<1>1. Init => CallInv
  BY InitCall
<1>2. QED
  BY <1>1, CallStep, QueueInvAlways, PTL DEF Spec

\* Whatever threads call and whenever interrupts come between the calls or in the window of
\* wait_queue_block, what the scheduler and the waits know of each other agrees: up to the
\* interrupt that comes into a call after thread.c:902 has left a section counted.
THEOREM CallInvHolds == Spec => [](~Torn => QueueInv /\ CallInv)
BY CallInvAlways, PTL

---------------------------------------------------------------------------
(* The mutexes *)

\* Contenders can be counted, for Apps is finite.
LEMMA ContendersFinite == \A m : IsFiniteSet(Contenders(m)) /\ Cardinality(Contenders(m)) \in Nat
<1>1. IsFiniteSet(Threads)
  <2>1. IsFiniteSet(Apps \cup {Boot})
    BY ThreadsAssumption, FS_AddElement
  <2>2. IsFiniteSet((Apps \cup {Boot}) \cup {Dpc})
    BY <2>1, FS_AddElement
  <2>3. Threads = (Apps \cup {Boot}) \cup {Dpc}
    BY DEF Threads
  <2>4. QED BY <2>2, <2>3
<1>2. \A m : Contenders(m) \subseteq Threads
  BY DEF Contenders
<1>3. \A m : IsFiniteSet(Contenders(m))
  BY <1>1, <1>2, FS_Subset
<1>4. QED BY <1>3, FS_CardinalityType

\* Who owns a mutex is counted.
LEMMA OwnersContend == \A m \in Mutexes : Owners(m) \subseteq Contenders(m)
BY DEF Owners, Granted, Contenders

\* What a step that grants nothing has to leave alone.
LEMMA MutexFrame ==
    ASSUME MutexInv,
           \A m \in Mutexes : valid'[m] =>
              /\ valid[m] /\ mcount'[m] = mcount[m]
              /\ Contenders(m)' = Contenders(m)
              /\ Owners(m)' \subseteq Owners(m)
    PROVE  MutexInv'
BY DEF MutexInv

LEMMA GrantFrame ==
    ASSUME MutexInv, UNCHANGED call,
           \A m \in Mutexes : valid'[m] =>
              valid[m] /\ mcount'[m] = mcount[m] /\ holder'[m] = holder[m],
           \A t \in Threads, m \in Mutexes :
              /\ call[t].obj = m /\ valid'[m]
              /\ state'[t] # "blocked" /\ pc'[t] # "block" /\ ret'[t] = "ok"
              => state[t] # "blocked" /\ pc[t] # "block" /\ ret[t] = "ok"
    PROVE  MutexInv'
<1> SUFFICES ASSUME NEW m \in Mutexes, valid'[m]
             PROVE  /\ Contenders(m)' = Contenders(m)
                    /\ Owners(m)' \subseteq Owners(m)
  BY MutexFrame
<1>1. Contenders(m)' = Contenders(m)
  BY DEF Contenders
<1>2. Granted(m)' \subseteq Granted(m)
  BY DEF Granted
<1>3. QED BY <1>1, <1>2 DEF Owners

\* A step that leaves the mutexes that stay valid, and those inside a call on one
\* of them, as they were.
Untouched ==
    /\ UNCHANGED call
    /\ \A m \in Mutexes : valid'[m] =>
          /\ valid[m] /\ mcount'[m] = mcount[m]
          /\ holder'[m] = holder[m] /\ waitq'[m] = waitq[m]
    /\ \A t \in Threads, m \in Mutexes : call[t].obj = m /\ valid'[m] =>
          /\ state'[t] = "blocked" <=> state[t] = "blocked"
          /\ ret'[t] = ret[t]
          /\ pc'[t] = "block" => pc[t] = "block"
          /\ pc[t] = "block" /\ pc'[t] # "block" => state[t] = "blocked"

\* Such a step keeps the mutexes.
LEMMA UntouchedKeeps == ASSUME MutexInv, Untouched PROVE MutexInv'
BY GrantFrame DEF Untouched

\* A step that wakes nobody and leaves calls and mutexes alone.
LEMMA QuietMutexes ==
    ASSUME QueueInv, CallInv, Next,
           UNCHANGED <<waitq, call, holder, mcount, valid>>,
           \A t \in Threads : InCall(t) => ret'[t] = ret[t],
           \A t \in Threads : pc'[t] = "block" => pc[t] = "block",
           \A t \in Threads : pc[t] = "block" /\ pc'[t] # "block" => state[t] = "blocked"
    PROVE  Untouched
<1>1. \A t \in Threads : state'[t] = "blocked" <=> state[t] = "blocked"
  BY QueueStep, SameWaiters DEF Kept, QueueInv
<1>2. \A t \in Threads, m \in Mutexes : call[t].obj = m => InCall(t)
  BY ThreadsAssumption DEF CallInv, NoCall
<1>3. QED BY <1>1, <1>2 DEF Untouched

\* The steps that wake nobody.
LEMMA QuietMutexCalls ==
    ASSUME QueueInv, CallInv, Next,
           \/ KmainDpcInit \/ KmainTimerInit \/ KmainEnable \/ KmainBecomeIdle
           \/ \E t \in InitialApps : KmainResume(t)
           \/ ThreadYield \/ ThreadSleep \/ \E t \in Apps : ThreadResume(t)
           \/ ThreadBlock \/ \E t \in Apps : ThreadCreate(t)
           \/ DpcTake \/ DpcCleanup \/ \E e \in Events : EventUnsignal(e)
           \/ IrqEnter("tick") \/ IrqEnter("device") \/ IrqInside \/ IrqExit
           \/ \E t \in Threads : SleepTimerFires(t)
    PROVE  Untouched
<1>0. pc \in [Threads -> PCs] /\ ret \in [Threads -> Results]
  BY DEF QueueInv, Lists
<1>1. CASE KmainDpcInit \/ KmainTimerInit \/ KmainEnable \/ KmainBecomeIdle
           \/ \E t \in InitialApps : KmainResume(t)
  <2>1. /\ InUserCode /\ UNCHANGED <<waitq, ret, call, holder, mcount, valid>>
        /\ pc' = pc \/ \E x : x # "block" /\ pc' = [pc EXCEPT ![current] = x]
    BY <1>1 DEF KmainDpcInit, KmainEnable, KmainBecomeIdle, KmainTimerInit, KmainResume,
          ResumeThread, YieldAt, schedVars, queueVars, objectVars
  <2>2. QED BY <1>0, <2>1, UserIsOutside, QuietMutexes
<1>2. CASE ThreadYield \/ ThreadSleep \/ \E t \in Apps : ThreadResume(t)
  <2>1. /\ InUserCode /\ UNCHANGED <<waitq, ret, call, holder, mcount, valid>>
        /\ pc' = pc \/ \E x : x # "block" /\ pc' = [pc EXCEPT ![current] = x]
    BY <1>2 DEF ThreadYield, ThreadSleep, ThreadResume, AppCalls, ResumeThread, YieldAt,
          queueVars, objectVars
  <2>2. QED BY <1>0, <2>1, UserIsOutside, QuietMutexes
<1>3. CASE DpcTake \/ DpcCleanup \/ \E e \in Events : EventUnsignal(e)
  <2>1. InUserCode /\ UNCHANGED <<waitq, ret, call, holder, mcount, valid, pc>>
    BY <1>3 DEF DpcTake, DpcCleanup, EventUnsignal, AppCalls, Panic, schedVars, queueVars, objectVars
  <2>2. QED BY <1>0, <2>1, UserIsOutside, QuietMutexes
<1>4. CASE ThreadBlock
  <2>1. /\ pc' = [pc EXCEPT ![current] = call[current].op] /\ state[current] = "blocked"
        /\ UNCHANGED <<waitq, ret, call, holder, mcount, valid>>
    BY <1>4 DEF ThreadBlock, queueVars, objectVars
  <2>2. call[current].op # "block"
    BY DEF QueueInv, Rest, Lists, WaitOps
  <2>3. QED BY <1>0, <2>1, <2>2, QuietMutexes
<1>5. ASSUME NEW t \in Apps, ThreadCreate(t) PROVE Untouched
  <2>1. /\ InUserCode /\ state[t] = "free" /\ t \in Threads
        /\ ret' = [ret EXCEPT ![t] = "ok"] /\ pc' = [pc EXCEPT ![t] = "new"]
        /\ UNCHANGED <<waitq, call, holder, mcount, valid>>
    BY <1>5 DEF ThreadCreate, AppCalls, objectVars, Threads
  <2>2. ~ InCall(t)
    BY <2>1 DEF CallInv
  <2>3. \A u \in Threads : InCall(u) => ret'[u] = ret[u]
    BY <1>0, <2>1, <2>2
  <2>4. QED BY <1>0, <2>1, <2>3, UserIsOutside, QuietMutexes
<1>6. CASE \/ IrqEnter("tick") \/ IrqEnter("device") \/ IrqInside
           \/ \E t \in Threads : SleepTimerFires(t)
  <2>1. UNCHANGED <<waitq, ret, call, holder, mcount, valid, pc>>
    BY <1>6 DEF IrqEnter, IrqInside, Interrupted, SleepTimerFires, Panic, queueVars, objectVars
  <2>2. QED BY <2>1, QuietMutexes
<1>7. CASE IrqExit
  <2>1. /\ UNCHANGED <<waitq, ret, call, holder, mcount, valid>>
        /\ UNCHANGED pc \/ (state[current] = "running" /\ pc' = [pc EXCEPT ![current] = "preempt"])
    BY <1>7 DEF IrqExit, Panic, Preempt, queueVars, objectVars
  <2>2. QED BY <1>0, <2>1, RunningIsNoWindow, QuietMutexes
<1>8. QED BY <1>1, <1>2, <1>3, <1>4, <1>5, <1>6, <1>7

\* Waking the threads of an event, or all those of an object that is destroyed,
\* grants no mutex.
LEMMA WakingMutexes ==
    ASSUME QueueInv, CallInv, NEW w \in Objects, NEW woken, Prefix(woken, waitq[w]),
           NEW result \in Results, LeaveQueue(w, woken, result),
           UNCHANGED <<call, holder>>,
           \A t \in Threads : state'[t] = "blocked" <=> state[t] = "blocked" /\ ~ On(t, woken),
           \A t \in Threads : pc[t] = "block" => pc'[t] = "block",
           \A t \in Threads : pc'[t] = "block" => pc[t] = "block",
           \A m \in Mutexes : valid'[m] => valid[m] /\ mcount'[m] = mcount[m] /\ m # w
    PROVE  Untouched
<1>1. /\ \A t \in Threads : On(t, woken) => state[t] = "blocked" /\ bwq[t] = w
      /\ \A t \in Threads : ret'[t] = IF On(t, woken) THEN result ELSE ret[t]
  BY WokenFacts
<1>2. \A t \in Threads : On(t, woken) => call[t].obj = w
  BY <1>1 DEF CallInv
<1>3. \A m \in Mutexes : m # w => waitq'[m] = waitq[m]
  BY DEF LeaveQueue, QueueInv, Lists, WaitQueues, Objects
<1>4. QED BY <1>1, <1>2, <1>3 DEF Untouched

\* The steps that wake, mutex_release apart.
LEMMA WakingMutexCalls ==
    ASSUME QueueInv, CallInv, Next,
           \/ \E e \in Events, b \in BOOLEAN : EventSignal(e, b)
           \/ \E e \in IrqEvents : DeviceSignals(e)
           \/ \E w \in Objects \ {DpcEvent} : Destroy(w)
    PROVE  Untouched
<1>1. ASSUME NEW e \in Events, NEW b \in BOOLEAN, SignalEvent(e, b),
             UNCHANGED <<call, holder, mcount, valid, stage>>,
             b => state[current] = "running" /\ current # Boot /\ irq' = "none",
             irq' # "none" => irq # "none",
             InUserCode \/ ~ b
      PROVE  Untouched
  <2>1. \/ UNCHANGED <<schedVars, signalled>>
        \/ \E woken \in {<<>>, FirstOf(e), waitq[e]} :
              /\ Prefix(woken, waitq[e])
              /\ Wake(e, woken, b, "ok")
              /\ WakesOnly(woken)
    BY <1>1, SignalEventKeeps
  <2>2. CASE UNCHANGED <<schedVars, signalled>>
    <3>1. UNCHANGED <<waitq, ret, pc, call, holder, mcount, valid>>
      BY <1>1, <2>2 DEF schedVars, queueVars
    <3>2. QED BY <3>1, QuietMutexes
  <2>3. ASSUME NEW woken, Prefix(woken, waitq[e]), Wake(e, woken, b, "ok"), WakesOnly(woken)
        PROVE  Untouched
    <3>1. /\ e \in Objects /\ e \notin Mutexes /\ "ok" \in Results
          /\ pc \in [Threads -> PCs]
      BY ThreadsAssumption DEF Objects, Results, QueueInv, Lists
    <3>2. LeaveQueue(e, woken, "ok") /\ (pc' = pc \/ (b /\ pc' = [pc EXCEPT ![current] = "signal"]))
      BY <2>3 DEF Wake
    <3>3. \A t \in Threads : pc[t] = "block" <=> pc'[t] = "block"
      BY <1>1, <3>1, <3>2, UserIsOutside
    <3>4. \A t \in Threads : state'[t] = "blocked" <=> state[t] = "blocked" /\ ~ On(t, woken)
      BY <2>3 DEF WakesOnly
    <3>5. QED BY <1>1, <2>3, <3>1, <3>2, <3>3, <3>4, WakingMutexes
  <2>4. QED BY <2>1, <2>2, <2>3
<1>2. ASSUME NEW e \in Events, NEW b \in BOOLEAN, EventSignal(e, b) PROVE Untouched
  <2>1. InUserCode /\ current \in Apps /\ SignalEvent(e, b)
        /\ UNCHANGED <<call, holder, mcount, valid, stage, irq>>
    BY <1>2 DEF EventSignal, AppCalls
  <2>2. state[current] = "running" /\ current # Boot /\ irq' = "none"
    BY <2>1, UserCode
  <2>3. QED BY <1>1, <2>1, <2>2
<1>3. ASSUME NEW e \in IrqEvents, DeviceSignals(e) PROVE Untouched
  <2>1. /\ e \in Events /\ SignalEvent(e, FALSE) /\ irq # "none"
        /\ UNCHANGED <<call, holder, mcount, valid, stage>>
    BY <1>3, KernelAssumption DEF DeviceSignals
  <2>2. QED BY <1>1, <2>1
<1>4. ASSUME NEW w \in Objects, Destroy(w) PROVE Untouched
  <2> DEFINE woken == waitq[w]
  <2>1. /\ InUserCode /\ current \in Apps /\ UNCHANGED <<irq, stage, call, holder>>
        /\ Wake(w, woken, TRUE, "destroyed")
        /\ woken \in {<<>>, FirstOf(w), waitq[w]} /\ "destroyed" \in Results
        /\ valid' = [valid EXCEPT ![w] = FALSE]
        /\ mcount' = [m \in Mutexes |-> IF m = w THEN 0 ELSE mcount[m]]
        /\ pc \in [Threads -> PCs]
    BY <1>4 DEF Destroy, AppCalls, Results, QueueInv, Lists
  <2> HIDE DEF woken
  <2>2. Prefix(woken, waitq[w]) /\ WakesOnly(woken)
    BY <2>1, WakeWithin
  <2>3. LeaveQueue(w, woken, "destroyed") /\ (pc' = pc \/ pc' = [pc EXCEPT ![current] = "signal"])
    BY <2>1 DEF Wake
  <2>4. \A m \in Mutexes : valid'[m] => valid[m] /\ mcount'[m] = mcount[m] /\ m # w
    BY <2>1 DEF QueueInv, Rest, Objects
  <2>5. \A t \in Threads : pc[t] = "block" <=> pc'[t] = "block"
    BY <2>1, <2>3, UserIsOutside
  <2>6. \A t \in Threads : state'[t] = "blocked" <=> state[t] = "blocked" /\ ~ On(t, woken)
    BY <2>2 DEF WakesOnly
  <2>7. QED BY <2>1, <2>2, <2>3, <2>4, <2>5, <2>6, WakingMutexes
<1>5. QED BY <1>2, <1>3, <1>4

\* thread_exit wakes the dpc thread, which waits for an event.
LEMMA ExitMutexes == ASSUME QueueInv, CallInv, Next, ThreadExit PROVE Untouched
<1> DEFINE woken == IF signalled[DpcEvent] THEN <<>> ELSE waitq[DpcEvent]
           s1 == [state EXCEPT ![current] = "death"]
<1>1. /\ InUserCode /\ current \in Apps
      /\ LeaveQueue(DpcEvent, woken, "ok")
      /\ state' = [MadeReady(s1, woken) EXCEPT ![current'] = "running"]
      /\ UNCHANGED <<pc, call, holder, mcount, valid>>
  BY DEF ThreadExit, AppCalls, Resched
<1>2. /\ DpcEvent \in Objects /\ DpcEvent \notin Mutexes /\ waitq \in [Objects -> Seq(Threads)]
      /\ Lists /\ state \in [Threads -> States] /\ "ok" \in Results
      /\ current \in Threads /\ state[current] = "running"
  BY <1>1, UserIsOutside, ThreadsAssumption DEF QueueInv, Lists, Objects, WaitQueues, Results
<1>3. Prefix(woken, waitq[DpcEvent])
  <2>1. woken \in {<<>>, FirstOf(DpcEvent), waitq[DpcEvent]}
    OBVIOUS
  <2> HIDE DEF woken
  <2>2. QED BY <1>2, <2>1, PrefixesWoken
<1> HIDE DEF woken
<1>4. woken \in Seq(Threads)
  BY <1>1, <1>2, <1>3, LeaveQueueKeeps DEF Lists
<1>5. \A t \in Threads : t \in ToSet(woken) <=> On(t, woken)
  <2>1. DOMAIN woken = 1 .. Len(woken)
    BY <1>4
  <2>2. QED BY <2>1 DEF ToSet, On
<1>6. \A t \in Threads : On(t, woken) => state[t] = "blocked" /\ call[t].obj = DpcEvent
  BY <1>1, <1>2, <1>3, WokenFacts DEF CallInv
<1>7. \A t \in Threads : ret'[t] = IF On(t, woken) THEN "ok" ELSE ret[t]
  BY <1>1, <1>2, <1>3, WokenFacts
<1>8. \A t \in Threads : state'[t] # "blocked" /\ ~ On(t, woken) => state[t] # "blocked" \/ t = current'
  BY <1>1, <1>2, <1>5 DEF MadeReady
<1>9. \A v \in Objects : v # DpcEvent => waitq'[v] = waitq[v]
  BY <1>1, <1>2 DEF LeaveQueue
<1>10. \A t \in Threads, m \in Mutexes :
              call[t].obj = m /\ state'[t] # "blocked" => state[t] # "blocked"
  <2> SUFFICES ASSUME NEW t \in Threads, NEW m \in Mutexes, call[t].obj = m, state[t] = "blocked"
               PROVE  state'[t] = "blocked"
    OBVIOUS
  <2>1. bwq[t] = m /\ m \in Objects /\ m # DpcEvent
    BY <1>2 DEF CallInv, Objects
  <2>2. On(t, waitq[m])
    BY <1>2, <2>1 DEF Lists, WaitQueues
  <2>3. On(t, waitq'[m])
    BY <1>9, <2>1, <2>2
  <2>4. Lists'
    BY QueueStep DEF Kept
  <2>5. QED BY <2>1, <2>3, <2>4 DEF Lists, WaitQueues
<1>11. \A t \in Threads, m \in Mutexes :
              call[t].obj = m /\ state'[t] = "blocked" => state[t] = "blocked"
  BY <1>1, <1>2, <1>5 DEF MadeReady
<1>12. \A m \in Mutexes : waitq'[m] = waitq[m]
  BY <1>2, <1>9 DEF Objects
<1>13. ASSUME NEW t \in Threads, NEW m \in Mutexes, call[t].obj = m
       PROVE  /\ state'[t] = "blocked" <=> state[t] = "blocked"
              /\ ret'[t] = ret[t] /\ pc'[t] = pc[t]
  <2>1. ret'[t] = ret[t] /\ pc'[t] = pc[t]
    BY <1>1, <1>2, <1>6, <1>7, <1>13
  <2>2. QED BY <1>10, <1>11, <1>13, <2>1
<1>14. QED
  BY <1>1, <1>12, <1>13 DEF Untouched

\* A time-out: who is in the queue of a mutex and leaves it with ERR_TIMED_OUT owns
\* nothing.
LEMMA TimeoutMutexes ==
    ASSUME QueueInv, CallInv, MutexInv, Next, NEW t \in Threads, TimeoutFires(t)
    PROVE  MutexInv'
<1>0. ret \in [Threads -> Results] /\ state \in [Threads -> States]
  BY DEF QueueInv, Lists
<1>1. UNCHANGED <<call, holder, mcount, valid>>
  BY DEF TimeoutFires, objectVars
<1>2. CASE UNCHANGED <<waitq, ret, pc>>
  BY <1>1, <1>2, QuietMutexes, UntouchedKeeps
<1>3. CASE Unblock(t, "timed_out")
  <2>1. /\ state' = [state EXCEPT ![t] = "ready"]
        /\ ret' = [ret EXCEPT ![t] = "timed_out"]
        /\ UNCHANGED pc
    BY <1>3 DEF Unblock
  <2>2. \A u \in Threads, m \in Mutexes :
              /\ call[u].obj = m /\ valid'[m]
              /\ state'[u] # "blocked" /\ pc'[u] # "block" /\ ret'[u] = "ok"
              => state[u] # "blocked" /\ pc[u] # "block" /\ ret[u] = "ok"
    BY <1>0, <2>1
  <2>3. QED BY <1>1, <2>2, GrantFrame
<1>4. QED BY <1>2, <1>3 DEF TimeoutFires, queueVars

\* Joining the queue of w makes the current thread a contender of w and grants
\* nothing.
LEMMA BlockingMutexes ==
    ASSUME QueueInv, CallInv, InUserCode, current # Boot, UNCHANGED <<irq, stage, holder>>,
           NEW w \in Objects, NEW op, NEW finite, BlockOn(w, op, finite)
    PROVE  /\ \A m \in Mutexes : Contenders(m)' = IF m = w THEN Contenders(m) \cup {current}
                                                           ELSE Contenders(m)
           /\ \A m \in Mutexes : Owners(m)' = Owners(m)
           /\ \A m \in Mutexes : m # w => waitq'[m] = waitq[m]
           /\ \A t \in Threads : pc'[t] = "block" => state'[t] = "blocked"
           /\ \A t \in Threads : call'[t].op \in {op, call[t].op}
<1>1. /\ current \in Threads /\ call[current].obj \notin Mutexes
      /\ pc \in [Threads -> PCs] /\ ret \in [Threads -> Results]
      /\ call \in [Threads -> [op : WaitOps \cup {"none"}, obj : Objects \cup {None}]]
  BY UserIsOutside DEF QueueInv, Lists, Rest, Objects
<1>2. /\ call' = [call EXCEPT ![current] = [op |-> op, obj |-> w]]
      /\ pc' = [pc EXCEPT ![current] = "block"]
      /\ ret' = [ret EXCEPT ![current] = "ok"]
  BY DEF BlockOn, Enqueue
<1>3. \A t \in Threads : state'[t] = IF t = current THEN "blocked" ELSE state[t]
  BY BlockOnKeeps
<1>4. \A t \in Threads : t # current => /\ call'[t] = call[t] /\ pc'[t] = pc[t]
                                        /\ ret'[t] = ret[t] /\ state'[t] = state[t]
  BY <1>1, <1>2, <1>3
<1>5. call'[current].obj = w /\ state'[current] = "blocked"
  BY <1>1, <1>2, <1>3
<1>6. ASSUME NEW m \in Mutexes
      PROVE  Contenders(m)' = IF m = w THEN Contenders(m) \cup {current} ELSE Contenders(m)
  BY <1>1, <1>4, <1>5 DEF Contenders
<1>7. ASSUME NEW m \in Mutexes PROVE Owners(m)' = Owners(m)
  <2>1. current \notin Granted(m) /\ \A t \in Granted(m)' : t # current
    BY <1>1, <1>5 DEF Granted
  <2>2. Granted(m)' = Granted(m)
    BY <1>4, <2>1 DEF Granted
  <2>3. QED BY <2>2 DEF Owners
<1>8. ASSUME NEW m \in Mutexes, m # w PROVE waitq'[m] = waitq[m]
  <2>1. m \in Objects /\ waitq' = [waitq EXCEPT ![w] = Append(@, current)]
    BY DEF Objects, BlockOn, Enqueue
  <2>2. QED BY <1>8, <2>1 DEF QueueInv, Lists, WaitQueues
<1>9. \A t \in Threads : pc'[t] = "block" => state'[t] = "blocked"
  BY <1>4, <1>5, UserIsOutside
<1>10. \A t \in Threads : call'[t].op \in {op, call[t].op}
  BY <1>1, <1>2, <1>4
<1>11. QED BY <1>6, <1>7, <1>8, <1>9, <1>10

\* The waits for an event.
LEMMA EventWaitMutexes ==
    ASSUME QueueInv, CallInv, MutexInv, Next,
           (\E e \in Events, b \in BOOLEAN : EventWait(e, b)) \/ DpcWait
    PROVE  MutexInv'
<1>1. ASSUME NEW e \in Events, NEW op, NEW b, BlockOn(e, op, b), InUserCode, current # Boot,
             UNCHANGED <<irq, stage, holder, mcount, valid>>
      PROVE  MutexInv'
  <2>1. e \in Objects /\ e \notin Mutexes
    BY ThreadsAssumption DEF Objects
  <2>2. \A m \in Mutexes : /\ Contenders(m)' = Contenders(m)
                           /\ Owners(m)' \subseteq Owners(m)
    BY <1>1, <2>1, BlockingMutexes
  <2>3. QED BY <1>1, <2>2, MutexFrame
<1>2. ASSUME NEW e \in Events, NEW b \in BOOLEAN, EventWait(e, b) PROVE MutexInv'
  <2>1. InUserCode /\ current # Boot /\ UNCHANGED <<irq, stage, holder, mcount, valid>>
    BY <1>2, UserCode DEF EventWait, AppCalls
  <2>2. CASE UNCHANGED <<schedVars, call, timer>>
    BY <2>1, <2>2, QuietMutexes, UntouchedKeeps DEF schedVars, queueVars
  <2>3. CASE BlockOn(e, "event_wait", b)
    BY <1>1, <2>1, <2>3
  <2>4. QED BY <1>2, <2>2, <2>3 DEF EventWait
<1>3. CASE DpcWait
  <2>1. InUserCode /\ current # Boot /\ UNCHANGED <<irq, stage, holder, mcount, valid>>
    BY <1>3, UserCode DEF DpcWait, objectVars
  <2>2. CASE UNCHANGED <<schedVars, call, timer>>
    BY <2>1, <2>2, QuietMutexes, UntouchedKeeps DEF schedVars, queueVars
  <2>3. CASE BlockOn(DpcEvent, "event_wait", FALSE)
    BY <1>1, <2>1, <2>3, ThreadsAssumption
  <2>4. QED BY <1>3, <2>2, <2>3 DEF DpcWait
<1>4. QED BY <1>2, <1>3

\* mutex_acquire: the first takes the mutex, the others join its queue.
LEMMA AcquireMutexes ==
    ASSUME QueueInv, CallInv, MutexInv, NEW m \in Mutexes, NEW b \in BOOLEAN, MutexAcquire(m, b)
    PROVE  /\ MutexInv'
           /\ \A n \in Mutexes : holder[n] \in Threads => holder'[n] = holder[n]
<1> DEFINE op == IF b THEN "mutex_acquire_timeout" ELSE "mutex_acquire"
<1>1. /\ InUserCode /\ current # Boot /\ current \in Threads
      /\ valid[m] /\ holder[m] # current /\ m \in Objects
      /\ mcount' = [mcount EXCEPT ![m] = @ + 1]
      /\ UNCHANGED <<irq, stage, valid>>
      /\ call[current].obj \notin Mutexes
      /\ mcount \in [Mutexes -> Int] /\ holder \in [Mutexes -> Threads \cup {None}]
  BY UserCode, UserIsOutside DEF MutexAcquire, AppCalls, Objects, QueueInv, Rest
<1>2. mcount[m] = Cardinality(Contenders(m)) /\ current \notin Contenders(m)
  BY <1>1 DEF MutexInv, Contenders
<1>3. CASE mcount[m] = 0 /\ holder' = [holder EXCEPT ![m] = current]
           /\ UNCHANGED <<schedVars, call, timer>>
  <2>1. Contenders(m) = {}
    BY <1>2, <1>3, ContendersFinite, FS_EmptySet
  <2>2. Contenders(m)' = {current}
    BY <1>1, <1>3, <2>1 DEF Contenders
  <2>3. mcount'[m] = 1
    BY <1>1, <1>3
  <2>4. Owners(m)' \subseteq {current}
    BY <2>2 DEF Owners, Granted, Contenders
  <2>5. mcount'[m] = Cardinality(Contenders(m)')
    BY <2>2, <2>3, FS_Singleton
  <2>6. ASSUME NEW n \in Mutexes, n # m, valid'[n]
        PROVE  /\ mcount'[n] = Cardinality(Contenders(n)')
               /\ \A t, u \in Owners(n)' : t = u
    <3>1. /\ valid[n] /\ mcount'[n] = mcount[n] /\ holder'[n] = holder[n]
          /\ UNCHANGED <<call, state, pc, ret>>
      BY <1>1, <1>3, <2>6 DEF schedVars, queueVars
    <3>2. Contenders(n)' = Contenders(n) /\ Owners(n)' = Owners(n)
      BY <3>1 DEF Contenders, Owners, Granted
    <3>3. QED BY <3>1, <3>2 DEF MutexInv
  <2>7. MutexInv'
    BY <2>4, <2>5, <2>6 DEF MutexInv
  <2>8. holder[m] \notin Threads
    BY <2>1 DEF Contenders
  <2>9. QED BY <1>1, <1>3, <2>7, <2>8
<1>4. CASE BlockOn(m, op, b) /\ UNCHANGED holder
  <2> HIDE DEF op
  <2>1. /\ \A n \in Mutexes : Contenders(n)' = IF n = m THEN Contenders(n) \cup {current}
                                                        ELSE Contenders(n)
        /\ \A n \in Mutexes : Owners(n)' \subseteq Owners(n)
    BY <1>1, <1>4, BlockingMutexes
  <2>2. mcount'[m] = Cardinality(Contenders(m)')
    <3>1. Cardinality(Contenders(m) \cup {current}) = Cardinality(Contenders(m)) + 1
      BY <1>2, ContendersFinite, FS_AddElement
    <3>2. QED BY <1>1, <1>2, <2>1, <3>1
  <2>3. ASSUME NEW n \in Mutexes, n # m, valid'[n]
        PROVE  valid[n] /\ mcount'[n] = mcount[n] /\ Contenders(n)' = Contenders(n)
    BY <1>1, <2>1, <2>3
  <2>4. ASSUME NEW n \in Mutexes, valid'[n]
        PROVE  /\ mcount'[n] = Cardinality(Contenders(n)')
               /\ \A t, u \in Owners(n)' : t = u
    BY <1>1, <2>1, <2>2, <2>3, <2>4 DEF MutexInv
  <2>5. QED BY <1>4, <2>4 DEF MutexInv
<1>5. QED BY <1>3, <1>4 DEF MutexAcquire

\* mutex_release: the count tells whether somebody is left, and the head of the queue
\* owns the mutex from here on.
LEMMA ReleaseMutexes ==
    ASSUME QueueInv, CallInv, MutexInv, NEW m \in Mutexes, MutexRelease(m)
    PROVE  /\ MutexInv'
           /\ \A n \in Mutexes : holder[n] \in Threads /\ holder'[n] # holder[n] =>
                 holder'[n] = None /\ current = holder[n]
<1> DEFINE woken == IF mcount[m] - 1 >= 1 THEN FirstOf(m) ELSE <<>>
<1>1. /\ InUserCode /\ current \in Apps /\ UNCHANGED <<irq, stage, call, valid>>
      /\ Wake(m, woken, TRUE, "ok")
      /\ m \in Objects /\ woken \in {<<>>, FirstOf(m), waitq[m]} /\ "ok" \in Results
      /\ valid[m] /\ holder[m] = current
      /\ holder' = [holder EXCEPT ![m] = None]
      /\ mcount' = [mcount EXCEPT ![m] = @ - 1]
  BY DEF MutexRelease, AppCalls, Objects, Results
<1>2. \A t, u \in Threads : On(t, woken) /\ On(u, woken) => t = u
  <2>1. \A i, j \in 1 .. Len(FirstOf(m)) : i = j
    BY DEF FirstOf
  <2>2. \A i, j \in 1 .. Len(woken) : i = j
    BY <2>1
  <2>3. QED BY <2>2 DEF On
<1> HIDE DEF woken
<1>3. Prefix(woken, waitq[m]) /\ WakesOnly(woken)
  BY <1>1, WakeWithin
<1>4. LeaveQueue(m, woken, "ok") /\ (pc' = pc \/ pc' = [pc EXCEPT ![current] = "signal"])
  BY <1>1 DEF Wake
<1>5. /\ \A t \in Threads : On(t, woken) => state[t] = "blocked" /\ bwq[t] = m
      /\ \A t \in Threads : ret'[t] = IF On(t, woken) THEN "ok" ELSE ret[t]
  BY <1>1, <1>3, <1>4, WokenFacts
<1>6. \A t \in Threads : On(t, woken) => call[t].obj = m
  BY <1>5 DEF CallInv
<1>7. /\ \A t \in Threads : pc[t] # "block"
      /\ current \in Threads /\ call[current].obj \notin Mutexes
      /\ holder \in [Mutexes -> Threads \cup {None}] /\ mcount \in [Mutexes -> Int]
      /\ None \notin Threads
  BY <1>1, UserIsOutside, ThreadsAssumption DEF QueueInv, Rest, Objects, Threads
<1>8. ASSUME NEW n \in Mutexes, NEW t \in Granted(n)', ~ On(t, woken) PROVE t \in Granted(n)
  BY <1>1, <1>3, <1>5, <1>7, <1>8 DEF Granted, WakesOnly
<1>9. /\ mcount'[m] = Cardinality(Contenders(m)')
      /\ \A t, u \in Owners(m)' : t = u
  <2>1. current \in Owners(m) /\ current \in Contenders(m)
    BY <1>1, <1>7 DEF Owners, Contenders
  <2>2. Contenders(m)' = Contenders(m) \ {current}
    BY <1>1, <1>7 DEF Contenders
  <2>3. Cardinality(Contenders(m) \ {current}) = Cardinality(Contenders(m)) - 1
    BY <2>1, ContendersFinite, FS_RemoveElement
  <2>4. mcount[m] = Cardinality(Contenders(m)) /\ \A t \in Owners(m) : t = current
    BY <1>1, <2>1 DEF MutexInv
  <2>5. \A t \in Owners(m)' : t \in Granted(m)'
    BY <1>1, <1>7 DEF Owners
  <2>6. \A t \in Owners(m)' : t \in Threads /\ On(t, woken)
    <3> SUFFICES ASSUME NEW t \in Owners(m)', ~ On(t, woken) PROVE FALSE
      BY <2>5 DEF Granted
    <3>1. t \in Granted(m)
      BY <1>8, <2>5
    <3>2. t = current
      BY <2>4, <3>1 DEF Owners
    <3>3. QED BY <1>7, <3>1, <3>2 DEF Granted
  <2>7. QED BY <1>1, <1>2, <1>7, <2>2, <2>3, <2>4, <2>6
<1>10. ASSUME NEW n \in Mutexes, n # m, valid'[n]
       PROVE  /\ mcount'[n] = Cardinality(Contenders(n)')
              /\ \A t, u \in Owners(n)' : t = u
  <2>1. valid[n] /\ mcount'[n] = mcount[n] /\ holder'[n] = holder[n]
    BY <1>1, <1>7, <1>10
  <2>2. Contenders(n)' = Contenders(n)
    BY <1>1, <2>1 DEF Contenders
  <2>3. Granted(n)' \subseteq Granted(n)
    <3>1. \A t \in Granted(n)' : ~ On(t, woken)
      BY <1>1, <1>6, <1>10 DEF Granted
    <3>2. QED BY <1>8, <3>1
  <2>4. Owners(n)' \subseteq Owners(n)
    BY <2>1, <2>3 DEF Owners
  <2>5. QED BY <2>1, <2>2, <2>4 DEF MutexInv
<1>11. MutexInv'
  BY <1>9, <1>10 DEF MutexInv
<1>12. QED
  BY <1>1, <1>7, <1>11

\* The way out of mutex_acquire: who was handed the mutex writes himself into `holder`,
\* who timed out takes back the count.
LEMMA ResumeMutexes ==
    ASSUME QueueInv, CallInv, MutexInv, Resume
    PROVE  /\ MutexInv'
           /\ \A n \in Mutexes : valid[n] /\ holder[n] \in Threads => holder'[n] = holder[n]
<1> DEFINE at == pc[current]
<1>0. PICK m : m = call[current].obj
  OBVIOUS
<1>1. /\ at \notin {"user", "block"} /\ irq = "none"
      /\ pc' = [pc EXCEPT ![current] = "user"]
      /\ UNCHANGED <<state, current, bwq, ret, valid>>
      /\ IF at \in WaitOps
           THEN call' = [call EXCEPT ![current] = NoCall]
           ELSE UNCHANGED call
      /\ IF at \in {"mutex_acquire", "mutex_acquire_timeout"}
           THEN FinishMutex(current, m, at)
           ELSE UNCHANGED <<holder, mcount>>
  BY <1>0 DEF Resume, queueVars
<1>2. /\ current \in Threads /\ state[current] = "running"
      /\ pc \in [Threads -> PCs]
      /\ call \in [Threads -> [op : WaitOps \cup {"none"}, obj : Objects \cup {None}]]
      /\ holder \in [Mutexes -> Threads \cup {None}] /\ mcount \in [Mutexes -> Int]
      /\ ret \in [Threads -> Results]
  BY <1>1 DEF QueueInv, Lists, Rest
<1>3. NoCall.obj \notin Mutexes
  BY ThreadsAssumption DEF NoCall
<1>4. \A t \in Threads : t # current => /\ pc'[t] = pc[t] /\ call'[t] = call[t]
  BY <1>1, <1>2
<1>5. at \in WaitOps => InCall(current) /\ at = call[current].op /\ call'[current] = NoCall
  BY <1>1, <1>2 DEF InCall, CallInv
<1>6. at \notin WaitOps => call' = call /\ ~ InCall(current) /\ call[current] = NoCall
  BY <1>1, <1>2 DEF InCall, CallInv, WaitOps
<1>7. call'[current].obj \notin Mutexes
  BY <1>3, <1>5, <1>6
<1>8. ASSUME NEW n \in Mutexes PROVE Granted(n)' = Granted(n) \ {current}
  BY <1>1, <1>4, <1>7 DEF Granted
<1>9. ASSUME NEW n \in Mutexes, n # m, holder'[n] = holder[n], mcount'[n] = mcount[n], valid'[n]
      PROVE  /\ mcount'[n] = Cardinality(Contenders(n)')
             /\ \A t, u \in Owners(n)' : t = u
  <2>1. Contenders(n)' = Contenders(n)
    BY <1>0, <1>4, <1>7, <1>9 DEF Contenders
  <2>2. Owners(n)' \subseteq Owners(n)
    BY <1>8, <1>9 DEF Owners
  <2>3. QED BY <1>1, <1>9, <2>1, <2>2 DEF MutexInv
<1>10. CASE at \notin {"mutex_acquire", "mutex_acquire_timeout"}
  <2>1. UNCHANGED <<holder, mcount>>
    BY <1>1, <1>10
  <2>2. m \notin Mutexes
    BY <1>0, <1>2, <1>3, <1>5, <1>6, <1>10, ThreadsAssumption DEF CallInv, WaitOps
  <2>3. QED BY <1>9, <2>1, <2>2 DEF MutexInv
<1>11. CASE at \in {"mutex_acquire", "mutex_acquire_timeout"}
  <2>1. m \in Mutexes /\ at \in WaitOps /\ FinishMutex(current, m, at)
    BY <1>0, <1>1, <1>2, <1>5, <1>11 DEF CallInv, WaitOps, Objects
  <2>2. /\ at = "mutex_acquire" => ret[current] # "timed_out"
        /\ ret[current] = "destroyed" => ~ valid[m]
        /\ valid[m] => holder[m] # current
        /\ current \in Contenders(m)
    BY <1>0, <1>2, <1>5, <2>1 DEF CallInv, Contenders
  <2>3. \A n \in Mutexes : n # m => holder'[n] = holder[n] /\ mcount'[n] = mcount[n]
    BY <1>2, <2>1 DEF FinishMutex
  <2>4. ret[current] \in {"ok", "timed_out", "destroyed"}
    BY <1>2 DEF Results
  <2>5. CASE ~ valid[m]
    <3>1. ASSUME NEW n \in Mutexes, valid'[n]
          PROVE  /\ mcount'[n] = Cardinality(Contenders(n)')
                 /\ \A t, u \in Owners(n)' : t = u
      BY <1>1, <1>9, <2>3, <2>5, <3>1
    <3>2. QED BY <2>3, <2>5, <3>1 DEF MutexInv
  <2>6. CASE valid[m] /\ ret[current] = "ok"
    <3>1. holder' = [holder EXCEPT ![m] = current] /\ UNCHANGED mcount
      BY <2>1, <2>6 DEF FinishMutex
    <3>2. current \in Granted(m)
      BY <1>0, <1>1, <1>2, <2>6 DEF Granted
    <3>3. \A t \in Owners(m) : t = current
      BY <2>1, <2>6, <3>2 DEF MutexInv, Owners
    <3>4. holder[m] \notin Threads
      BY <1>2, <2>1, <2>2, <2>6, <3>3 DEF Owners
    <3>5. Contenders(m)' = Contenders(m)
      BY <1>0, <1>2, <1>4, <1>7, <2>1, <2>2, <3>1, <3>4 DEF Contenders
    <3>6. \A t \in Owners(m)' : t = current
      BY <1>2, <1>8, <2>1, <3>1, <3>3 DEF Owners
    <3>7. mcount'[m] = Cardinality(Contenders(m)')
      BY <2>1, <2>6, <3>1, <3>5 DEF MutexInv
    <3>8. ASSUME NEW n \in Mutexes, valid'[n]
          PROVE  /\ mcount'[n] = Cardinality(Contenders(n)')
                 /\ \A t, u \in Owners(n)' : t = u
      BY <1>9, <2>3, <3>6, <3>7, <3>8
    <3>9. QED BY <2>3, <3>4, <3>8 DEF MutexInv
  <2>7. CASE valid[m] /\ ret[current] = "timed_out"
    <3>1. mcount' = [mcount EXCEPT ![m] = @ - 1] /\ UNCHANGED holder
      BY <2>1, <2>2, <2>7 DEF FinishMutex
    <3>2. Contenders(m)' = Contenders(m) \ {current}
      BY <1>0, <1>2, <1>4, <1>7, <2>1, <2>2, <2>7, <3>1 DEF Contenders
    <3>3. Cardinality(Contenders(m) \ {current}) = Cardinality(Contenders(m)) - 1
      BY <2>2, ContendersFinite, FS_RemoveElement
    <3>4. mcount'[m] = Cardinality(Contenders(m)')
      BY <1>2, <2>1, <2>7, <3>1, <3>2, <3>3 DEF MutexInv
    <3>5. Owners(m)' \subseteq Owners(m)
      BY <1>8, <2>1, <3>1 DEF Owners
    <3>6. ASSUME NEW n \in Mutexes, valid'[n]
          PROVE  /\ mcount'[n] = Cardinality(Contenders(n)')
                 /\ \A t, u \in Owners(n)' : t = u
      BY <1>9, <2>3, <2>7, <3>4, <3>5, <3>6 DEF MutexInv
    <3>7. QED BY <3>1, <3>6 DEF MutexInv
  <2>8. QED BY <2>2, <2>4, <2>5, <2>6, <2>7
<1>12. QED BY <1>10, <1>11

\* Who may take a mutex away from its holder.
Unstolen == \A m \in Mutexes : valid[m] /\ holder[m] \notin {None, holder'[m]} =>
                                holder'[m] = None /\ current = holder[m]

\* Each step, by its kind.
LEMMA MutexStep == QueueInv /\ CallInv /\ MutexInv /\ [Next]_vars => MutexInv' /\ Unstolen
<1> SUFFICES ASSUME QueueInv, CallInv, MutexInv, Next \/ UNCHANGED vars PROVE MutexInv' /\ Unstolen
  OBVIOUS
<1>0. \A m \in Mutexes : holder[m] = None \/ holder[m] \in Threads
  BY DEF QueueInv, Rest
<1>1. UNCHANGED holder => Unstolen
  BY DEF Unstolen
<1>2. ASSUME NEW m \in Mutexes, NEW b \in BOOLEAN, MutexAcquire(m, b) PROVE MutexInv' /\ Unstolen
  BY <1>0, <1>2, AcquireMutexes DEF Unstolen
<1>3. ASSUME NEW m \in Mutexes, MutexRelease(m) PROVE MutexInv' /\ Unstolen
  BY <1>0, <1>3, ReleaseMutexes DEF Unstolen
<1>4. CASE Resume
  BY <1>0, <1>4, ResumeMutexes DEF Unstolen
<1>5. CASE UNCHANGED vars \/ Halted
  <2>1. UNCHANGED <<state, pc, ret, call, holder, mcount, valid>>
    BY <1>5 DEF Halted, vars, schedVars, queueVars, objectVars
  <2>2. QED BY <1>1, <2>1, GrantFrame
<1>6. CASE \/ KmainDpcInit \/ KmainTimerInit \/ KmainEnable \/ KmainBecomeIdle
           \/ \E t \in InitialApps : KmainResume(t)
           \/ ThreadYield \/ ThreadSleep \/ (\E t \in Apps : ThreadResume(t))
           \/ ThreadBlock \/ \E t \in Apps : ThreadCreate(t)
           \/ DpcTake \/ DpcCleanup \/ (\E e \in Events \ {DpcEvent} : EventUnsignal(e))
           \/ IrqEnter("tick") \/ IrqEnter("device") \/ IrqInside \/ IrqExit
           \/ \E t \in Threads : SleepTimerFires(t)
  <2>1. UNCHANGED holder
    <3>1. CASE \/ KmainDpcInit \/ KmainTimerInit \/ KmainEnable \/ KmainBecomeIdle
               \/ \E t \in InitialApps : KmainResume(t)
      BY <3>1 DEF KmainDpcInit, KmainEnable, KmainBecomeIdle, KmainTimerInit, KmainResume,
            ResumeThread, objectVars
    <3>2. CASE \/ ThreadYield \/ ThreadSleep \/ (\E t \in Apps : ThreadResume(t))
               \/ ThreadBlock \/ \E t \in Apps : ThreadCreate(t)
      BY <3>2 DEF ThreadYield, ThreadSleep, ThreadResume, ThreadBlock, ThreadCreate,
            ResumeThread, objectVars
    <3>3. CASE \/ DpcTake \/ DpcCleanup \/ (\E e \in Events \ {DpcEvent} : EventUnsignal(e))
               \/ IrqEnter("tick") \/ IrqEnter("device") \/ IrqInside \/ IrqExit
               \/ \E t \in Threads : SleepTimerFires(t)
      BY <3>3 DEF DpcTake, DpcCleanup, EventUnsignal, IrqEnter, IrqInside, Interrupted, IrqExit,
            SleepTimerFires, objectVars
    <3>4. QED BY <1>6, <3>1, <3>2, <3>3
  <2>2. CASE UNCHANGED vars
    BY <1>5, <2>2
  <2>3. QED BY <1>1, <1>6, <2>1, <2>2, QuietMutexCalls, UntouchedKeeps
<1>7. CASE \/ \E e \in Events \ {DpcEvent}, b \in BOOLEAN : EventWait(e, b) \/ EventSignal(e, b)
           \/ \E w \in Objects \ {DpcEvent} : Destroy(w)
           \/ DpcWait \/ ThreadExit
           \/ \E t \in Threads : TimeoutFires(t)
           \/ \E e \in IrqEvents : DeviceSignals(e)
  <2>1. UNCHANGED holder
    BY <1>7 DEF EventWait, EventSignal, Destroy, DpcWait, ThreadExit, TimeoutFires, DeviceSignals,
          objectVars
  <2>2. CASE UNCHANGED vars
    BY <1>5, <2>2
  <2>3. QED BY <1>1, <1>7, <2>1, <2>2, EventWaitMutexes, WakingMutexCalls, ExitMutexes, TimeoutMutexes,
       UntouchedKeeps
<1>8. QED
  BY <1>2, <1>3, <1>4, <1>5, <1>6, <1>7 DEF Next

\* The count of a mutex is exact and its owner is one, in every reachable state of the
\* model.
LEMMA MutexInvAlways == Spec => [](QueueInv /\ CallInv /\ MutexInv)
<1>1. Init => MutexInv
  <2> SUFFICES ASSUME Init, NEW m \in Mutexes
               PROVE  mcount[m] = Cardinality(Contenders(m)) /\ \A t, u \in Owners(m) : t = u
    BY DEF MutexInv
  <2>1. Contenders(m) = {}
    BY ThreadsAssumption DEF Init, Contenders, NoCall, Threads
  <2>2. Owners(m) = {}
    BY <2>1, OwnersContend
  <2>3. QED BY <2>1, <2>2, FS_EmptySet DEF Init
<1>2. QED
  BY <1>1, MutexStep, CallInvAlways, PTL DEF Spec

\* A mutex has one owner, the thread it was handed to and that has not run since included
\* (mutex.c: mutex_release wakes the next without writing `holder`), for every number of
\* threads and mutexes, with timeouts and destruction - as long as the count is taken and
\* given back in one piece: until an interrupt comes into a call through a leaked section.
THEOREM MutualExclusionHolds == Spec => []MutualExclusion
<1>1. MutexInv => MutualExclusion
  <2> SUFFICES ASSUME MutexInv, NEW m \in Mutexes, valid[m] PROVE Cardinality(Owners(m)) <= 1
    BY DEF MutualExclusion
  <2>1. CASE Owners(m) = {}
    BY <2>1, FS_EmptySet
  <2>2. CASE Owners(m) # {}
    <3>1. PICK t \in Owners(m) : TRUE
      BY <2>2
    <3>2. Owners(m) = {t}
      BY <3>1 DEF MutexInv
    <3>3. QED BY <3>2, FS_Singleton
  <2>3. QED BY <2>1, <2>2
<1>2. QED
  BY <1>1, MutexInvAlways, PTL

\* mutex_t.count is the number of threads that own or want the mutex, those that timed
\* out and have not taken their increment back among them (mutex.c:152, :163), until an
\* interrupt comes into a call, into a ++ or -- of the count perhaps, through a leaked section.
THEOREM MutexCountsContendersHolds == Spec => []MutexCountsContenders
<1>1. MutexInv => MutexCountsContenders
  BY DEF MutexInv, MutexCountsContenders, Contenders
<1>2. QED
  BY <1>1, MutexInvAlways, PTL

\* Nobody takes a mutex from the thread in `holder` but that thread itself, until an interrupt
\* comes into a call through a leaked section.
THEOREM HolderKeepsMutexHolds == Spec => HolderKeepsMutex
<1>1. QueueInv /\ CallInv /\ MutexInv /\ [Next]_vars => [Unstolen]_vars
  BY MutexStep
<1>2. QED
  BY <1>1, MutexInvAlways, PTL DEF Spec, HolderKeepsMutex, Unstolen

---------------------------------------------------------------------------
(* Without mutex_acquire_timeout nobody waits for a mutex that is available *)

\* A mutex somebody waits for is owned.
OwnedWaits == \A m \in Mutexes : valid[m] /\ waitq[m] # <<>> => Owners(m) # {}

\* The inductive invariant: nobody is in the queue of a mutex nobody owns, and a thread
\* inside mutex_acquire is in the queue or owns the mutex.
OwnedInv ==
    /\ OwnedWaits
    /\ \A t \in Threads : call[t].op # "mutex_acquire_timeout"
    /\ \A t \in Threads, m \in Mutexes :
          call[t].obj = m /\ valid[m] /\ pc[t] = "block" => state[t] = "blocked"

\* Such a step keeps it.
LEMMA UntouchedOwned == ASSUME OwnedInv, Untouched PROVE OwnedInv'
<1>1. ASSUME NEW m \in Mutexes, valid'[m] PROVE Owners(m) \subseteq Owners(m)'
  BY <1>1 DEF Owners, Granted, Untouched
<1>2. OwnedWaits'
  BY <1>1 DEF OwnedInv, OwnedWaits, Untouched
<1>3. QED BY <1>2 DEF OwnedInv, Untouched

\* Who wants a mutex is in its queue or owns it, for nobody times out of it.
LEMMA ContenderWaits ==
    ASSUME QueueInv, CallInv, OwnedInv, NEW m \in Mutexes, valid[m],
           NEW t \in Threads, call[t].obj = m
    PROVE  /\ ret[t] = "ok"
           /\ t \in Granted(m) \/ (state[t] = "blocked" /\ waitq[m] # <<>>)
<1>1. /\ InCall(t) /\ m \notin Events /\ m \in Objects
  BY ThreadsAssumption DEF CallInv, NoCall, Objects
<1>2. call[t].op = "mutex_acquire"
  BY <1>1 DEF CallInv, OwnedInv, WaitOps
<1>3. ret[t] = "ok"
  BY <1>2 DEF CallInv, QueueInv, Lists, Results
<1>4. CASE state[t] = "blocked"
  <2>1. On(t, waitq[m])
    BY <1>1, <1>4 DEF CallInv, QueueInv, Lists, WaitQueues
  <2>2. waitq[m] # <<>>
    BY <2>1 DEF On
  <2>3. QED BY <1>3, <1>4, <2>2
<1>5. CASE state[t] # "blocked"
  BY <1>3, <1>5 DEF Granted, OwnedInv
<1>6. QED BY <1>4, <1>5

\* The steps that change calls, mutexes or their queues.
LEMMA EventWaitOwned ==
    ASSUME QueueInv, CallInv, OwnedInv, Next,
           (\E e \in Events, b \in BOOLEAN : EventWait(e, b)) \/ DpcWait
    PROVE  OwnedInv'
<1>1. ASSUME NEW e \in Events, NEW b, BlockOn(e, "event_wait", b), InUserCode, current # Boot,
             UNCHANGED <<irq, stage, holder, mcount, valid>>
      PROVE  OwnedInv'
  <2>1. e \in Objects /\ e \notin Mutexes
    BY ThreadsAssumption DEF Objects
  <2>2. /\ \A m \in Mutexes : waitq'[m] = waitq[m] /\ Owners(m)' = Owners(m)
        /\ \A t \in Threads : pc'[t] = "block" => state'[t] = "blocked"
        /\ \A t \in Threads : call'[t].op \in {"event_wait", call[t].op}
    BY <1>1, <2>1, BlockingMutexes
  <2>3. OwnedWaits'
    BY <1>1, <2>2 DEF OwnedInv, OwnedWaits
  <2>4. QED BY <2>2, <2>3 DEF OwnedInv
<1>2. ASSUME NEW e \in Events, NEW b \in BOOLEAN, EventWait(e, b) PROVE OwnedInv'
  <2>1. InUserCode /\ current # Boot /\ UNCHANGED <<irq, stage, holder, mcount, valid>>
    BY <1>2, UserCode DEF EventWait, AppCalls
  <2>2. CASE UNCHANGED <<schedVars, call, timer>>
    BY <2>1, <2>2, QuietMutexes, UntouchedOwned DEF schedVars, queueVars
  <2>3. CASE BlockOn(e, "event_wait", b)
    BY <1>1, <2>1, <2>3
  <2>4. QED BY <1>2, <2>2, <2>3 DEF EventWait
<1>3. CASE DpcWait
  <2>1. InUserCode /\ current # Boot /\ UNCHANGED <<irq, stage, holder, mcount, valid>>
    BY <1>3, UserCode DEF DpcWait, objectVars
  <2>2. CASE UNCHANGED <<schedVars, call, timer>>
    BY <2>1, <2>2, QuietMutexes, UntouchedOwned DEF schedVars, queueVars
  <2>3. CASE BlockOn(DpcEvent, "event_wait", FALSE)
    BY <1>1, <2>1, <2>3, ThreadsAssumption
  <2>4. QED BY <1>3, <2>2, <2>3 DEF DpcWait
<1>4. QED BY <1>2, <1>3

LEMMA AcquireOwned ==
    ASSUME QueueInv, CallInv, MutexInv, OwnedInv, "mutex_acquire_timeout" \notin Calls,
           NEW m \in Mutexes, NEW b \in BOOLEAN, MutexAcquire(m, b)
    PROVE  OwnedInv'
<1>1. /\ InUserCode /\ current # Boot /\ current \in Threads /\ ~ b
      /\ valid[m] /\ holder[m] # current /\ m \in Objects
      /\ UNCHANGED <<irq, stage, valid>>
      /\ holder \in [Mutexes -> Threads \cup {None}]
  BY UserCode DEF MutexAcquire, AppCalls, Objects, QueueInv, Rest
<1>2. CASE holder' = [holder EXCEPT ![m] = current] /\ UNCHANGED <<schedVars, call, timer>>
  <2>1. UNCHANGED <<waitq, state, pc, ret, call>>
    BY <1>2 DEF schedVars, queueVars
  <2>2. current \in Owners(m)'
    BY <1>1, <1>2 DEF Owners
  <2>3. \A n \in Mutexes : n # m => Owners(n)' = Owners(n)
    BY <1>1, <1>2, <2>1 DEF Owners, Granted
  <2>4. OwnedWaits'
    BY <1>1, <2>1, <2>2, <2>3 DEF OwnedInv, OwnedWaits
  <2>5. QED BY <1>1, <2>1, <2>4 DEF OwnedInv
<1>3. CASE mcount[m] > 0 /\ BlockOn(m, "mutex_acquire", b) /\ UNCHANGED holder
  <2>1. /\ \A n \in Mutexes : n # m => waitq'[n] = waitq[n]
        /\ \A n \in Mutexes : Owners(n)' = Owners(n)
        /\ \A t \in Threads : pc'[t] = "block" => state'[t] = "blocked"
        /\ \A t \in Threads : call'[t].op \in {"mutex_acquire", call[t].op}
    BY <1>1, <1>3, BlockingMutexes
  <2>2. PICK t \in Contenders(m) : TRUE
    BY <1>1, <1>3, FS_EmptySet DEF MutexInv
  <2>3. Owners(m) # {}
    <3>1. CASE holder[m] = t
      BY <2>2, <3>1 DEF Owners, Contenders
    <3>2. CASE call[t].obj = m
      BY <1>1, <2>2, <3>2, ContenderWaits DEF Contenders, Owners, OwnedInv, OwnedWaits
    <3>3. QED BY <2>2, <3>1, <3>2 DEF Contenders
  <2>4. OwnedWaits'
    BY <1>1, <2>1, <2>3 DEF OwnedInv, OwnedWaits
  <2>5. QED BY <2>1, <2>4 DEF OwnedInv
<1>4. QED BY <1>1, <1>2, <1>3 DEF MutexAcquire

LEMMA ReleaseOwned ==
    ASSUME QueueInv, CallInv, MutexInv, OwnedInv, NEW m \in Mutexes, MutexRelease(m)
    PROVE  OwnedInv'
<1> DEFINE woken == IF mcount[m] - 1 >= 1 THEN FirstOf(m) ELSE <<>>
<1>1. /\ InUserCode /\ current \in Apps /\ UNCHANGED <<irq, stage, call, valid>>
      /\ Wake(m, woken, TRUE, "ok")
      /\ m \in Objects /\ woken \in {<<>>, FirstOf(m), waitq[m]} /\ "ok" \in Results
      /\ valid[m] /\ holder[m] = current
      /\ holder' = [holder EXCEPT ![m] = None]
  BY DEF MutexRelease, AppCalls, Objects, Results
<1>2. mcount[m] - 1 >= 1 => woken = FirstOf(m)
  OBVIOUS
<1> HIDE DEF woken
<1>3. Prefix(woken, waitq[m]) /\ WakesOnly(woken)
  BY <1>1, WakeWithin
<1>4. LeaveQueue(m, woken, "ok") /\ (pc' = pc \/ pc' = [pc EXCEPT ![current] = "signal"])
  BY <1>1 DEF Wake
<1>5. /\ \A t \in Threads : On(t, woken) => state[t] = "blocked" /\ bwq[t] = m
      /\ \A t \in Threads : ret'[t] = IF On(t, woken) THEN "ok" ELSE ret[t]
  BY <1>1, <1>3, <1>4, WokenFacts
<1>6. /\ \A t \in Threads : pc[t] # "block"
      /\ current \in Threads /\ call[current].obj \notin Mutexes /\ state[current] = "running"
      /\ holder \in [Mutexes -> Threads \cup {None}] /\ mcount \in [Mutexes -> Int]
      /\ pc \in [Threads -> PCs] /\ waitq \in [Objects -> Seq(Threads)]
  BY <1>1, UserIsOutside DEF QueueInv, Rest, Lists, WaitQueues, Objects
<1>7. \A t \in Threads : pc'[t] # "block"
  BY <1>4, <1>6
<1>8. ASSUME NEW n \in Mutexes, n # m, valid'[n], waitq'[n] # <<>> PROVE Owners(n)' # {}
  <2>1. holder'[n] = holder[n] /\ valid[n] /\ n \in Objects
    BY <1>1, <1>6, <1>8 DEF Objects
  <2>2. waitq'[n] = waitq[n]
    BY <1>1, <1>4, <1>8, <2>1, LeaveQueueEmpties
  <2>3. \A t \in Threads : On(t, woken) => call[t].obj = m
    BY <1>5 DEF CallInv
  <2>4. \A t \in Granted(n) : t \in Granted(n)'
    BY <1>1, <1>3, <1>5, <1>7, <1>8, <2>3 DEF Granted, WakesOnly
  <2>5. Owners(n) \subseteq Owners(n)'
    BY <2>1, <2>4 DEF Owners
  <2>6. QED BY <1>8, <2>1, <2>2, <2>5 DEF OwnedInv, OwnedWaits
<1>9. ASSUME waitq'[m] # <<>> PROVE Owners(m)' # {}
  <2>1. waitq[m] # <<>> /\ waitq[m] \in Seq(Threads)
    BY <1>1, <1>4, <1>6, <1>9, LeaveQueueEmpties
  <2> DEFINE t == Head(waitq[m])
  <2>2. t \in Threads /\ On(t, waitq[m])
    BY <2>1 DEF On
  <2>3. state[t] = "blocked" /\ call[t].obj = m
    BY <1>1, <2>2 DEF QueueInv, Lists, WaitQueues, CallInv
  <2>4. t \in Contenders(m) \ {current} /\ current \in Contenders(m)
    BY <1>1, <1>6, <2>2, <2>3 DEF Contenders
  <2>5. /\ Cardinality(Contenders(m) \ {current}) = mcount[m] - 1
        /\ IsFiniteSet(Contenders(m) \ {current})
    BY <1>1, <2>4, ContendersFinite, FS_RemoveElement DEF MutexInv
  <2>6. Cardinality(Contenders(m) \ {current}) \in Nat
        /\ Cardinality(Contenders(m) \ {current}) # 0
    BY <2>4, <2>5, FS_EmptySet, FS_CardinalityType
  <2>7. woken = <<t>>
    BY <1>2, <2>1, <2>5, <2>6 DEF FirstOf
  <2>8. On(t, woken)
    BY <2>7 DEF On
  <2>9. t \in Granted(m)'
    BY <1>1, <1>3, <1>5, <1>7, <2>2, <2>3, <2>8 DEF Granted, WakesOnly
  <2>10. QED BY <2>9 DEF Owners
<1>10. OwnedWaits'
  BY <1>8, <1>9 DEF OwnedWaits
<1>11. QED BY <1>1, <1>7, <1>10 DEF OwnedInv

LEMMA ResumeOwned == ASSUME QueueInv, CallInv, OwnedInv, Resume PROVE OwnedInv'
<1> DEFINE at == pc[current]
<1>0. PICK m : m = call[current].obj
  OBVIOUS
<1>1. /\ at \notin {"user", "block"} /\ irq = "none"
      /\ pc' = [pc EXCEPT ![current] = "user"]
      /\ UNCHANGED <<state, current, ret, valid, waitq>>
      /\ IF at \in WaitOps
           THEN call' = [call EXCEPT ![current] = NoCall]
           ELSE UNCHANGED call
      /\ IF at \in {"mutex_acquire", "mutex_acquire_timeout"}
           THEN FinishMutex(current, m, at)
           ELSE UNCHANGED <<holder, mcount>>
  BY <1>0 DEF Resume, queueVars
<1>2. /\ current \in Threads
      /\ pc \in [Threads -> PCs]
      /\ call \in [Threads -> [op : WaitOps \cup {"none"}, obj : Objects \cup {None}]]
      /\ holder \in [Mutexes -> Threads \cup {None}]
  BY DEF QueueInv, Lists, Rest
<1>3. NoCall.op # "mutex_acquire_timeout"
  BY DEF NoCall
<1>4. \A t \in Threads : t # current => pc'[t] = pc[t] /\ call'[t] = call[t]
  BY <1>1, <1>2
<1>5. /\ at \in WaitOps => InCall(current) /\ at = call[current].op /\ call'[current] = NoCall
      /\ at \notin WaitOps => call' = call /\ call[current] = NoCall
  BY <1>1, <1>2 DEF InCall, CallInv
<1>6. \A t \in Threads : pc'[t] # "block" /\ call'[t].op # "mutex_acquire_timeout"
  BY <1>1, <1>2, <1>3, <1>4, <1>5 DEF CallInv, OwnedInv
<1>7. ASSUME NEW n \in Mutexes, n # m, holder'[n] = holder[n] PROVE Owners(n) \subseteq Owners(n)'
  <2>1. current \notin Granted(n)
    BY <1>0, <1>7 DEF Granted
  <2>2. \A t \in Granted(n) : t \in Granted(n)'
    BY <1>1, <1>4, <2>1 DEF Granted
  <2>3. QED BY <1>7, <2>2 DEF Owners
<1>8. CASE m \notin Mutexes
  <2>1. UNCHANGED holder
    BY <1>0, <1>1, <1>2, <1>5, <1>8 DEF CallInv, WaitOps, Objects
  <2>2. OwnedWaits'
    BY <1>1, <1>7, <1>8, <2>1 DEF OwnedInv, OwnedWaits
  <2>3. QED BY <1>6, <2>2 DEF OwnedInv
<1>9. CASE m \in Mutexes
  <2>1. at = "mutex_acquire" /\ FinishMutex(current, m, at)
    BY <1>0, <1>1, <1>2, <1>5, <1>9, ThreadsAssumption DEF CallInv, OwnedInv, WaitOps, NoCall
  <2>2. \A n \in Mutexes : n # m => holder'[n] = holder[n]
    BY <1>2, <2>1 DEF FinishMutex
  <2>3. ASSUME valid[m] PROVE current \in Owners(m)'
    <3>1. ret[current] = "ok"
      BY <1>0, <1>2, <1>9, <2>3, ContenderWaits
    <3>2. holder' = [holder EXCEPT ![m] = current]
      BY <2>1, <3>1 DEF FinishMutex
    <3>3. QED BY <1>2, <1>9, <3>2 DEF Owners
  <2>4. OwnedWaits'
    BY <1>1, <1>7, <2>2, <2>3 DEF OwnedInv, OwnedWaits
  <2>5. QED BY <1>6, <2>4 DEF OwnedInv
<1>10. QED BY <1>8, <1>9

LEMMA TimeoutOwned ==
    ASSUME QueueInv, CallInv, OwnedInv, Next, NEW t \in Threads, TimeoutFires(t)
    PROVE  OwnedInv'
<1>0. /\ ret \in [Threads -> Results] /\ state \in [Threads -> States]
      /\ waitq \in [Objects -> Seq(Threads)] /\ \A m \in Mutexes : m \in Objects
  BY DEF QueueInv, Lists, WaitQueues, Objects
<1>1. UNCHANGED <<call, holder, mcount, valid>> /\ timer[t] = "timeout"
  BY DEF TimeoutFires, objectVars
<1>2. CASE UNCHANGED <<waitq, ret, pc>>
  BY <1>1, <1>2, QuietMutexes, UntouchedOwned
<1>3. CASE state[t] = "blocked" /\ Unblock(t, "timed_out")
  <2>1. /\ state' = [state EXCEPT ![t] = "ready"]
        /\ ret' = [ret EXCEPT ![t] = "timed_out"]
        /\ waitq' = [waitq EXCEPT ![bwq[t]] = RemoveFirst(@, t)]
        /\ UNCHANGED pc
    BY <1>3 DEF Unblock
  <2>2. InCall(t) /\ bwq[t] = call[t].obj /\ call[t].op = "event_wait"
    BY <1>1, <1>3 DEF CallInv, OwnedInv, WaitOps
  <2>3. \A m \in Mutexes : call[t].obj # m
    BY <2>2, ThreadsAssumption DEF CallInv
  <2>4. \A m \in Mutexes : waitq'[m] = waitq[m]
    BY <1>0, <2>1, <2>2, <2>3
  <2>5. \A u \in Threads, m \in Mutexes : call[u].obj = m =>
            state'[u] = state[u] /\ ret'[u] = ret[u]
    BY <1>0, <2>1, <2>3
  <2>6. Untouched
    BY <1>1, <2>1, <2>4, <2>5 DEF Untouched
  <2>7. QED BY <2>6, UntouchedOwned
<1>4. QED BY <1>2, <1>3 DEF TimeoutFires, queueVars

\* Each step, by its kind.
LEMMA OwnedStep ==
    ASSUME "mutex_acquire_timeout" \notin Calls,
           QueueInv, CallInv, MutexInv, OwnedInv, [Next]_vars
    PROVE  OwnedInv'
<1>1. CASE UNCHANGED vars \/ Halted
  <2>1. UNCHANGED <<state, pc, ret, call, holder, mcount, valid, waitq>>
    BY <1>1 DEF Halted, vars, schedVars, queueVars, objectVars
  <2>2. Untouched
    BY <2>1 DEF Untouched
  <2>3. QED BY <2>2, UntouchedOwned
<1>2. ASSUME NEW m \in Mutexes, NEW b \in BOOLEAN, MutexAcquire(m, b) PROVE OwnedInv'
  BY <1>2, AcquireOwned
<1>3. ASSUME NEW m \in Mutexes, MutexRelease(m) PROVE OwnedInv'
  BY <1>3, ReleaseOwned
<1>4. CASE Resume
  BY <1>4, ResumeOwned
<1>5. CASE Next /\ \/ KmainDpcInit \/ KmainTimerInit \/ KmainEnable \/ KmainBecomeIdle
                   \/ \E t \in InitialApps : KmainResume(t)
                   \/ ThreadYield \/ ThreadSleep \/ (\E t \in Apps : ThreadResume(t))
                   \/ ThreadBlock \/ \E t \in Apps : ThreadCreate(t)
                   \/ DpcTake \/ DpcCleanup \/ (\E e \in Events \ {DpcEvent} : EventUnsignal(e))
                   \/ IrqEnter("tick") \/ IrqEnter("device") \/ IrqInside \/ IrqExit
                   \/ \E t \in Threads : SleepTimerFires(t)
  BY <1>5, QuietMutexCalls, UntouchedOwned
<1>6. CASE Next /\ \/ \E e \in Events \ {DpcEvent}, b \in BOOLEAN : EventSignal(e, b)
                   \/ \E w \in Objects \ {DpcEvent} : Destroy(w)
                   \/ \E e \in IrqEvents : DeviceSignals(e)
                   \/ ThreadExit
  BY <1>6, WakingMutexCalls, ExitMutexes, UntouchedOwned
<1>7. CASE Next /\ \/ \E e \in Events \ {DpcEvent}, b \in BOOLEAN : EventWait(e, b)
                   \/ DpcWait
                   \/ \E t \in Threads : TimeoutFires(t)
  BY <1>7, EventWaitOwned, TimeoutOwned
<1>8. QED
  BY <1>1, <1>2, <1>3, <1>4, <1>5, <1>6, <1>7 DEF Next

\* A mutex somebody waits for is owned, as long as no thread acquires a mutex with a
\* timeout: the threads that wait for events with one may, and it holds until an interrupt
\* comes into a call through the section such a time-out leaks (thread.c:902).  With
\* mutex_acquire_timeout the code does not keep it, as the run kernel_stranded shows.
THEOREM WaitsOnlyForOwnedHolds ==
    ASSUME "mutex_acquire_timeout" \notin Calls
    PROVE  Spec => []WaitsOnlyForOwned
<1>1. Init => OwnedInv
  <2> SUFFICES ASSUME Init PROVE OwnedInv
    OBVIOUS
  <2>1. \A m \in Mutexes : waitq[m] = <<>>
    BY DEF Init, Objects
  <2>2. \A t \in Threads : call[t].op # "mutex_acquire_timeout" /\ pc[t] # "block"
    BY DEF Init, NoCall
  <2>3. QED BY <2>1, <2>2 DEF OwnedInv, OwnedWaits
<1>2. (QueueInv /\ CallInv /\ MutexInv) /\ OwnedInv /\ [Next]_vars => OwnedInv'
  BY OwnedStep
<1>3. OwnedInv => WaitsOnlyForOwned
  BY DEF OwnedInv, OwnedWaits, WaitsOnlyForOwned
<1>4. QED
  BY <1>1, <1>2, <1>3, MutexInvAlways, PTL DEF Spec

=============================================================================
