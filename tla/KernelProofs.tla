---------------------------- MODULE KernelProofs ----------------------------
(***************************************************************************)
(* That the lists of the scheduler, the states of the threads and the      *)
(* flags of the events agree, for every set of threads, every assignment   *)
(* of priorities, every set of events and mutexes, and every order of      *)
(* calls and interrupts.                                                   *)
(*                                                                         *)
(* The run queue and the wait queues are sequences; what is proved of them *)
(* is that they hold each thread of a set once.  The routines of Sched are *)
(* shown to keep that one by one, then each service of Kernel by the       *)
(* routines it calls.                                                      *)
(***************************************************************************)
EXTENDS Kernel, TLAPS, SequenceTheorems, FiniteSetTheorems, WellFoundedInduction

\* Every set of naturals that is not empty has a least one.  What follows of all the
\* threads a wake-up makes ready follows from it: take the first one of which it fails.
LEMMA LeastNatural ==
    ASSUME NEW S, S \subseteq Nat, S # {}
    PROVE  \E n \in S : \A k \in S : n <= k
<1> DEFINE R == {ss \in Nat \X Nat : ss[1] < ss[2]}
<1>1. IsWellFoundedOn(R, Nat)
  BY NatLessThanWellFounded DEF OpToRel
<1>2. \E n \in S : \A k \in S : ~ (<<k, n>> \in R)
  <2> HIDE DEF R
  <2> QED BY <1>1, WFMin
<1>3. PICK n \in S : \A k \in S : ~ (<<k, n>> \in R)
  BY <1>2
<1>4. \A k \in S : k < n => <<k, n>> \in R
  OBVIOUS
<1>5. \A k \in S : ~ (k < n)
  <2> HIDE DEF R
  <2> QED BY <1>3, <1>4
<1>6. QED
  BY <1>5

\* No thread is in the list twice; t is in the list.
Distinct(s) == \A i, j \in 1 .. Len(s) : s[i] = s[j] => i = j
On(t, s) == \E i \in 1 .. Len(s) : s[i] = t

\* The run queue holds the ready threads of st, each once, at its priority in pr, and the
\* bitmap names the queues that hold one.
RunQueue(rq, st, pr) ==
    /\ rq \in [queue : [Priorities -> Seq(Threads)], bitmap : SUBSET Priorities]
    /\ \A p \in Priorities : Distinct(rq.queue[p])
    /\ \A p \in Priorities, t \in Threads :
          On(t, rq.queue[p]) <=> st[t] = "ready" /\ p = pr[t]
    /\ rq.bitmap = {p \in Priorities : rq.queue[p] # <<>>}

\* What a list is after its head, its end and its first element are written.
LEMMA ConsFacts ==
    ASSUME NEW s \in Seq(Threads), NEW t \in Threads
    PROVE  /\ <<t>> \o s \in Seq(Threads)
           /\ <<t>> \o s # <<>>
           /\ \A u : On(u, <<t>> \o s) <=> u = t \/ On(u, s)
           /\ Distinct(s) /\ ~ On(t, s) => Distinct(<<t>> \o s)
<1> DEFINE c == <<t>> \o s
<1>0. /\ c \in Seq(Threads)
      /\ Len(c) = Len(s) + 1
      /\ Len(s) \in Nat
      /\ c[1] = t
      /\ \A i \in 1 .. Len(s) : c[i + 1] = s[i]
  OBVIOUS
<1>1. \A i \in 1 .. Len(c) : i = 1 \/ (i - 1 \in 1 .. Len(s) /\ c[i] = s[i - 1])
  <2> SUFFICES ASSUME NEW i \in 1 .. Len(c), i # 1
               PROVE  i - 1 \in 1 .. Len(s) /\ c[i] = s[i - 1]
    OBVIOUS
  <2>1. i - 1 \in 1 .. Len(s) /\ (i - 1) + 1 = i
    BY <1>0
  <2>2. QED
    BY <1>0, <2>1
<1>2. c # <<>>
  BY <1>0
<1>3. \A u : On(u, c) <=> u = t \/ On(u, s)
  <2> HIDE DEF c
  <2> SUFFICES ASSUME NEW u PROVE On(u, c) <=> u = t \/ On(u, s)
    OBVIOUS
  <2>1. ASSUME On(u, c) PROVE u = t \/ On(u, s)
    BY <1>0, <1>1, <2>1 DEF On
  <2>2. ASSUME u = t PROVE On(u, c)
    <3>1. 1 \in 1 .. Len(c) BY <1>0
    <3>2. QED BY <3>1, <2>2, <1>0 DEF On
  <2>3. ASSUME On(u, s) PROVE On(u, c)
    <3>1. PICK i \in 1 .. Len(s) : s[i] = u BY <2>3 DEF On
    <3>2. i + 1 \in 1 .. Len(c) /\ c[i + 1] = u BY <1>0, <3>1
    <3>3. QED BY <3>2 DEF On
  <2>4. QED BY <2>1, <2>2, <2>3
<1>4. ASSUME Distinct(s), ~ On(t, s) PROVE Distinct(c)
  <2> HIDE DEF c
  <2>1. SUFFICES ASSUME NEW i \in 1 .. Len(c), NEW j \in 1 .. Len(c), c[i] = c[j]
                 PROVE  i = j
    BY DEF Distinct
  <2>2. CASE i = 1 /\ j # 1
    BY <1>0, <1>1, <1>4, <2>1, <2>2 DEF On
  <2>3. CASE i # 1 /\ j = 1
    BY <1>0, <1>1, <1>4, <2>1, <2>3 DEF On
  <2>4. CASE i # 1 /\ j # 1
    <3>1. i - 1 = j - 1
      BY <1>1, <1>4, <2>1, <2>4 DEF Distinct
    <3>2. QED BY <3>1, <1>0
  <2>5. QED BY <2>2, <2>3, <2>4
<1>5. QED
  BY <1>0, <1>2, <1>3, <1>4

LEMMA AppendFacts ==
    ASSUME NEW s \in Seq(Threads), NEW t \in Threads
    PROVE  /\ Append(s, t) \in Seq(Threads)
           /\ Append(s, t) # <<>>
           /\ \A u : On(u, Append(s, t)) <=> u = t \/ On(u, s)
           /\ Distinct(s) /\ ~ On(t, s) => Distinct(Append(s, t))
<1> DEFINE c == Append(s, t)
<1>0. /\ c \in Seq(Threads)
      /\ Len(c) = Len(s) + 1
      /\ Len(s) \in Nat
      /\ c[Len(s) + 1] = t
      /\ \A i \in 1 .. Len(s) : c[i] = s[i]
      /\ \A i \in 1 .. Len(c) : i \in 1 .. Len(s) \/ i = Len(s) + 1
  OBVIOUS
<1> HIDE DEF c
<1>2. c # <<>>
  BY <1>0
<1>3. \A u : On(u, c) <=> u = t \/ On(u, s)
  BY <1>0 DEF On
<1>4. ASSUME Distinct(s), ~ On(t, s) PROVE Distinct(c)
  BY <1>0, <1>4 DEF On, Distinct
<1>5. QED
  BY <1>0, <1>2, <1>3, <1>4 DEF c

LEMMA TailFacts ==
    ASSUME NEW s \in Seq(Threads), s # <<>>, Distinct(s)
    PROVE  /\ Head(s) \in Threads /\ On(Head(s), s)
           /\ Tail(s) \in Seq(Threads)
           /\ Distinct(Tail(s))
           /\ \A u : On(u, Tail(s)) <=> On(u, s) /\ u # Head(s)
<1> DEFINE r == Tail(s)
<1>0. /\ r \in Seq(Threads)
      /\ Head(s) = s[1]
      /\ Len(s) \in Nat \ {0}
      /\ Len(r) = Len(s) - 1
      /\ \A i \in 1 .. Len(r) : r[i] = s[i + 1]
      /\ \A i \in 1 .. Len(r) : i + 1 \in 1 .. Len(s) /\ i + 1 # 1
      /\ 1 \in 1 .. Len(s)
      /\ s[1] \in Threads
  OBVIOUS
<1>1. \A i \in 1 .. Len(s) : i = 1 \/ (i - 1 \in 1 .. Len(r) /\ r[i - 1] = s[i])
  <2> SUFFICES ASSUME NEW i \in 1 .. Len(s), i # 1
               PROVE  i - 1 \in 1 .. Len(r) /\ r[i - 1] = s[i]
    OBVIOUS
  <2>1. i - 1 \in 1 .. Len(r) /\ (i - 1) + 1 = i
    BY <1>0
  <2>2. QED
    BY <1>0, <2>1
<1> HIDE DEF r
<1>2. Distinct(r)
  <2>1. SUFFICES ASSUME NEW i \in 1 .. Len(r), NEW j \in 1 .. Len(r), r[i] = r[j]
                 PROVE  i = j
    BY DEF Distinct
  <2>2. i + 1 = j + 1
    BY <1>0, <2>1 DEF Distinct
  <2>3. QED BY <2>2, <1>0
<1>3. \A u : On(u, r) <=> On(u, s) /\ u # Head(s)
  <2>1. SUFFICES ASSUME NEW u PROVE On(u, r) <=> On(u, s) /\ u # Head(s)
    OBVIOUS
  <2>2. ASSUME On(u, r) PROVE On(u, s) /\ u # Head(s)
    BY <2>2, <1>0 DEF On, Distinct
  <2>3. ASSUME On(u, s), u # Head(s) PROVE On(u, r)
    BY <2>3, <1>0, <1>1 DEF On
  <2>4. QED BY <2>2, <2>3
<1>4. On(Head(s), s)
  BY <1>0 DEF On
<1>5. QED
  BY <1>0, <1>2, <1>3, <1>4 DEF r

\* A thread that becomes ready joins the list of its priority, at either end.
LEMMA JoinKeeps ==
    ASSUME NEW rq, NEW st \in [Threads -> States], NEW t \in Threads,
           NEW pr \in [Threads -> Priorities],
           RunQueue(rq, st, pr), st[t] # "ready",
           NEW list \in Seq(Threads), list # <<>>,
           Distinct(rq.queue[pr[t]]) /\ ~ On(t, rq.queue[pr[t]]) => Distinct(list),
           \A u : On(u, list) <=> u = t \/ On(u, rq.queue[pr[t]])
    PROVE  RunQueue([queue  |-> [rq.queue EXCEPT ![pr[t]] = list],
                     bitmap |-> rq.bitmap \cup {pr[t]}],
                    [st EXCEPT ![t] = "ready"], pr)
<1> DEFINE p == pr[t]
           r == [queue  |-> [rq.queue EXCEPT ![p] = list],
                 bitmap |-> rq.bitmap \cup {p}]
           s == [st EXCEPT ![t] = "ready"]
<1>1. /\ p \in Priorities
      /\ rq.queue \in [Priorities -> Seq(Threads)]
      /\ rq.bitmap \subseteq Priorities
      /\ Distinct(list)
  BY DEF RunQueue
<1>2. /\ r.queue \in [Priorities -> Seq(Threads)]
      /\ \A q \in Priorities : r.queue[q] = IF q = p THEN list ELSE rq.queue[q]
      /\ r.bitmap = rq.bitmap \cup {p}
      /\ r \in [queue : [Priorities -> Seq(Threads)], bitmap : SUBSET Priorities]
  BY <1>1
<1>3. /\ s[t] = "ready"
      /\ \A u \in Threads \ {t} : s[u] = st[u]
  OBVIOUS
<1> HIDE DEF r, s
<1>4. \A q \in Priorities : Distinct(r.queue[q])
  BY <1>1, <1>2 DEF RunQueue
<1>5. \A q \in Priorities, u \in Threads :
          On(u, r.queue[q]) <=> s[u] = "ready" /\ q = pr[u]
  <2> SUFFICES ASSUME NEW q \in Priorities, NEW u \in Threads
               PROVE  On(u, r.queue[q]) <=> s[u] = "ready" /\ q = pr[u]
    OBVIOUS
  <2>1. On(u, rq.queue[q]) <=> st[u] = "ready" /\ q = pr[u]
    BY DEF RunQueue
  <2>2. CASE q = p
    BY <1>2, <1>3, <2>1, <2>2
  <2>3. CASE q # p
    BY <1>2, <1>3, <2>1, <2>3
  <2>4. QED BY <2>2, <2>3
<1>6. r.bitmap = {q \in Priorities : r.queue[q] # <<>>}
  BY <1>1, <1>2 DEF RunQueue
<1>7. QED
  BY <1>2, <1>4, <1>5, <1>6 DEF RunQueue, r, s

LEMMA InsertHeadKeeps ==
    ASSUME NEW rq, NEW st \in [Threads -> States], NEW t \in Threads,
           prio \in [Threads -> Priorities],
           RunQueue(rq, st, prio), st[t] # "ready"
    PROVE  RunQueue(InsertHead(rq, t), [st EXCEPT ![t] = "ready"], prio)
<1> DEFINE list == <<t>> \o rq.queue[prio[t]]
<1>1. rq.queue[prio[t]] \in Seq(Threads)
  BY DEF RunQueue
<1>2. /\ list \in Seq(Threads)
      /\ list # <<>>
      /\ Distinct(rq.queue[prio[t]]) /\ ~ On(t, rq.queue[prio[t]]) => Distinct(list)
      /\ \A u : On(u, list) <=> u = t \/ On(u, rq.queue[prio[t]])
  BY <1>1, ConsFacts
<1>3. InsertHead(rq, t) = [queue  |-> [rq.queue EXCEPT ![prio[t]] = list],
                           bitmap |-> rq.bitmap \cup {prio[t]}]
  BY DEF InsertHead
<1> HIDE DEF list
<1>4. RunQueue([queue  |-> [rq.queue EXCEPT ![prio[t]] = list],
                bitmap |-> rq.bitmap \cup {prio[t]}],
               [st EXCEPT ![t] = "ready"], prio)
  BY <1>2, JoinKeeps
<1>5. QED
  BY <1>3, <1>4

LEMMA AppendKeeps ==
    ASSUME NEW rq, NEW st \in [Threads -> States], NEW t \in Threads,
           NEW pr \in [Threads -> Priorities],
           RunQueue(rq, st, pr), st[t] # "ready"
    PROVE  RunQueue([queue  |-> [rq.queue EXCEPT ![pr[t]] = Append(@, t)],
                     bitmap |-> rq.bitmap \cup {pr[t]}],
                    [st EXCEPT ![t] = "ready"], pr)
<1> DEFINE list == Append(rq.queue[pr[t]], t)
<1>1. rq.queue[pr[t]] \in Seq(Threads)
  BY DEF RunQueue
<1>2. /\ list \in Seq(Threads)
      /\ list # <<>>
      /\ Distinct(rq.queue[pr[t]]) /\ ~ On(t, rq.queue[pr[t]]) => Distinct(list)
      /\ \A u : On(u, list) <=> u = t \/ On(u, rq.queue[pr[t]])
  BY <1>1, AppendFacts
<1>3. [rq.queue EXCEPT ![pr[t]] = Append(@, t)] = [rq.queue EXCEPT ![pr[t]] = list]
  OBVIOUS
<1> HIDE DEF list
<1>4. QED
  BY <1>2, <1>3, JoinKeeps

LEMMA InsertTailKeeps ==
    ASSUME NEW rq, NEW st \in [Threads -> States], NEW t \in Threads,
           prio \in [Threads -> Priorities],
           RunQueue(rq, st, prio), st[t] # "ready"
    PROVE  RunQueue(InsertTail(rq, t), [st EXCEPT ![t] = "ready"], prio)
BY AppendKeeps DEF InsertTail

\* InsertAll by its recursion equation: one woken thread after the other.
LEMMA InsertAllEquation ==
    ASSUME NEW rq, NEW woken \in Seq(Threads)
    PROVE  \E f : /\ f = [n \in 0 .. Len(woken) |->
                            IF n = 0 THEN rq ELSE InsertHead(f[n - 1], woken[n])]
                  /\ InsertAll(rq, woken) = f[Len(woken)]
<1> DEFINE Defines(f, m) ==
               f = [n \in 0 .. m |-> IF n = 0 THEN rq ELSE InsertHead(f[n - 1], woken[n])]
           S == {m \in Nat : ~ \E f : Defines(f, m)}
<1>1. ASSUME NEW m \in S, \A k \in S : m <= k
      PROVE  FALSE
  <2>1. CASE m = 0
    <3> DEFINE g == [n \in 0 .. 0 |-> rq]
    <3>1. Defines(g, 0)
      OBVIOUS
    <3>2. QED BY <3>1, <2>1
  <2>2. CASE m # 0
    <3>1. m - 1 \in Nat /\ m - 1 \notin S
      BY <1>1, <2>2
    <3>2. PICK f : Defines(f, m - 1)
      BY <3>1
    <3> DEFINE g == [n \in 0 .. m |-> IF n = m THEN InsertHead(f[m - 1], woken[m]) ELSE f[n]]
    <3>3. Defines(g, m)
      <4>1. ASSUME NEW n \in 0 .. m
            PROVE  g[n] = IF n = 0 THEN rq ELSE InsertHead(g[n - 1], woken[n])
        <5>1. CASE n = 0
          BY <3>2, <5>1, <2>2
        <5>2. CASE n = m
          BY <3>1, <5>2, <2>2
        <5>3. CASE n # 0 /\ n # m
          <6>1. n \in 0 .. (m - 1) /\ n - 1 \in 0 .. m /\ n - 1 # m
            BY <5>3
          <6>2. g[n] = f[n] /\ g[n - 1] = f[n - 1]
            BY <6>1, <5>3
          <6>3. f[n] = InsertHead(f[n - 1], woken[n])
            BY <3>2, <6>1, <5>3
          <6>4. QED BY <6>2, <6>3, <5>3
        <5>4. QED BY <5>1, <5>2, <5>3
      <4>2. QED BY <4>1
    <3>4. QED BY <3>3, <1>1
  <2>3. QED BY <2>1, <2>2
<1>2. S = {}
  BY <1>1, LeastNatural
<1>3. \E f : Defines(f, Len(woken))
  BY <1>2
<1> DEFINE after == CHOOSE f : Defines(f, Len(woken))
<1>4. Defines(after, Len(woken))
  BY <1>3
<1>5. InsertAll(rq, woken) = after[Len(woken)]
  BY DEF InsertAll
<1>6. QED
  BY <1>4, <1>5

\* The states when the first n of the woken threads have been made ready.
MadeReadyUpTo(st, woken, n) ==
    [t \in Threads |-> IF \E i \in 1 .. n : woken[i] = t THEN "ready" ELSE st[t]]

\* wait_queue_wake_one and _all: threads that were not ready join the run queue one after
\* the other.
LEMMA InsertAllKeeps ==
    ASSUME NEW rq, NEW st \in [Threads -> States], NEW woken \in Seq(Threads),
           prio \in [Threads -> Priorities],
           RunQueue(rq, st, prio), Distinct(woken),
           \A t \in Threads : On(t, woken) => st[t] # "ready"
    PROVE  /\ RunQueue(InsertAll(rq, woken), MadeReady(st, woken), prio)
           /\ MadeReady(st, woken) \in [Threads -> States]
           /\ \A t \in Threads :
                 MadeReady(st, woken)[t] = IF On(t, woken) THEN "ready" ELSE st[t]
<1> DEFINE m == Len(woken)
<1>0. m \in Nat /\ woken \in [1 .. m -> Threads]
  OBVIOUS
<1>1. PICK f : /\ f = [n \in 0 .. m |-> IF n = 0 THEN rq ELSE InsertHead(f[n - 1], woken[n])]
               /\ InsertAll(rq, woken) = f[m]
  BY InsertAllEquation
<1> DEFINE Bad == {n \in 0 .. m : ~ RunQueue(f[n], MadeReadyUpTo(st, woken, n), prio)}
<1>2. ASSUME NEW n \in Bad, \A k \in Bad : n <= k
      PROVE  FALSE
  <2>1. CASE n = 0
    <3>1. MadeReadyUpTo(st, woken, 0) = st
      BY DEF MadeReadyUpTo
    <3>2. f[0] = rq
      BY <1>0, <1>1
    <3>3. QED BY <3>1, <3>2, <2>1
  <2>2. CASE n # 0
    <3> DEFINE s == MadeReadyUpTo(st, woken, n - 1)
    <3>1. /\ n \in 1 .. m
          /\ n - 1 \in 0 .. m
          /\ n - 1 \notin Bad
      BY <1>0, <1>2, <2>2
    <3>2. RunQueue(f[n - 1], s, prio)
      BY <3>1
    <3>3. f[n] = InsertHead(f[n - 1], woken[n])
      BY <1>1, <3>1, <2>2
    <3>4. woken[n] \in Threads
      BY <1>0, <3>1
    <3>5. s \in [Threads -> States]
      BY DEF MadeReadyUpTo, States
    <3>6. s[woken[n]] # "ready"
      <4>1. \A i \in 1 .. (n - 1) : woken[i] # woken[n]
        BY <3>1, <1>0 DEF Distinct
      <4>2. st[woken[n]] # "ready"
        BY <3>1, <3>4 DEF On
      <4>3. QED BY <4>1, <4>2, <3>4 DEF MadeReadyUpTo
    <3>7. MadeReadyUpTo(st, woken, n) = [s EXCEPT ![woken[n]] = "ready"]
      <4>1. \A t : (\E i \in 1 .. n : woken[i] = t)
                     <=> t = woken[n] \/ \E i \in 1 .. (n - 1) : woken[i] = t
        <5>1. \A i \in 1 .. n : i = n \/ i \in 1 .. (n - 1)
          BY <3>1
        <5>2. \A i \in 1 .. (n - 1) : i \in 1 .. n
          BY <3>1
        <5>3. n \in 1 .. n
          BY <3>1
        <5>4. QED BY <5>1, <5>2, <5>3
      <4>2. QED BY <4>1, <3>4 DEF MadeReadyUpTo
    <3>8. RunQueue(f[n], MadeReadyUpTo(st, woken, n), prio)
      <4> HIDE DEF s
      <4> QED BY <3>2, <3>3, <3>4, <3>5, <3>6, <3>7, InsertHeadKeeps
    <3>9. QED BY <3>8
  <2>3. QED BY <2>1, <2>2
<1>3. Bad = {}
  <2>1. Bad \subseteq Nat
    BY <1>0
  <2>2. QED BY <1>2, <2>1, LeastNatural
<1>4. RunQueue(InsertAll(rq, woken), MadeReadyUpTo(st, woken, m), prio)
  <2>1. m \in 0 .. m /\ m \notin Bad
    BY <1>0, <1>3
  <2>2. QED BY <1>1, <2>1
<1>5. \A t : t \in ToSet(woken) <=> On(t, woken)
  BY <1>0 DEF ToSet, On
<1>6. MadeReadyUpTo(st, woken, m) = MadeReady(st, woken)
  BY <1>5 DEF MadeReadyUpTo, MadeReady, On
<1>7. QED
  BY <1>4, <1>5, <1>6 DEF MadeReady, States

\* thread_resched goes to a ready thread that no other outranks, and takes it off the run
\* queue.
LEMMA ReschedPicks ==
    ASSUME NEW st \in [Threads -> States], NEW rq, NEW qt \in [Threads -> 0 .. Quantum],
           NEW c, NEW pr \in [Threads -> Priorities],
           HighestPriority \in Nat,
           current \in Threads,
           saved \in [Threads -> Nat],
           RunQueue(rq, st, pr),
           \E t \in Threads : st[t] = "ready",
           Resched(st, rq, qt, c)
    PROVE  /\ current' \in Threads
           /\ st[current'] = "ready"
           /\ \A t \in Threads : st[t] = "ready" => pr[t] <= pr[current']
           /\ state' = [st EXCEPT ![current'] = "running"]
           /\ RunQueue(runq', state', pr)
           /\ quantum' \in [Threads -> 0 .. Quantum]
           /\ csc' = IF current' = current THEN c ELSE saved[current']
           /\ saved' = IF current' = current THEN saved ELSE [saved EXCEPT ![current] = c]
<1> DEFINE p == Highest(rq.bitmap)
           q == rq.queue[p]
           new == Head(q)
           rest == Tail(q)
<1>1. PICK r \in Threads : st[r] = "ready"
  OBVIOUS
<1>2. /\ rq.queue \in [Priorities -> Seq(Threads)]
      /\ \A t \in Threads : st[t] = "ready" => pr[t] \in rq.bitmap
      /\ rq.bitmap \in SUBSET Priorities
  <2>1. rq.queue \in [Priorities -> Seq(Threads)] /\ rq.bitmap \in SUBSET Priorities
    BY DEF RunQueue
  <2>2. ASSUME NEW t \in Threads, st[t] = "ready" PROVE rq.queue[pr[t]] # <<>>
    <3>1. On(t, rq.queue[pr[t]])
      BY <2>2 DEF RunQueue
    <3>2. QED BY <3>1 DEF On
  <2>3. QED BY <2>1, <2>2 DEF RunQueue
<1>3. /\ p \in rq.bitmap
      /\ \A k \in rq.bitmap : k <= p
  <2> DEFINE below == {HighestPriority - k : k \in rq.bitmap}
  <2>0. rq.bitmap # {} /\ \A k \in rq.bitmap : k \in Int /\ 0 <= k /\ k <= HighestPriority
    BY <1>1, <1>2 DEF Priorities
  <2>1. below \subseteq Nat /\ below # {}
    BY <2>0
  <2>2. PICK b \in below : \A k \in below : b <= k
    BY <2>1, LeastNatural
  <2>3. PICK h \in rq.bitmap : b = HighestPriority - h
    BY <2>2
  <2>4. ASSUME NEW k \in rq.bitmap PROVE k <= h
    <3>1. b <= HighestPriority - k
      BY <2>2
    <3>2. QED BY <3>1, <2>0, <2>3
  <2>5. QED
    BY <2>4 DEF Highest
<1>4. /\ p \in Priorities
      /\ q \in Seq(Threads)
      /\ q # <<>>
      /\ Distinct(q)
  BY <1>2, <1>3 DEF RunQueue
<1> HIDE DEF p
<1>5. /\ new \in Threads /\ On(new, q)
      /\ rest \in Seq(Threads)
      /\ Distinct(rest)
      /\ \A u : On(u, rest) <=> On(u, q) /\ u # new
  BY <1>4, TailFacts
<1> HIDE DEF q, new, rest
<1>6. st[new] = "ready" /\ pr[new] = p
  BY <1>4, <1>5 DEF RunQueue, q
<1>7. \A t \in Threads : st[t] = "ready" => pr[t] <= pr[new]
  BY <1>2, <1>3, <1>6
<1>8. /\ runq' = [queue  |-> [rq.queue EXCEPT ![p] = rest],
                  bitmap |-> IF rest = <<>> THEN rq.bitmap \ {p} ELSE rq.bitmap]
      /\ state' = [st EXCEPT ![new] = "running"]
  BY DEF Resched, p, q, new, rest
<1>9. /\ current' = new
      /\ csc' = IF current' = current THEN c ELSE saved[current']
      /\ saved' = IF current' = current THEN saved ELSE [saved EXCEPT ![current] = c]
      /\ quantum' = qt \/ quantum' = [qt EXCEPT ![new] = IF @ = 0 THEN Quantum ELSE @]
  BY DEF Resched, p, q, new, rest
<1>10. quantum' \in [Threads -> 0 .. Quantum]
  BY <1>9 DEF Quantum
<1>11. RunQueue(runq', state', pr)
  <2> DEFINE r2 == [queue  |-> [rq.queue EXCEPT ![p] = rest],
                    bitmap |-> IF rest = <<>> THEN rq.bitmap \ {p} ELSE rq.bitmap]
             s2 == [st EXCEPT ![new] = "running"]
  <2>1. /\ r2 \in [queue : [Priorities -> Seq(Threads)], bitmap : SUBSET Priorities]
        /\ \A k \in Priorities : r2.queue[k] = IF k = p THEN rest ELSE rq.queue[k]
        /\ r2.bitmap = IF rest = <<>> THEN rq.bitmap \ {p} ELSE rq.bitmap
    BY <1>2, <1>4, <1>5
  <2>2. /\ s2[new] = "running"
        /\ \A t \in Threads \ {new} : s2[t] = st[t]
    BY <1>5
  <2> HIDE DEF r2, s2
  <2>3. \A k \in Priorities : Distinct(r2.queue[k])
    BY <2>1, <1>5 DEF RunQueue
  <2>4. \A k \in Priorities, t \in Threads :
            On(t, r2.queue[k]) <=> s2[t] = "ready" /\ k = pr[t]
    <3> SUFFICES ASSUME NEW k \in Priorities, NEW t \in Threads
                 PROVE  On(t, r2.queue[k]) <=> s2[t] = "ready" /\ k = pr[t]
      OBVIOUS
    <3>1. On(t, rq.queue[k]) <=> st[t] = "ready" /\ k = pr[t]
      BY DEF RunQueue
    <3>2. CASE k = p
      BY <3>1, <3>2, <2>1, <2>2, <1>5 DEF q
    <3>3. CASE k # p
      BY <3>1, <3>3, <2>1, <2>2, <1>6
    <3>4. QED BY <3>2, <3>3
  <2>5. r2.bitmap = {k \in Priorities : r2.queue[k] # <<>>}
    <3>1. rq.bitmap = {k \in Priorities : rq.queue[k] # <<>>}
      BY DEF RunQueue
    <3>2. CASE rest = <<>>
      BY <3>1, <3>2, <2>1, <1>4
    <3>3. CASE rest # <<>>
      BY <3>1, <3>3, <2>1, <1>4 DEF q
    <3>4. QED BY <3>2, <3>3
  <2>6. RunQueue(r2, s2, pr)
    BY <2>1, <2>3, <2>4, <2>5 DEF RunQueue
  <2>7. runq' = r2 /\ state' = s2
    BY <1>8 DEF r2, s2
  <2>8. QED
    BY <2>6, <2>7
<1>12. QED
  BY <1>5, <1>6, <1>7, <1>8, <1>9, <1>10, <1>11

---------------------------------------------------------------------------
(* The wait queues *)

\* The wait queues hold the blocked threads of st, each once, in the queue of the object
\* it blocks on in bw.
WaitQueues(wq, st, bw) ==
    /\ wq \in [Objects -> Seq(Threads)]
    /\ \A w \in Objects : Distinct(wq[w])
    /\ \A w \in Objects, t \in Threads :
          On(t, wq[w]) <=> st[t] = "blocked" /\ w = bw[t]

\* The wait queues depend on who is blocked only.
LEMMA SameBlocked ==
    ASSUME NEW wq, NEW st, NEW st2, NEW bw, WaitQueues(wq, st, bw),
           \A t \in Threads : st2[t] = "blocked" <=> st[t] = "blocked"
    PROVE  WaitQueues(wq, st2, bw)
BY DEF WaitQueues

\* wait_queue_block joins a queue.
LEMMA EnqueueKeeps ==
    ASSUME NEW wq, NEW st \in [Threads -> States], NEW bw \in [Threads -> Objects \cup {None}],
           WaitQueues(wq, st, bw),
           NEW t \in Threads, st[t] # "blocked", NEW w \in Objects
    PROVE  WaitQueues([wq EXCEPT ![w] = Append(@, t)], [st EXCEPT ![t] = "blocked"],
                      [bw EXCEPT ![t] = w])
<1> DEFINE q2 == [wq EXCEPT ![w] = Append(@, t)]
           s2 == [st EXCEPT ![t] = "blocked"]
           b2 == [bw EXCEPT ![t] = w]
<1>1. /\ wq[w] \in Seq(Threads)
      /\ wq \in [Objects -> Seq(Threads)]
      /\ ~ On(t, wq[w])
      /\ Distinct(wq[w])
  BY DEF WaitQueues
<1>2. /\ q2 \in [Objects -> Seq(Threads)]
      /\ \A v \in Objects : q2[v] = IF v = w THEN Append(wq[w], t) ELSE wq[v]
      /\ Distinct(Append(wq[w], t))
      /\ \A u : On(u, Append(wq[w], t)) <=> u = t \/ On(u, wq[w])
  BY <1>1, AppendFacts
<1>3. \A u \in Threads : /\ s2[u] = IF u = t THEN "blocked" ELSE st[u]
                         /\ b2[u] = IF u = t THEN w ELSE bw[u]
  OBVIOUS
<1> HIDE DEF q2, s2, b2
<1>4. \A v \in Objects : Distinct(q2[v])
  BY <1>2 DEF WaitQueues
<1>5. ASSUME NEW v \in Objects, NEW u \in Threads
      PROVE  On(u, q2[v]) <=> s2[u] = "blocked" /\ v = b2[u]
  <2>1. On(u, wq[v]) <=> st[u] = "blocked" /\ v = bw[u]
    BY DEF WaitQueues
  <2>2. CASE v = w
    <3>1. CASE u = t
      BY <1>2, <1>3, <2>2, <3>1
    <3>2. CASE u # t
      BY <1>2, <1>3, <2>1, <2>2, <3>2
    <3>3. QED BY <3>1, <3>2
  <2>3. CASE v # w
    BY <1>2, <1>3, <2>1, <2>3
  <2>4. QED BY <2>2, <2>3
<1>6. QED
  BY <1>2, <1>4, <1>5 DEF WaitQueues, q2, s2, b2

\* A list cut in two.
LEMMA PrefixFacts ==
    ASSUME NEW s \in Seq(Threads), Distinct(s), NEW k \in 0 .. Len(s)
    PROVE  /\ SubSeq(s, 1, k) \in Seq(Threads)
           /\ Len(SubSeq(s, 1, k)) = k
           /\ Distinct(SubSeq(s, 1, k))
           /\ SubSeq(s, k + 1, Len(s)) \in Seq(Threads)
           /\ Len(SubSeq(s, k + 1, Len(s))) = Len(s) - k
           /\ Distinct(SubSeq(s, k + 1, Len(s)))
           /\ \A u : On(u, SubSeq(s, 1, k)) => On(u, s)
           /\ \A u : On(u, SubSeq(s, k + 1, Len(s))) <=> On(u, s) /\ ~ On(u, SubSeq(s, 1, k))
<1> DEFINE a == SubSeq(s, 1, k)
           b == SubSeq(s, k + 1, Len(s))
<1>0. k \in Int /\ 0 <= k /\ Len(s) \in Nat /\ k <= Len(s)
  OBVIOUS
<1>1. /\ a \in Seq(Threads)
      /\ Len(a) = k
      /\ \A i \in 1 .. k : a[i] = s[i]
  OBVIOUS
<1>2. /\ b \in Seq(Threads)
      /\ Len(b) = Len(s) - k
      /\ \A i \in 1 .. (Len(s) - k) : b[i] = s[k + i]
  OBVIOUS
<1> HIDE DEF a, b
<1>3. \A i \in 1 .. k : i \in 1 .. Len(s)
  BY <1>0
<1>4. \A i \in 1 .. (Len(s) - k) : k + i \in 1 .. Len(s) /\ k + i \notin 1 .. k
  BY <1>0
<1>5. Distinct(a)
  BY <1>1, <1>3 DEF Distinct
<1>6. Distinct(b)
  <2>1. SUFFICES ASSUME NEW i \in 1 .. (Len(s) - k), NEW j \in 1 .. (Len(s) - k), b[i] = b[j]
                 PROVE  i = j
    BY <1>2 DEF Distinct
  <2>2. k + i = k + j
    BY <1>2, <1>4, <2>1 DEF Distinct
  <2>3. QED BY <2>2, <1>0
<1>7. \A u : On(u, a) => On(u, s)
  BY <1>1, <1>3 DEF On
<1>8. ASSUME NEW u, On(u, b) PROVE On(u, s) /\ ~ On(u, a)
  <2>1. PICK i \in 1 .. (Len(s) - k) : s[k + i] = u
    BY <1>2, <1>8 DEF On
  <2>2. \A j \in 1 .. k : s[j] # u
    BY <1>3, <1>4, <2>1 DEF Distinct
  <2>3. QED BY <1>1, <1>4, <2>1, <2>2 DEF On
<1>9. ASSUME NEW u, On(u, s), ~ On(u, a) PROVE On(u, b)
  <2>1. PICK i \in 1 .. Len(s) : s[i] = u
    BY <1>9 DEF On
  <2>2. i \notin 1 .. k
    BY <1>1, <1>9, <2>1 DEF On
  <2>3. i - k \in 1 .. (Len(s) - k) /\ k + (i - k) = i
    BY <1>0, <2>1, <2>2
  <2>4. QED BY <1>2, <2>1, <2>3 DEF On
<1>10. QED
  BY <1>1, <1>2, <1>5, <1>6, <1>7, <1>8, <1>9 DEF a, b

\* list_delete of a thread of the list.
LEMMA RemoveFacts ==
    ASSUME NEW s \in Seq(Threads), Distinct(s), NEW t, On(t, s)
    PROVE  /\ RemoveFirst(s, t) \in Seq(Threads)
           /\ Len(RemoveFirst(s, t)) = Len(s) - 1
           /\ Distinct(RemoveFirst(s, t))
           /\ \A u : On(u, RemoveFirst(s, t)) <=> On(u, s) /\ u # t
<1>1. PICK i \in 1 .. Len(s) : s[i] = t
  BY DEF On
<1>2. /\ Len(s) \in Nat
      /\ \A j \in 1 .. Len(s) : s[j] = t <=> j = i
  BY <1>1 DEF Distinct
<1>3. {j \in 1 .. Len(s) : s[j] = t} = {i}
  BY <1>1, <1>2
<1>4. Min({i}) = i
  BY <1>2 DEF Min
<1> DEFINE r == RemoveAt(s, i)
<1>5. RemoveFirst(s, t) = r
  BY <1>1, <1>3, <1>4 DEF RemoveFirst, SelectInSeq
<1>6. /\ r \in Seq(Threads)
      /\ Len(r) = Len(s) - 1
      /\ \A j \in 1 .. Len(r) : r[j] = IF j < i THEN s[j] ELSE s[j + 1]
  <2> DEFINE a == SubSeq(s, 1, i - 1)
             b == SubSeq(s, i + 1, Len(s))
  <2>1. /\ a \in Seq(Threads) /\ Len(a) = i - 1
        /\ \A j \in 1 .. (i - 1) : a[j] = s[j]
    BY <1>1, <1>2
  <2>2. /\ b \in Seq(Threads) /\ Len(b) = Len(s) - i
        /\ \A j \in 1 .. (Len(s) - i) : b[j] = s[i + j]
    BY <1>1, <1>2
  <2>3. r = a \o b
    BY DEF RemoveAt
  <2> HIDE DEF a, b, r
  <2>4. /\ r \in Seq(Threads) /\ Len(r) = Len(s) - 1
        /\ \A j \in 1 .. Len(r) : r[j] = IF j < i THEN a[j] ELSE b[j - (i - 1)]
    <3>1. /\ r \in Seq(Threads) /\ Len(r) = Len(a) + Len(b)
          /\ \A j \in 1 .. Len(a) + Len(b) : r[j] = IF j <= Len(a) THEN a[j] ELSE b[j - Len(a)]
      BY <2>1, <2>2, <2>3, ConcatProperties
    <3>2. Len(r) = Len(s) - 1
      BY <3>1, <2>1, <2>2, <1>1, <1>2
    <3>3. ASSUME NEW j \in 1 .. Len(r)
          PROVE  r[j] = IF j < i THEN a[j] ELSE b[j - (i - 1)]
      BY <3>1, <2>1, <1>1
    <3>4. QED BY <3>1, <3>2, <3>3
  <2>5. ASSUME NEW j \in 1 .. Len(r)
        PROVE  r[j] = IF j < i THEN s[j] ELSE s[j + 1]
    <3>1. CASE j < i
      BY <3>1, <2>1, <2>4, <1>1, <1>2
    <3>2. CASE ~ (j < i)
      <4>1. j - (i - 1) \in 1 .. (Len(s) - i) /\ i + (j - (i - 1)) = j + 1
        BY <3>2, <2>4, <1>1, <1>2
      <4>2. QED BY <4>1, <3>2, <2>2, <2>4
    <3>3. QED BY <3>1, <3>2
  <2>6. QED BY <2>4, <2>5
<1> HIDE DEF r
<1> DEFINE place(j) == IF j < i THEN j ELSE j + 1
<1>7. \A j \in 1 .. Len(r) : /\ place(j) \in 1 .. Len(s)
                             /\ place(j) # i
                             /\ r[j] = s[place(j)]
  BY <1>1, <1>2, <1>6
<1>8. \A j, k \in 1 .. Len(r) : place(j) = place(k) => j = k
  BY <1>1, <1>2, <1>6
<1>9. ASSUME NEW m \in 1 .. Len(s), m # i
      PROVE  \E j \in 1 .. Len(r) : place(j) = m
  <2>1. CASE m < i
    <3>1. m \in 1 .. Len(r) /\ place(m) = m
      BY <2>1, <1>1, <1>2, <1>6
    <3>2. QED BY <3>1
  <2>2. CASE ~ (m < i)
    <3>1. m - 1 \in 1 .. Len(r) /\ place(m - 1) = m
      BY <2>2, <1>9, <1>1, <1>2, <1>6
    <3>2. QED BY <3>1
  <2>3. QED BY <2>1, <2>2
<1> HIDE DEF place
<1>10. Distinct(r)
  <2>1. SUFFICES ASSUME NEW j \in 1 .. Len(r), NEW k \in 1 .. Len(r), r[j] = r[k]
                 PROVE  j = k
    BY DEF Distinct
  <2>2. place(j) = place(k)
    BY <1>7, <2>1 DEF Distinct
  <2>3. QED BY <2>2, <1>8
<1>11. ASSUME NEW u, On(u, r) PROVE On(u, s) /\ u # t
  BY <1>11, <1>2, <1>7 DEF On
<1>12. ASSUME NEW u, On(u, s), u # t PROVE On(u, r)
  <2>1. PICK m \in 1 .. Len(s) : s[m] = u
    BY <1>12 DEF On
  <2>2. m # i
    BY <2>1, <1>1, <1>12
  <2>3. PICK j \in 1 .. Len(r) : place(j) = m
    BY <1>9, <2>2
  <2>4. QED BY <2>1, <2>3, <1>7 DEF On
<1>13. QED
  BY <1>5, <1>6, <1>10, <1>11, <1>12

\* thread_unblock_from_wait_queue leaves the queue the thread blocks on.
LEMMA UnblockKeeps ==
    ASSUME state \in [Threads -> States], bwq \in [Threads -> Objects \cup {None}],
           WaitQueues(waitq, state, bwq),
           NEW t \in Threads, state[t] = "blocked", bwq[t] \in Objects
    PROVE  /\ WaitQueues([waitq EXCEPT ![bwq[t]] = RemoveFirst(@, t)],
                         [state EXCEPT ![t] = "ready"], [bwq EXCEPT ![t] = None])
           /\ Len(RemoveFirst(waitq[bwq[t]], t)) = Len(waitq[bwq[t]]) - 1
           /\ Len(waitq[bwq[t]]) \in Nat \ {0}
<1> DEFINE w == bwq[t]
           rest == RemoveFirst(waitq[w], t)
           q2 == [waitq EXCEPT ![w] = RemoveFirst(@, t)]
           s2 == [state EXCEPT ![t] = "ready"]
           b2 == [bwq EXCEPT ![t] = None]
<1>1. /\ waitq[w] \in Seq(Threads)
      /\ waitq \in [Objects -> Seq(Threads)]
      /\ Distinct(waitq[w])
      /\ On(t, waitq[w])
  BY DEF WaitQueues
<1>2. /\ rest \in Seq(Threads)
      /\ Len(rest) = Len(waitq[w]) - 1
      /\ Distinct(rest)
      /\ \A u : On(u, rest) <=> On(u, waitq[w]) /\ u # t
  BY <1>1, RemoveFacts
<1>3. Len(waitq[w]) \in Nat \ {0}
  BY <1>1 DEF On
<1>4. /\ q2 \in [Objects -> Seq(Threads)]
      /\ \A v \in Objects : q2[v] = IF v = w THEN rest ELSE waitq[v]
  BY <1>1, <1>2
<1>5. \A u \in Threads : /\ s2[u] = IF u = t THEN "ready" ELSE state[u]
                         /\ b2[u] = IF u = t THEN None ELSE bwq[u]
  OBVIOUS
<1> HIDE DEF q2, s2, b2, rest
<1>6. \A v \in Objects : Distinct(q2[v])
  BY <1>2, <1>4 DEF WaitQueues
<1>7. ASSUME NEW v \in Objects, NEW u \in Threads
      PROVE  On(u, q2[v]) <=> s2[u] = "blocked" /\ v = b2[u]
  <2>1. On(u, waitq[v]) <=> state[u] = "blocked" /\ v = bwq[u]
    BY DEF WaitQueues
  <2>2. CASE v = w
    BY <1>2, <1>4, <1>5, <2>1, <2>2
  <2>3. CASE v # w
    BY <1>4, <1>5, <2>1, <2>3
  <2>4. QED BY <2>2, <2>3
<1>8. QED
  BY <1>2, <1>3, <1>4, <1>6, <1>7 DEF WaitQueues, q2, s2, b2, rest


---------------------------------------------------------------------------
(* The inductive invariants *)

\* What thread.c's lists say of the threads: the run queue holds the ready ones, each
\* wait queue those that block on its object, its count their number.  The current thread
\* is running, or between joining a queue and thread_block; the boot thread never blocks,
\* so that there is always a thread to switch to.
Lists ==
    /\ state \in [Threads -> States]
    /\ prio \in [Threads -> Priorities]
    /\ current \in Threads
    /\ quantum \in [Threads -> 0 .. Quantum]
    /\ bwq \in [Threads -> Objects \cup {None}]
    /\ ret \in [Threads -> Results]
    /\ pc \in [Threads -> PCs]
    /\ RunQueue(runq, state, prio)
    /\ WaitQueues(waitq, state, bwq)
    /\ count \in [Objects -> Nat]
    /\ \A w \in Objects : count[w] = Len(waitq[w])
    /\ \A t \in Threads : state[t] = "blocked" => bwq[t] \in Objects
    /\ state[current] = "running" \/ pc[current] = "block"
    /\ state[Boot] = IF current = Boot THEN "running" ELSE "ready"
    /\ pc[Boot] # "block"
    /\ stage = "dpc" => state[Dpc] = "suspended"

\* kmain has left its critical section.
Begun == stage \in {"idle", "done"}

\* The critical sections thread t has entered and not left: those its routine leaves on
\* the way out, the one kmain holds until the end of its bring-up, the one of the
\* interrupt glue.
Held(t) ==
    (IF pc[t] = "user" THEN 0 ELSE IF pc[t] = "block" THEN 1 ELSE ExitsOf(pc[t]))
    + (IF t = Boot /\ ~ Begun THEN 1 ELSE 0)
    + (IF t = current /\ irq # "none" THEN 1 ELSE 0)

\* The count of thread t: the CPU's while it runs, the saved one while it does not.
Depth(t) == IF t = current THEN csc ELSE saved[t]

\* No thread leaves more critical sections than it has entered.  (A time-out that comes
\* late enters one more, so a count may be higher than the sections held.)
Sections ==
    /\ csc \in Nat
    /\ saved \in [Threads -> Nat]
    /\ \A t \in Threads : Held(t) <= Depth(t)
    /\ irq # "none" => Begun

\* The types of the variables the lists do not depend on.
Rest ==
    /\ ints \in BOOLEAN
    /\ panicked \in BOOLEAN
    /\ signalled \in [Events -> BOOLEAN]
    /\ valid \in [Objects -> BOOLEAN]
    /\ holder \in [Mutexes -> Threads \cup {None}]
    /\ mcount \in [Mutexes -> Int]
    /\ timer \in [Threads -> {"none", "sleep", "timeout"}]
    /\ call \in [Threads -> [op : WaitOps \cup {"none"}, obj : Objects \cup {None}]]
    /\ irq \in Irqs
    /\ stage \in Stages
    /\ dpcAt \in {"wait", "take", "cleanup"}
    /\ dpcList \in Seq(Apps)
    /\ dpcJob \in Apps \cup {None}
    /\ \A t \in Threads : pc[t] = "block" => call[t].op \in WaitOps

\* The inductive invariant.  That a thread is on one list needs the states of the
\* threads, that a count stays a natural number the sections held, that a wait returns to
\* the routine it came from the call recorded.
QueueInv == Lists /\ Sections /\ Rest

\* Who is blocked is who is in a wait queue.
LEMMA SameWaiters ==
    ASSUME Lists, Lists', UNCHANGED waitq
    PROVE  \A t \in Threads : state'[t] = "blocked" <=> state[t] = "blocked"
<1>1. \A t \in Threads : state[t] = "blocked" <=> \E w \in Objects : On(t, waitq[w])
  BY DEF Lists, WaitQueues
<1>2. \A t \in Threads : state'[t] = "blocked" <=> \E w \in Objects : On(t, waitq'[w])
  BY DEF Lists, WaitQueues
<1>3. QED BY <1>1, <1>2

---------------------------------------------------------------------------
(* The routines of Sched *)

\* No ready thread outranks the current one.
Outranks == \A t \in Threads : state[t] = "ready" => prio[t] <= prio[current]

\* The variables of Lists that a switch does not set, and what it needs of the
\* states st and run queue rq it starts from.
SwitchFrom(st, rq) ==
    /\ st \in [Threads -> States]
    /\ prio' \in [Threads -> Priorities]
    /\ bwq' \in [Threads -> Objects \cup {None}]
    /\ ret' \in [Threads -> Results]
    /\ pc' \in [Threads -> PCs]
    /\ RunQueue(rq, st, prio')
    /\ WaitQueues(waitq', st, bwq')
    /\ count' \in [Objects -> Nat]
    /\ \A w \in Objects : count'[w] = Len(waitq'[w])
    /\ \A t \in Threads : st[t] = "blocked" => bwq'[t] \in Objects
    /\ st[Boot] = "ready"
    /\ pc'[Boot] # "block"
    /\ stage' = "dpc" => st[Dpc] = "suspended"

\* A switch keeps the lists, and goes to a ready thread that no other outranks.
LEMMA SwitchKeeps ==
    ASSUME Lists, saved \in [Threads -> Nat],
           NEW st, NEW rq, NEW qt \in [Threads -> 0 .. Quantum], NEW c,
           SwitchFrom(st, rq),
           Resched(st, rq, qt, c)
    PROVE  /\ Lists' /\ Outranks'
           /\ current' \in Threads
           /\ st[current'] = "ready"
           /\ state' = [st EXCEPT ![current'] = "running"]
           /\ csc' = IF current' = current THEN c ELSE saved[current']
           /\ saved' = IF current' = current THEN saved ELSE [saved EXCEPT ![current] = c]
<1> DEFINE pr == prio'
<1>0. /\ st \in [Threads -> States]
      /\ pr \in [Threads -> Priorities]
      /\ RunQueue(rq, st, pr)
      /\ \E t \in Threads : st[t] = "ready"
      /\ current \in Threads
      /\ HighestPriority \in Nat
  BY ThreadsAssumption DEF SwitchFrom, Lists, Threads
<1> HIDE DEF pr
<1>1. /\ current' \in Threads
      /\ st[current'] = "ready"
      /\ \A t \in Threads : st[t] = "ready" => pr[t] <= pr[current']
      /\ state' = [st EXCEPT ![current'] = "running"]
      /\ RunQueue(runq', state', pr)
      /\ quantum' \in [Threads -> 0 .. Quantum]
      /\ csc' = IF current' = current THEN c ELSE saved[current']
      /\ saved' = IF current' = current THEN saved ELSE [saved EXCEPT ![current] = c]
  BY <1>0, ReschedPicks
<1> USE DEF pr
<1>2. /\ state' \in [Threads -> States]
      /\ \A t \in Threads : state'[t] = "blocked" <=> st[t] = "blocked"
      /\ \A t \in Threads : state'[t] = IF t = current' THEN "running" ELSE st[t]
  BY <1>0, <1>1 DEF States
<1>3. WaitQueues(waitq', state', bwq')
  BY <1>2, SameBlocked DEF SwitchFrom
<1>4. Outranks'
  BY <1>1, <1>2 DEF Outranks
<1>5. Lists'
  <2>1. state'[Boot] = IF current' = Boot THEN "running" ELSE "ready"
    BY <1>2 DEF SwitchFrom, Threads
  <2>2. state'[current'] = "running"
    BY <1>1, <1>2
  <2>3. stage' = "dpc" => state'[Dpc] = "suspended"
    BY <1>1, <1>2 DEF SwitchFrom, Threads
  <2>4. QED
    BY <1>1, <1>2, <1>3, <2>1, <2>2, <2>3 DEF SwitchFrom, Lists
<1>6. QED
  BY <1>1, <1>4, <1>5

\* What a switch leaves in the critical section counts.
LEMMA SwitchSections ==
    ASSUME Sections, current \in Threads, current' \in Threads,
           NEW c \in Nat, NEW at \in PCs, pc \in [Threads -> PCs],
           pc' = [pc EXCEPT ![current] = at],
           irq' = "none",
           Begun => Begun',
           IF at = "user" THEN TRUE ELSE at # "block" /\ ExitsOf(at) <= c,
           current = Boot /\ ~ Begun' => ExitsOf(at) < c /\ at # "user",
           csc' = IF current' = current THEN c ELSE saved[current'],
           saved' = IF current' = current THEN saved ELSE [saved EXCEPT ![current] = c]
    PROVE  Sections'
<1>1. /\ csc' \in Nat
      /\ saved' \in [Threads -> Nat]
  BY DEF Sections
<1>2. ASSUME NEW t \in Threads PROVE Held(t)' <= Depth(t)'
  <2>1. CASE t = current
    <3>1. Depth(t)' = c
      BY <2>1 DEF Depth, Sections
    <3>2. pc'[t] = at
      BY <2>1
    <3>3. QED
      BY <2>1, <3>1, <3>2 DEF Held, ExitsOf
  <2>2. CASE t # current
    <3>1. Depth(t)' = saved[t] /\ Depth(t) = saved[t]
      BY <2>2 DEF Depth, Sections
    <3>2. pc'[t] = pc[t]
      BY <2>2
    <3>3. Held(t)' <= Held(t)
      BY <2>2, <3>2 DEF Held, ExitsOf
    <3>4. Held(t)' \in Int /\ Held(t) \in Int /\ saved[t] \in Int
      BY DEF Held, ExitsOf, Sections
    <3>5. Held(t) <= saved[t]
      BY <3>1 DEF Sections
    <3>6. QED
      BY <3>1, <3>3, <3>4, <3>5
  <2>3. QED BY <2>1, <2>2
<1>3. QED
  BY <1>1, <1>2 DEF Sections

\* thread_yield, from the routines that end in it.
LEMMA YieldAtKeeps ==
    ASSUME Lists, Sections,
           NEW st \in [Threads -> States], NEW rq, NEW c \in Nat,
           NEW at \in {"yield", "resume"},
           RunQueue(rq, st, prio),
           st[current] = "running",
           \A t \in Threads : st[t] = "blocked" <=> state[t] = "blocked",
           st[Boot] = IF current = Boot THEN "running" ELSE "ready",
           stage' = "dpc" => st[Dpc] = "suspended",
           irq' = "none",
           Begun => Begun',
           ExitsOf(at) <= c + 1,
           current = Boot /\ ~ Begun' => ExitsOf(at) < c + 1,
           YieldAt(st, rq, c, at)
    PROVE  /\ Lists' /\ Sections' /\ Outranks'
           /\ st[current'] = "ready" \/ current' = current
           /\ \A t \in Threads :
                 state'[t] = IF t = current' THEN "running"
                             ELSE IF t = current THEN "ready" ELSE st[t]
<1> DEFINE s2 == [st EXCEPT ![current] = "ready"]
           r2 == InsertTail(rq, current)
           q2 == [quantum EXCEPT ![current] = 0]
<1>1. /\ Resched(s2, r2, q2, c + 1)
      /\ pc' = [pc EXCEPT ![current] = at]
      /\ UNCHANGED <<prio, waitq, count, bwq, ret>>
  BY DEF YieldAt, queueVars
<1>2. /\ current \in Threads
      /\ prio \in [Threads -> Priorities]
      /\ saved \in [Threads -> Nat]
      /\ q2 \in [Threads -> 0 .. Quantum]
      /\ pc \in [Threads -> PCs]
      /\ at \in PCs /\ at # "block" /\ at # "user"
  BY DEF Lists, Sections, Quantum, PCs
<1>3. /\ s2 \in [Threads -> States]
      /\ RunQueue(r2, s2, prio)
  BY <1>2, InsertTailKeeps DEF States
<1>4. \A t \in Threads : s2[t] = IF t = current THEN "ready" ELSE st[t]
  BY <1>2
<1> HIDE DEF s2, r2, q2
<1>5. WaitQueues(waitq, s2, bwq)
  <2>1. \A t \in Threads : s2[t] = "blocked" <=> state[t] = "blocked"
    BY <1>4
  <2>2. QED BY <2>1, SameBlocked DEF Lists
<1>6. SwitchFrom(s2, r2)
  <2>1. s2[Boot] = "ready" /\ pc'[Boot] # "block"
    BY <1>1, <1>2, <1>4 DEF Lists, Threads
  <2>2. stage' = "dpc" => s2[Dpc] = "suspended"
    BY <1>4 DEF Threads
  <2>3. \A t \in Threads : s2[t] = "blocked" => bwq[t] \in Objects
    BY <1>4 DEF Lists
  <2>4. pc' \in [Threads -> PCs]
    BY <1>1, <1>2
  <2>5. QED
    BY <1>1, <1>2, <1>3, <1>5, <2>1, <2>2, <2>3, <2>4 DEF SwitchFrom, Lists
<1>7. /\ Lists' /\ Outranks'
      /\ current' \in Threads
      /\ s2[current'] = "ready"
      /\ state' = [s2 EXCEPT ![current'] = "running"]
      /\ csc' = IF current' = current THEN c + 1 ELSE saved[current']
      /\ saved' = IF current' = current THEN saved ELSE [saved EXCEPT ![current] = c + 1]
  BY <1>1, <1>2, <1>6, SwitchKeeps
<1>8. Sections'
  <2>1. c + 1 \in Nat
    OBVIOUS
  <2>2. QED
    BY <1>1, <1>2, <1>7, <2>1, SwitchSections
<1>9. \A t \in Threads :
          state'[t] = IF t = current' THEN "running" ELSE IF t = current THEN "ready" ELSE st[t]
  BY <1>3, <1>4, <1>7
<1>10. QED
  BY <1>2, <1>4, <1>7, <1>8, <1>9

\* thread_preempt, at the end of an interrupt.
LEMMA PreemptKeeps ==
    ASSUME Lists, Sections,
           NEW qt \in [Threads -> 0 .. Quantum],
           state[current] = "running",
           irq # "none", irq' = "none", UNCHANGED stage,
           Preempt(qt)
    PROVE  /\ Lists' /\ Sections' /\ Outranks'
           /\ state[current'] = "ready" \/ current' = current
           /\ \A t \in Threads :
                 state'[t] = IF t = current' THEN "running"
                             ELSE IF t = current THEN "ready" ELSE state[t]
<1> DEFINE s2 == [state EXCEPT ![current] = "ready"]
           r2 == IF qt[current] > 0 THEN InsertHead(runq, current)
                                    ELSE InsertTail(runq, current)
<1>1. /\ Resched(s2, r2, qt, csc + 1)
      /\ pc' = [pc EXCEPT ![current] = "preempt"]
      /\ UNCHANGED <<prio, waitq, count, bwq, ret>>
  BY DEF Preempt, queueVars
<1>2. /\ current \in Threads
      /\ prio \in [Threads -> Priorities]
      /\ saved \in [Threads -> Nat]
      /\ pc \in [Threads -> PCs]
      /\ state \in [Threads -> States]
      /\ RunQueue(runq, state, prio)
  BY DEF Lists, Sections
<1>3. /\ s2 \in [Threads -> States]
      /\ RunQueue(r2, s2, prio)
  BY <1>2, InsertTailKeeps, InsertHeadKeeps DEF States
<1>4. \A t \in Threads : s2[t] = IF t = current THEN "ready" ELSE state[t]
  BY <1>2
<1> HIDE DEF s2, r2
<1>5. WaitQueues(waitq, s2, bwq)
  <2>1. \A t \in Threads : s2[t] = "blocked" <=> state[t] = "blocked"
    BY <1>4
  <2>2. QED BY <2>1, SameBlocked DEF Lists
<1>6. SwitchFrom(s2, r2)
  <2>1. s2[Boot] = "ready" /\ pc'[Boot] # "block"
    BY <1>1, <1>2, <1>4 DEF Lists, Threads
  <2>2. stage' = "dpc" => s2[Dpc] = "suspended"
    BY <1>4 DEF Threads, Lists
  <2>3. \A t \in Threads : s2[t] = "blocked" => bwq[t] \in Objects
    BY <1>4 DEF Lists
  <2>4. pc' \in [Threads -> PCs]
    BY <1>1, <1>2 DEF PCs
  <2>5. QED
    BY <1>1, <1>2, <1>3, <1>5, <2>1, <2>2, <2>3, <2>4 DEF SwitchFrom, Lists
<1>7. /\ Lists' /\ Outranks'
      /\ current' \in Threads
      /\ s2[current'] = "ready"
      /\ state' = [s2 EXCEPT ![current'] = "running"]
      /\ csc' = IF current' = current THEN csc + 1 ELSE saved[current']
      /\ saved' = IF current' = current THEN saved ELSE [saved EXCEPT ![current] = csc + 1]
  BY <1>1, <1>2, <1>6, SwitchKeeps
<1>8. Sections'
  <2>1. csc \in Nat /\ 1 <= csc
    <3>1. Held(current) <= csc
      BY <1>2 DEF Sections, Depth
    <3>2. 1 <= Held(current) /\ Held(current) \in Int
      BY DEF Held, ExitsOf
    <3>3. QED BY <3>1, <3>2 DEF Sections
  <2>2. Begun /\ Begun'
    BY DEF Sections, Begun
  <2>3. csc + 1 \in Nat /\ ExitsOf("preempt") <= csc + 1 /\ "preempt" \in PCs
    BY <2>1 DEF ExitsOf, PCs
  <2>4. QED
    BY <1>1, <1>2, <1>7, <2>1, <2>2, <2>3, SwitchSections
<1>9. \A t \in Threads :
          state'[t] = IF t = current' THEN "running" ELSE IF t = current THEN "ready" ELSE state[t]
  BY <1>3, <1>4, <1>7
<1>10. QED
  BY <1>2, <1>4, <1>7, <1>8, <1>9

\* The threads of `woken` are the head of the queue s.
Prefix(woken, s) == \E k \in 0 .. Len(s) : woken = SubSeq(s, 1, k)

\* Threads woken leave the head of their wait queue.
LEMMA LeaveQueueKeeps ==
    ASSUME Lists,
           NEW w \in Objects, NEW woken, Prefix(woken, waitq[w]),
           NEW result \in Results,
           LeaveQueue(w, woken, result)
    PROVE  /\ woken \in Seq(Threads)
           /\ Distinct(woken)
           /\ \A t \in Threads : On(t, woken) => state[t] = "blocked" /\ bwq[t] = w
           /\ \A t \in Threads : On(t, woken) <=> t \in ToSet(woken)
           /\ \A st \in [Threads -> States] :
                 (\A t \in Threads : st[t] = "blocked" <=> state[t] = "blocked" /\ ~ On(t, woken))
                     => WaitQueues(waitq', st, bwq')
           /\ bwq' \in [Threads -> Objects \cup {None}]
           /\ \A t \in Threads : bwq'[t] = IF On(t, woken) THEN None ELSE bwq[t]
           /\ ret' \in [Threads -> Results]
           /\ \A t \in Threads : ret'[t] = IF On(t, woken) THEN result ELSE ret[t]
           /\ count' \in [Objects -> Nat]
           /\ \A v \in Objects : count'[v] = Len(waitq'[v])
<1>1. /\ waitq' = [waitq EXCEPT ![w] = SubSeq(@, Len(woken) + 1, Len(@))]
      /\ count' = [count EXCEPT ![w] = @ - Len(woken)]
      /\ bwq' = [t \in Threads |-> IF t \in ToSet(woken) THEN None ELSE bwq[t]]
      /\ ret' = [t \in Threads |-> IF t \in ToSet(woken) THEN result ELSE ret[t]]
  BY DEF LeaveQueue
<1>2. /\ state \in [Threads -> States]
      /\ bwq \in [Threads -> Objects \cup {None}]
      /\ ret \in [Threads -> Results]
      /\ WaitQueues(waitq, state, bwq)
      /\ waitq \in [Objects -> Seq(Threads)]
      /\ count \in [Objects -> Nat]
      /\ \A v \in Objects : count[v] = Len(waitq[v])
  BY DEF Lists, WaitQueues
<1>0. PICK k \in 0 .. Len(waitq[w]) : woken = SubSeq(waitq[w], 1, k)
  BY DEF Prefix
<1> DEFINE rest == SubSeq(waitq[w], k + 1, Len(waitq[w]))
<1>3. /\ woken \in Seq(Threads)
      /\ Len(woken) = k
      /\ Distinct(woken)
      /\ rest \in Seq(Threads)
      /\ Len(rest) = Len(waitq[w]) - k
      /\ Distinct(rest)
      /\ \A u : On(u, woken) => On(u, waitq[w])
      /\ \A u : On(u, rest) <=> On(u, waitq[w]) /\ ~ On(u, woken)
  <2>1. waitq[w] \in Seq(Threads) /\ Distinct(waitq[w])
    BY <1>2 DEF WaitQueues
  <2>2. QED BY <1>0, <2>1, PrefixFacts
<1>4. \A t \in Threads : On(t, woken) <=> t \in ToSet(woken)
  <2>1. DOMAIN woken = 1 .. Len(woken)
    BY <1>3
  <2>2. QED BY <2>1 DEF On, ToSet
<1>5. \A t \in Threads : On(t, woken) => state[t] = "blocked" /\ bwq[t] = w
  BY <1>2, <1>3 DEF WaitQueues
<1>6. /\ bwq' \in [Threads -> Objects \cup {None}]
      /\ \A t \in Threads : bwq'[t] = IF On(t, woken) THEN None ELSE bwq[t]
      /\ ret' \in [Threads -> Results]
      /\ \A t \in Threads : ret'[t] = IF On(t, woken) THEN result ELSE ret[t]
  BY <1>1, <1>2, <1>4
<1>7. /\ count' \in [Objects -> Nat]
      /\ \A v \in Objects : count'[v] = Len(waitq'[v])
  <2>1. waitq'[w] = rest /\ count'[w] = count[w] - k
    BY <1>1, <1>2, <1>3
  <2>2. count'[w] = Len(waitq'[w]) /\ count'[w] \in Nat
    BY <2>1, <1>2, <1>3
  <2>3. \A v \in Objects \ {w} : waitq'[v] = waitq[v] /\ count'[v] = count[v]
    BY <1>1, <1>2
  <2>4. count' \in [Objects -> Nat]
    BY <2>2, <2>3, <1>1, <1>2
  <2>5. QED BY <2>2, <2>3, <2>4, <1>2
<1>8. ASSUME NEW st \in [Threads -> States],
             \A t \in Threads : st[t] = "blocked" <=> state[t] = "blocked" /\ ~ On(t, woken)
      PROVE  WaitQueues(waitq', st, bwq')
  <2>1. /\ waitq' \in [Objects -> Seq(Threads)]
        /\ \A v \in Objects : waitq'[v] = IF v = w THEN rest ELSE waitq[v]
    BY <1>1, <1>2, <1>3
  <2>2. \A v \in Objects : Distinct(waitq'[v])
    BY <2>1, <1>2, <1>3 DEF WaitQueues
  <2>3. ASSUME NEW v \in Objects, NEW u \in Threads
        PROVE  On(u, waitq'[v]) <=> st[u] = "blocked" /\ v = bwq'[u]
    <3>1. On(u, waitq[v]) <=> state[u] = "blocked" /\ v = bwq[u]
      BY <1>2 DEF WaitQueues
    <3> HIDE DEF rest
    <3>2. CASE v = w
      <4>1. On(u, waitq'[v]) <=> state[u] = "blocked" /\ v = bwq[u] /\ ~ On(u, woken)
        BY <3>1, <3>2, <2>1, <1>3
      <4>2. QED BY <4>1, <1>6, <1>8
    <3>3. CASE v # w
      <4>1. On(u, waitq'[v]) <=> state[u] = "blocked" /\ v = bwq[u]
        BY <3>1, <3>3, <2>1
      <4>2. CASE On(u, woken)
        <5>1. state[u] = "blocked" /\ bwq[u] = w
          BY <4>2, <1>5
        <5>2. st[u] # "blocked"
          BY <4>2, <1>8
        <5>3. QED BY <4>1, <5>1, <5>2, <3>3
      <4>3. CASE ~ On(u, woken)
        BY <4>1, <4>3, <1>6, <1>8
      <4>4. QED BY <4>2, <4>3
    <3>4. QED BY <3>2, <3>3
  <2>4. QED BY <2>1, <2>2, <2>3 DEF WaitQueues
<1>9. QED
  BY <1>3, <1>4, <1>5, <1>6, <1>7, <1>8


\* Whom a signal wakes: nobody, the first or all of a queue.
LEMMA PrefixesWoken ==
    ASSUME NEW w \in Objects, waitq \in [Objects -> Seq(Threads)],
           NEW woken \in {<<>>, FirstOf(w), waitq[w]}
    PROVE  Prefix(woken, waitq[w])
<1> DEFINE s == waitq[w]
<1>1. s \in Seq(Threads) /\ Len(s) \in Nat
  OBVIOUS
<1> HIDE DEF s
<1>2. 0 \in 0 .. Len(s) /\ SubSeq(s, 1, 0) = <<>>
  BY <1>1
<1>3. Len(s) \in 0 .. Len(s) /\ SubSeq(s, 1, Len(s)) = s
  BY <1>1, SubSeqFull
<1>4. ASSUME s # <<>>
      PROVE  1 \in 0 .. Len(s) /\ SubSeq(s, 1, 1) = <<Head(s)>>
  <2>1. Len(s) >= 1
    BY <1>1, <1>4
  <2>2. /\ SubSeq(s, 1, 1) \in Seq(Threads)
        /\ Len(SubSeq(s, 1, 1)) = 1
        /\ SubSeq(s, 1, 1)[1] = s[1]
        /\ Head(s) = s[1] /\ s[1] \in Threads
    BY <1>1, <2>1
  <2>3. /\ <<s[1]>> \in Seq(Threads)
        /\ Len(<<s[1]>>) = 1
        /\ <<s[1]>>[1] = s[1]
    BY <2>2
  <2> DEFINE a == SubSeq(s, 1, 1)
             b == <<s[1]>>
  <2>4. a = b
    <3>1. a \in Seq(Threads) /\ b \in Seq(Threads) /\ Len(a) = Len(b)
          /\ Len(a) = 1 /\ a[1] = b[1]
      BY <2>2, <2>3
    <3> HIDE DEF a, b
    <3>2. \A i \in 1 .. Len(a) : a[i] = b[i]
      BY <3>1
    <3>3. QED BY <3>1, <3>2, SeqEqual
  <2>5. QED BY <2>1, <2>2, <2>4
<1>5. QED
  BY <1>2, <1>3, <1>4 DEF FirstOf, Prefix, s

\* What a step may do to the state of a thread when it wakes those of `woken`.
WakesOnly(woken) ==
    \A t \in Threads :
        /\ state'[t] = "blocked" <=> state[t] = "blocked" /\ ~ On(t, woken)
        /\ state'[t] = state[t]
             \/ {state[t], state'[t]} \subseteq {"blocked", "ready", "running"}

\* A wake-up keeps the lists, whether or not it switches.
LEMMA WakeKeeps ==
    ASSUME Lists, Sections,
           NEW w \in Objects, NEW woken, Prefix(woken, waitq[w]),
           NEW result \in Results, NEW reschedule \in BOOLEAN,
           reschedule => state[current] = "running" /\ current # Boot /\ irq' = "none",
           irq' # "none" => irq # "none", UNCHANGED stage,
           Wake(w, woken, reschedule, result)
    PROVE  /\ Lists' /\ Sections'
           /\ current' # current => Outranks' /\ state[current'] \in {"ready", "blocked"}
           /\ WakesOnly(woken)
<1>1. LeaveQueue(w, woken, result) /\ UNCHANGED <<prio, panicked>>
  BY DEF Wake
<1>2. /\ woken \in Seq(Threads)
      /\ Distinct(woken)
      /\ \A t \in Threads : On(t, woken) => state[t] = "blocked" /\ bwq[t] = w
      /\ \A st \in [Threads -> States] :
            (\A t \in Threads : st[t] = "blocked" <=> state[t] = "blocked" /\ ~ On(t, woken))
                => WaitQueues(waitq', st, bwq')
      /\ bwq' \in [Threads -> Objects \cup {None}]
      /\ \A t \in Threads : bwq'[t] = IF On(t, woken) THEN None ELSE bwq[t]
      /\ ret' \in [Threads -> Results]
      /\ count' \in [Objects -> Nat]
      /\ \A v \in Objects : count'[v] = Len(waitq'[v])
  BY <1>1, LeaveQueueKeeps
<1>3. /\ current \in Threads
      /\ prio \in [Threads -> Priorities]
      /\ saved \in [Threads -> Nat]
      /\ quantum \in [Threads -> 0 .. Quantum]
      /\ pc \in [Threads -> PCs]
      /\ state \in [Threads -> States]
      /\ RunQueue(runq, state, prio)
      /\ Boot \in Threads /\ Dpc \in Threads
  BY DEF Lists, Sections, Threads
<1>4. \A t \in Threads : state[t] = "blocked" => bwq[t] \in Objects
  BY DEF Lists
<1>5. CASE reschedule /\ woken # <<>>
  <2> DEFINE s1 == [state EXCEPT ![current] = "ready"]
             r1 == InsertHead(runq, current)
             s2 == MadeReady(s1, woken)
             r2 == InsertAll(r1, woken)
  <2>1. /\ Resched(s2, r2, quantum, csc + 1)
        /\ pc' = [pc EXCEPT ![current] = "signal"]
    BY <1>5 DEF Wake
  <2>2. s1 \in [Threads -> States] /\ RunQueue(r1, s1, prio)
    BY <1>3, <1>5, InsertHeadKeeps DEF States
  <2>3. \A t \in Threads : s1[t] = IF t = current THEN "ready" ELSE state[t]
    BY <1>3
  <2>4. \A t \in Threads : On(t, woken) => s1[t] # "ready"
    BY <1>2, <1>5, <2>3
  <2> HIDE DEF s1, r1
  <2>5. /\ RunQueue(r2, s2, prio)
        /\ s2 \in [Threads -> States]
        /\ \A t \in Threads : s2[t] = IF On(t, woken) THEN "ready" ELSE s1[t]
    BY <1>2, <1>3, <2>2, <2>4, InsertAllKeeps
  <2> HIDE DEF s2, r2
  <2>6. \A t \in Threads : s2[t] = "blocked" <=> state[t] = "blocked" /\ ~ On(t, woken)
    BY <1>5, <2>3, <2>5
  <2>7. SwitchFrom(s2, r2)
    <3>1. s2[Boot] = "ready" /\ pc'[Boot] # "block"
      BY <1>2, <1>3, <1>5, <2>1, <2>3, <2>5 DEF Lists
    <3>2. stage' = "dpc" => s2[Dpc] = "suspended"
      BY <1>2, <1>3, <1>5, <2>3, <2>5 DEF Lists
    <3>3. \A t \in Threads : s2[t] = "blocked" => bwq'[t] \in Objects
      BY <1>2, <1>4, <2>6
    <3>4. pc' \in [Threads -> PCs]
      BY <1>3, <2>1 DEF PCs
    <3>5. WaitQueues(waitq', s2, bwq')
      BY <1>2, <2>5, <2>6
    <3>6. prio' \in [Threads -> Priorities] /\ RunQueue(r2, s2, prio')
      BY <1>1, <1>3, <2>5
    <3>7. QED
      BY <1>2, <2>5, <3>1, <3>2, <3>3, <3>4, <3>5, <3>6 DEF SwitchFrom
  <2>8. /\ Lists' /\ Outranks'
        /\ current' \in Threads
        /\ s2[current'] = "ready"
        /\ state' = [s2 EXCEPT ![current'] = "running"]
        /\ csc' = IF current' = current THEN csc + 1 ELSE saved[current']
        /\ saved' = IF current' = current THEN saved ELSE [saved EXCEPT ![current] = csc + 1]
    BY <1>3, <2>1, <2>7, SwitchKeeps
  <2>9. Sections'
    <3>1. csc + 1 \in Nat /\ "signal" \in PCs /\ ExitsOf("signal") <= csc + 1
      BY DEF Sections, ExitsOf, PCs
    <3>2. (Begun => Begun') /\ irq' = "none" /\ current # Boot
      BY <1>5 DEF Begun
    <3>3. QED
      BY <1>3, <2>1, <2>8, <3>1, <3>2, SwitchSections
  <2>10. WakesOnly(woken)
    <3>1. \A t \in Threads : state'[t] = IF t = current' THEN "running" ELSE s2[t]
      BY <2>5, <2>8
    <3>2. QED BY <1>2, <1>5, <2>3, <2>5, <2>6, <2>8, <3>1 DEF WakesOnly
  <2>11. current' # current => state[current'] \in {"ready", "blocked"}
    BY <1>2, <2>3, <2>5, <2>8
  <2>12. QED BY <2>8, <2>9, <2>10, <2>11
<1>6. CASE ~ (reschedule /\ woken # <<>>)
  <2>1. /\ state' = MadeReady(state, woken)
        /\ runq' = InsertAll(runq, woken)
        /\ UNCHANGED <<csc, saved, ints, current, quantum, pc, prio>>
    BY <1>6 DEF Wake, Balanced
  <2>2. /\ RunQueue(runq', state', prio)
        /\ state' \in [Threads -> States]
        /\ \A t \in Threads : state'[t] = IF On(t, woken) THEN "ready" ELSE state[t]
    BY <1>2, <1>3, <2>1, InsertAllKeeps
  <2>3. \A t \in Threads : state'[t] = "blocked" <=> state[t] = "blocked" /\ ~ On(t, woken)
    BY <2>2
  <2>4. WaitQueues(waitq', state', bwq')
    BY <1>2, <2>2, <2>3
  <2>5. state'[current] = "running" \/ pc[current] = "block"
    BY <1>2, <1>3, <2>2 DEF Lists
  <2>6. /\ state'[Boot] = IF current = Boot THEN "running" ELSE "ready"
        /\ stage = "dpc" => state'[Dpc] = "suspended"
    BY <1>2, <1>3, <2>2 DEF Lists
  <2>7. \A t \in Threads : state'[t] = "blocked" => bwq'[t] \in Objects
    BY <1>2, <1>4, <2>3
  <2>8. Lists'
    BY <1>2, <2>1, <2>2, <2>4, <2>5, <2>6, <2>7 DEF Lists
  <2>9. Sections'
    <3>1. ASSUME NEW t \in Threads PROVE Held(t)' <= Depth(t)'
      <4>1. Held(t)' <= Held(t) /\ Depth(t)' = Depth(t)
        BY <2>1 DEF Held, Depth, Begun, ExitsOf
      <4>2. Held(t)' \in Int /\ Held(t) \in Int /\ Depth(t) \in Int
        BY <1>3 DEF Held, Depth, ExitsOf, Sections
      <4>3. Held(t) <= Depth(t)
        BY DEF Sections
      <4>4. QED BY <4>1, <4>2, <4>3
    <3>2. QED BY <2>1, <3>1 DEF Sections, Begun
  <2>10. WakesOnly(woken)
    BY <1>2, <2>2, <2>3 DEF WakesOnly
  <2>11. QED BY <2>1, <2>8, <2>9, <2>10
<1>7. QED BY <1>5, <1>6

\* Joining a wait queue as a step of the current thread.
LEMMA EnqueueStep ==
    ASSUME Lists, Sections,
           NEW w \in Objects,
           state[current] = "running", current # Boot, pc[current] = "user",
           irq = "none", irq' = "none", UNCHANGED stage,
           Enqueue(w)
    PROVE  /\ Lists' /\ Sections'
           /\ \A t \in Threads : state'[t] = IF t = current THEN "blocked" ELSE state[t]
<1>1. /\ waitq' = [waitq EXCEPT ![w] = Append(@, current)]
      /\ count' = [count EXCEPT ![w] = @ + 1]
      /\ state' = [state EXCEPT ![current] = "blocked"]
      /\ bwq' = [bwq EXCEPT ![current] = w]
      /\ ret' = [ret EXCEPT ![current] = "ok"]
      /\ pc' = [pc EXCEPT ![current] = "block"]
      /\ csc' = csc + 1
      /\ UNCHANGED <<prio, runq, current, saved, quantum>>
  BY DEF Enqueue
<1>2. /\ current \in Threads
      /\ prio \in [Threads -> Priorities]
      /\ saved \in [Threads -> Nat]
      /\ csc \in Nat
      /\ pc \in [Threads -> PCs]
      /\ state \in [Threads -> States]
      /\ bwq \in [Threads -> Objects \cup {None}]
      /\ ret \in [Threads -> Results]
      /\ RunQueue(runq, state, prio)
      /\ WaitQueues(waitq, state, bwq)
      /\ waitq \in [Objects -> Seq(Threads)]
      /\ count \in [Objects -> Nat]
      /\ \A v \in Objects : count[v] = Len(waitq[v])
      /\ Boot \in Threads /\ Dpc \in Threads
  BY DEF Lists, Sections, Threads, WaitQueues
<1>3. WaitQueues(waitq', state', bwq')
  BY <1>1, <1>2, EnqueueKeeps
<1>4. \A t \in Threads : state'[t] = IF t = current THEN "blocked" ELSE state[t]
  BY <1>1, <1>2
<1>5. /\ state' \in [Threads -> States]
      /\ bwq' \in [Threads -> Objects \cup {None}]
      /\ ret' \in [Threads -> Results]
      /\ pc' \in [Threads -> PCs]
      /\ pc'[current] = "block" /\ pc'[Boot] # "block"
  BY <1>1, <1>2 DEF States, Results, PCs, Lists
<1>6. RunQueue(runq', state', prio')
  <2>1. \A t \in Threads : state'[t] = "ready" <=> state[t] = "ready"
    BY <1>4
  <2>2. QED BY <1>1, <1>2, <2>1 DEF RunQueue
<1>7. /\ count' \in [Objects -> Nat]
      /\ \A v \in Objects : count'[v] = Len(waitq'[v])
  <2>1. Len(Append(waitq[w], current)) = Len(waitq[w]) + 1
    BY <1>2
  <2>2. QED BY <1>1, <1>2, <2>1
<1>8. \A t \in Threads : state'[t] = "blocked" => bwq'[t] \in Objects
  BY <1>1, <1>2, <1>4 DEF Lists
<1>9. Lists'
  BY <1>1, <1>3, <1>4, <1>5, <1>6, <1>7, <1>8 DEF Lists, Threads
<1>10. Sections'
  <2>1. ASSUME NEW t \in Threads PROVE Held(t)' <= Depth(t)'
    <3>1. Held(t) <= Depth(t)
      BY DEF Sections
    <3>2. CASE t = current
      BY <1>1, <1>2, <3>1, <3>2 DEF Held, Depth, Begun
    <3>3. CASE t # current
      BY <1>1, <1>2, <3>1, <3>3 DEF Held, Depth, Begun, ExitsOf
    <3>4. QED BY <3>2, <3>3
  <2>2. QED BY <1>1, <1>2, <2>1 DEF Sections
<1>11. QED BY <1>4, <1>9, <1>10

\* A time-out that finds its thread blocked.
LEMMA UnblockStep ==
    ASSUME Lists, Sections,
           NEW t \in Threads, state[t] = "blocked", NEW result \in Results,
           UNCHANGED <<irq, stage>>,
           Unblock(t, result)
    PROVE  /\ Lists' /\ Sections'
           /\ \A u \in Threads : state'[u] = IF u = t THEN "ready" ELSE state[u]
<1> DEFINE w == bwq[t]
<1>1. /\ waitq' = [waitq EXCEPT ![bwq[t]] = RemoveFirst(@, t)]
      /\ count' = [count EXCEPT ![bwq[t]] = @ - 1]
      /\ bwq' = [bwq EXCEPT ![t] = None]
      /\ state' = [state EXCEPT ![t] = "ready"]
      /\ ret' = [ret EXCEPT ![t] = result]
      /\ runq' = InsertHead(runq, t)
      /\ UNCHANGED <<csc, saved, ints, current, quantum, prio, pc>>
  BY DEF Unblock, Balanced
<1>2. /\ current \in Threads
      /\ prio \in [Threads -> Priorities]
      /\ state \in [Threads -> States]
      /\ bwq \in [Threads -> Objects \cup {None}]
      /\ ret \in [Threads -> Results]
      /\ RunQueue(runq, state, prio)
      /\ WaitQueues(waitq, state, bwq)
      /\ waitq \in [Objects -> Seq(Threads)]
      /\ count \in [Objects -> Nat]
      /\ \A v \in Objects : count[v] = Len(waitq[v])
      /\ bwq[t] \in Objects
      /\ Boot \in Threads /\ Dpc \in Threads
  BY DEF Lists, Threads, WaitQueues
<1>3. /\ WaitQueues(waitq', state', bwq')
      /\ Len(RemoveFirst(waitq[w], t)) = Len(waitq[w]) - 1
      /\ Len(waitq[w]) \in Nat \ {0}
  BY <1>1, <1>2, UnblockKeeps
<1>4. \A u \in Threads : state'[u] = IF u = t THEN "ready" ELSE state[u]
  BY <1>1, <1>2
<1>5. /\ state' \in [Threads -> States]
      /\ bwq' \in [Threads -> Objects \cup {None}]
      /\ ret' \in [Threads -> Results]
  BY <1>1, <1>2 DEF States
<1>6. RunQueue(runq', state', prio)
  BY <1>1, <1>2, InsertHeadKeeps
<1>7. /\ count' \in [Objects -> Nat]
      /\ \A v \in Objects : count'[v] = Len(waitq'[v])
  BY <1>1, <1>2, <1>3
<1>8. /\ state'[Boot] = IF current = Boot THEN "running" ELSE "ready"
      /\ stage = "dpc" => state'[Dpc] = "suspended"
      /\ state'[current] = "running" \/ pc[current] = "block"
  BY <1>2, <1>4 DEF Lists
<1>9. \A u \in Threads : state'[u] = "blocked" => bwq'[u] \in Objects
  BY <1>1, <1>2, <1>4 DEF Lists
<1>10. Lists'
  BY <1>1, <1>3, <1>5, <1>6, <1>7, <1>8, <1>9 DEF Lists
<1>11. Sections'
  BY <1>1 DEF Sections, Held, Depth, Begun
<1>12. QED BY <1>4, <1>10, <1>11

---------------------------------------------------------------------------
(* The services *)

\* What each step is shown to keep.
Kept ==
    /\ Lists' /\ Sections'
    /\ current' # current => Outranks' /\ state[current'] \in {"ready", "blocked", "suspended"}

\* Who makes a call runs.
LEMMA UserCode ==
    ASSUME QueueInv, InUserCode
    PROVE  /\ irq = "none" /\ pc[current] = "user"
           /\ state[current] = "running"
           /\ current \in Threads
           /\ (current \in Apps \/ current = Dpc => current # Boot)
BY ThreadsAssumption DEF QueueInv, Lists, InUserCode, Threads

\* A step that leaves the scheduler's variables alone.
LEMMA SchedSame ==
    ASSUME QueueInv, UNCHANGED <<schedVars, irq, stage>>
    PROVE  Kept
BY DEF QueueInv, Kept, schedVars, queueVars, Lists, Sections, Held, Depth, Begun

\* An ASSERT that fails stops the machine with its lists as they are.
LEMMA PanicKeeps ==
    ASSUME QueueInv, Panic, UNCHANGED stage, irq' # "none" => irq # "none"
    PROVE  Kept
<1>1. UNCHANGED <<state, prio, runq, current, csc, saved, ints, quantum, waitq, count, bwq, ret, pc>>
  BY DEF Panic, queueVars
<1>2. Lists'
  BY <1>1 DEF QueueInv, Lists
<1>3. Sections'
  <2>1. ASSUME NEW t \in Threads PROVE Held(t)' <= Depth(t)'
    <3>1. Held(t)' <= Held(t) /\ Depth(t)' = Depth(t)
      BY <1>1 DEF Held, Depth, Begun, ExitsOf
    <3>2. Held(t)' \in Int /\ Held(t) \in Int /\ Depth(t) \in Int
      BY DEF Held, Depth, ExitsOf, Sections, QueueInv
    <3>3. Held(t) <= Depth(t)
      BY DEF Sections, QueueInv
    <3>4. QED BY <3>1, <3>2, <3>3
  <2>2. QED BY <1>1, <2>1 DEF Sections, Begun, QueueInv
<1>4. QED BY <1>1, <1>2, <1>3 DEF Kept

\* The thread calls.
LEMMA ThreadYieldKeeps == ASSUME QueueInv, ThreadYield PROVE Kept
<1>1. /\ InUserCode /\ current \in Apps
      /\ YieldAt(state, runq, csc, "yield")
      /\ UNCHANGED <<irq, stage>>
  BY DEF ThreadYield, AppCalls
<1>2. /\ irq' = "none" /\ state[current] = "running" /\ current # Boot
  BY <1>1, UserCode
<1>3. /\ Lists /\ Sections /\ state \in [Threads -> States] /\ csc \in Nat
      /\ RunQueue(runq, state, prio)
      /\ state[Boot] = IF current = Boot THEN "running" ELSE "ready"
      /\ stage' = "dpc" => state[Dpc] = "suspended"
      /\ Begun => Begun'
      /\ ExitsOf("yield") <= csc + 1
  BY <1>1 DEF QueueInv, Lists, Sections, Begun, ExitsOf
<1>4. QED
  BY <1>1, <1>2, <1>3, YieldAtKeeps DEF Kept

LEMMA ResumeThreadKeeps ==
    ASSUME QueueInv, InUserCode, current # Dpc,
           NEW t \in Threads, state[t] = "suspended", t # Boot,
           ResumeThread(t), stage' = "dpc" => stage = "dpc" /\ t # Dpc,
           Begun <=> Begun'
    PROVE  Kept
<1> DEFINE st == [state EXCEPT ![t] = "ready"]
           rq == InsertHead(runq, t)
<1>1. /\ YieldAt(st, rq, csc + 1, "resume")
      /\ UNCHANGED irq
  BY DEF ResumeThread
<1>2. /\ irq = "none" /\ irq' = "none" /\ state[current] = "running" /\ current \in Threads
  BY <1>1, UserCode
<1>3. /\ Lists /\ Sections /\ state \in [Threads -> States] /\ csc + 1 \in Nat
      /\ RunQueue(runq, state, prio)
      /\ prio \in [Threads -> Priorities]
      /\ state[Boot] = IF current = Boot THEN "running" ELSE "ready"
      /\ stage' = "dpc" => state[Dpc] = "suspended"
  BY DEF QueueInv, Lists, Sections
<1>4. st \in [Threads -> States] /\ RunQueue(rq, st, prio)
  BY <1>3, InsertHeadKeeps DEF States
<1>5. \A u \in Threads : st[u] = IF u = t THEN "ready" ELSE state[u]
  BY <1>3
<1>6. /\ st[current] = "running"
      /\ st[Boot] = IF current = Boot THEN "running" ELSE "ready"
      /\ \A u \in Threads : st[u] = "blocked" <=> state[u] = "blocked"
      /\ stage' = "dpc" => st[Dpc] = "suspended"
  BY <1>2, <1>3, <1>5 DEF Threads
<1>7. /\ ExitsOf("resume") <= csc + 1 + 1
      /\ current = Boot /\ ~ Begun' => ExitsOf("resume") < csc + 1 + 1
  <2>1. csc \in Nat /\ Held(current) <= csc
    BY <1>2 DEF QueueInv, Sections, Depth
  <2>2. current = Boot /\ ~ Begun => 1 <= Held(current) /\ Held(current) \in Int
    BY DEF Held, ExitsOf
  <2>3. QED BY <2>1, <2>2 DEF ExitsOf
<1> HIDE DEF st, rq
<1>8. Lists' /\ Sections' /\ Outranks' /\ (st[current'] = "ready" \/ current' = current)
  BY <1>1, <1>2, <1>3, <1>4, <1>6, <1>7, YieldAtKeeps
<1>9. current' \in Threads
  BY <1>8 DEF Lists
<1>10. QED
  BY <1>5, <1>8, <1>9 DEF Kept

LEMMA ThreadSleepKeeps == ASSUME QueueInv, ThreadSleep PROVE Kept /\ current' # current
<1> DEFINE st == [state EXCEPT ![current] = "sleeping"]
<1>1. /\ InUserCode /\ current \in Apps
      /\ Resched(st, runq, quantum, csc + 1)
      /\ pc' = [pc EXCEPT ![current] = "sleep"]
      /\ UNCHANGED <<prio, waitq, count, bwq, ret, irq, stage>>
  BY DEF ThreadSleep, AppCalls, queueVars
<1>2. /\ irq' = "none" /\ state[current] = "running" /\ current # Boot /\ current \in Threads
  BY <1>1, UserCode
<1>3. /\ Lists /\ Sections /\ state \in [Threads -> States] /\ csc \in Nat
      /\ saved \in [Threads -> Nat]
      /\ pc \in [Threads -> PCs]
      /\ quantum \in [Threads -> 0 .. Quantum]
      /\ RunQueue(runq, state, prio)
      /\ WaitQueues(waitq, state, bwq)
  BY DEF QueueInv, Lists, Sections
<1>4. /\ \A u \in Threads : st[u] = IF u = current THEN "sleeping" ELSE state[u]
      /\ st \in [Threads -> States]
  BY <1>3 DEF States
<1> HIDE DEF st
<1>5. SwitchFrom(st, runq)
  <2>1. RunQueue(runq, st, prio')
    BY <1>1, <1>2, <1>3, <1>4 DEF RunQueue
  <2>2. WaitQueues(waitq', st, bwq')
    <3>1. \A u \in Threads : st[u] = "blocked" <=> state[u] = "blocked"
      BY <1>2, <1>4
    <3>2. QED BY <1>1, <1>3, <3>1, SameBlocked
  <2>3. QED
    BY <1>1, <1>2, <1>3, <1>4, <2>1, <2>2 DEF SwitchFrom, Lists, Threads, PCs
<1>6. /\ Lists' /\ Outranks'
      /\ current' \in Threads /\ st[current'] = "ready"
      /\ csc' = IF current' = current THEN csc + 1 ELSE saved[current']
      /\ saved' = IF current' = current THEN saved ELSE [saved EXCEPT ![current] = csc + 1]
  BY <1>1, <1>3, <1>5, SwitchKeeps
<1>7. Sections'
  <2>1. csc + 1 \in Nat /\ "sleep" \in PCs /\ ExitsOf("sleep") <= csc + 1 /\ (Begun => Begun')
    BY <1>1, <1>3 DEF ExitsOf, PCs, Begun
  <2>2. QED
    BY <1>1, <1>2, <1>3, <1>6, <2>1, SwitchSections
<1>8. QED BY <1>2, <1>4, <1>6, <1>7 DEF Kept

LEMMA ThreadBlockKeeps == ASSUME QueueInv, ThreadBlock PROVE Kept /\ current' # current
<1> DEFINE op == call[current].op
<1>1. /\ pc[current] = "block" /\ irq = "none" /\ state[current] = "blocked"
      /\ Resched(state, runq, quantum, csc + 1)
      /\ pc' = [pc EXCEPT ![current] = op]
      /\ UNCHANGED <<prio, waitq, count, bwq, ret, irq, stage>>
  BY DEF ThreadBlock, queueVars
<1>2. /\ Lists /\ Sections /\ state \in [Threads -> States] /\ csc \in Nat
      /\ current \in Threads
      /\ saved \in [Threads -> Nat]
      /\ pc \in [Threads -> PCs]
      /\ quantum \in [Threads -> 0 .. Quantum]
      /\ state[Boot] = IF current = Boot THEN "running" ELSE "ready"
  BY DEF QueueInv, Lists, Sections
<1>3. op \in WaitOps
  BY <1>1, <1>2 DEF QueueInv, Rest
<1> HIDE DEF op
<1>4. op \in PCs /\ op # "block" /\ op # "user" /\ ExitsOf(op) = 2
  BY <1>3 DEF WaitOps, PCs, ExitsOf
<1>5. current # Boot
  BY <1>1, <1>2
<1>6. SwitchFrom(state, runq)
  BY <1>1, <1>2, <1>4, <1>5 DEF SwitchFrom, Lists, Threads
<1>7. /\ Lists' /\ Outranks'
      /\ current' \in Threads /\ state[current'] = "ready"
      /\ csc' = IF current' = current THEN csc + 1 ELSE saved[current']
      /\ saved' = IF current' = current THEN saved ELSE [saved EXCEPT ![current] = csc + 1]
  BY <1>1, <1>2, <1>6, SwitchKeeps
<1>8. Sections'
  <2>1. 1 <= csc
    <3>1. Held(current) <= csc
      BY <1>2 DEF Sections, Depth
    <3>2. 1 <= Held(current) /\ Held(current) \in Int
      BY <1>1 DEF Held, ExitsOf
    <3>3. QED BY <1>2, <3>1, <3>2
  <2>2. csc + 1 \in Nat /\ ExitsOf(op) <= csc + 1 /\ (Begun => Begun')
    BY <1>1, <1>2, <1>4, <2>1 DEF Begun
  <2>3. QED
    BY <1>1, <1>2, <1>4, <1>5, <1>7, <2>2, SwitchSections
<1>9. QED BY <1>1, <1>7, <1>8 DEF Kept

LEMMA ThreadExitKeeps ==
    ASSUME QueueInv, ThreadExit
    PROVE  /\ Kept /\ current' # current
           /\ \A t \in Threads : state[t] = "blocked" /\ bwq'[t] # None => state'[t] = "blocked"
<1> DEFINE woken == IF signalled[DpcEvent] THEN <<>> ELSE waitq[DpcEvent]
           s1 == [state EXCEPT ![current] = "death"]
           s2 == MadeReady(s1, woken)
           r2 == InsertAll(runq, woken)
<1>1. /\ InUserCode /\ current \in Apps
      /\ LeaveQueue(DpcEvent, woken, "ok")
      /\ Resched(s2, r2, quantum, csc + 1)
      /\ UNCHANGED <<prio, pc, irq, stage>>
  BY DEF ThreadExit, AppCalls
<1>2. /\ irq' = "none" /\ irq = "none" /\ pc[current] = "user"
      /\ state[current] = "running" /\ current # Boot /\ current \in Threads
      /\ current # Dpc
  BY <1>1, UserCode, ThreadsAssumption
<1>3. /\ Lists /\ Sections /\ state \in [Threads -> States] /\ csc \in Nat
      /\ saved \in [Threads -> Nat]
      /\ pc \in [Threads -> PCs]
      /\ prio \in [Threads -> Priorities]
      /\ quantum \in [Threads -> 0 .. Quantum]
      /\ RunQueue(runq, state, prio)
      /\ WaitQueues(waitq, state, bwq)
      /\ waitq \in [Objects -> Seq(Threads)]
      /\ DpcEvent \in Objects /\ "ok" \in Results
      /\ Boot \in Threads /\ Dpc \in Threads
  BY ThreadsAssumption DEF QueueInv, Lists, Sections, Objects, Results, Threads, WaitQueues
<1>4. Prefix(woken, waitq[DpcEvent])
  <2>1. woken \in {<<>>, FirstOf(DpcEvent), waitq[DpcEvent]}
    OBVIOUS
  <2>2. QED BY <1>3, <2>1, PrefixesWoken
<1> HIDE DEF woken
<1>5. /\ woken \in Seq(Threads)
      /\ Distinct(woken)
      /\ \A t \in Threads : On(t, woken) => state[t] = "blocked" /\ bwq[t] = DpcEvent
      /\ \A st \in [Threads -> States] :
            (\A t \in Threads : st[t] = "blocked" <=> state[t] = "blocked" /\ ~ On(t, woken))
                => WaitQueues(waitq', st, bwq')
      /\ bwq' \in [Threads -> Objects \cup {None}]
      /\ \A t \in Threads : bwq'[t] = IF On(t, woken) THEN None ELSE bwq[t]
      /\ ret' \in [Threads -> Results]
      /\ count' \in [Objects -> Nat]
      /\ \A v \in Objects : count'[v] = Len(waitq'[v])
  BY <1>1, <1>3, <1>4, LeaveQueueKeeps
<1>6. /\ \A u \in Threads : s1[u] = IF u = current THEN "death" ELSE state[u]
      /\ s1 \in [Threads -> States]
  BY <1>3 DEF States
<1> HIDE DEF s1
<1>7. RunQueue(runq, s1, prio)
  BY <1>2, <1>3, <1>6 DEF RunQueue
<1>8. \A t \in Threads : On(t, woken) => s1[t] # "ready"
  BY <1>2, <1>5, <1>6
<1>9. /\ RunQueue(r2, s2, prio)
      /\ s2 \in [Threads -> States]
      /\ \A t \in Threads : s2[t] = IF On(t, woken) THEN "ready" ELSE s1[t]
  BY <1>3, <1>5, <1>6, <1>7, <1>8, InsertAllKeeps
<1> HIDE DEF s2, r2
<1>10. \A t \in Threads : s2[t] = "blocked" <=> state[t] = "blocked" /\ ~ On(t, woken)
  BY <1>2, <1>6, <1>9
<1>11. SwitchFrom(s2, r2)
  <2>1. s2[Boot] = "ready" /\ pc'[Boot] # "block"
    BY <1>1, <1>2, <1>3, <1>5, <1>6, <1>9 DEF Lists
  <2>2. stage' = "dpc" => s2[Dpc] = "suspended"
    BY <1>1, <1>2, <1>3, <1>5, <1>6, <1>9 DEF Lists
  <2>3. \A t \in Threads : s2[t] = "blocked" => bwq'[t] \in Objects
    BY <1>3, <1>5, <1>10 DEF Lists
  <2>4. WaitQueues(waitq', s2, bwq')
    BY <1>5, <1>9, <1>10
  <2>5. QED
    BY <1>1, <1>3, <1>5, <1>9, <2>1, <2>2, <2>3, <2>4 DEF SwitchFrom
<1>12. /\ Lists' /\ Outranks'
       /\ current' \in Threads /\ s2[current'] = "ready"
       /\ state' = [s2 EXCEPT ![current'] = "running"]
       /\ csc' = IF current' = current THEN csc + 1 ELSE saved[current']
       /\ saved' = IF current' = current THEN saved ELSE [saved EXCEPT ![current] = csc + 1]
  BY <1>1, <1>3, <1>11, SwitchKeeps
<1>13. Sections'
  <2>1. csc + 1 \in Nat /\ "user" \in PCs /\ (Begun => Begun') /\ pc' = [pc EXCEPT ![current] = "user"]
    BY <1>1, <1>2, <1>3 DEF PCs, Begun
  <2>2. QED
    BY <1>1, <1>2, <1>3, <1>12, <2>1, SwitchSections
<1>14. current' # current /\ state[current'] \in {"ready", "blocked"}
  BY <1>2, <1>5, <1>6, <1>9, <1>12
<1>15. \A t \in Threads : state[t] = "blocked" /\ bwq'[t] # None => state'[t] = "blocked"
  BY <1>5, <1>9, <1>10, <1>12
<1>16. QED BY <1>12, <1>13, <1>14, <1>15 DEF Kept

\* The calls that wait and the calls that wake.
LEMMA BlockOnKeeps ==
    ASSUME QueueInv, InUserCode, current # Boot, NEW w \in Objects, NEW op, NEW finite,
           BlockOn(w, op, finite), UNCHANGED <<irq, stage>>
    PROVE  /\ Kept
           /\ current' = current
           /\ \A t \in Threads : state'[t] = IF t = current THEN "blocked" ELSE state[t]
<1>1. Enqueue(w) /\ current' = current
  BY DEF BlockOn, Enqueue
<1>2. /\ irq' = "none" /\ irq = "none" /\ state[current] = "running" /\ pc[current] = "user"
      /\ Lists /\ Sections
  BY UserCode DEF QueueInv
<1>3. QED
  BY <1>1, <1>2, EnqueueStep DEF Kept

LEMMA SignalEventKeeps ==
    ASSUME QueueInv, NEW e \in Events, NEW reschedule \in BOOLEAN,
           reschedule => state[current] = "running" /\ current # Boot /\ irq' = "none",
           irq' # "none" => irq # "none", UNCHANGED stage,
           SignalEvent(e, reschedule)
    PROVE  /\ Kept
           /\ \/ UNCHANGED <<schedVars, signalled>>
              \/ \E woken \in {<<>>, FirstOf(e), waitq[e]} :
                    /\ Prefix(woken, waitq[e])
                    /\ Wake(e, woken, reschedule, "ok")
                    /\ WakesOnly(woken)
<1>1. /\ Lists /\ Sections /\ e \in Objects /\ "ok" \in Results
      /\ waitq \in [Objects -> Seq(Threads)]
  BY DEF QueueInv, Objects, Results, Lists, WaitQueues
<1>2. CASE UNCHANGED <<schedVars, signalled>>
  <2>1. UNCHANGED <<state, prio, runq, current, csc, saved, ints, quantum, waitq, count, bwq, ret, pc>>
    BY <1>2 DEF schedVars, queueVars
  <2>2. Lists'
    BY <1>1, <2>1 DEF Lists
  <2>3. Sections'
    <3>1. ASSUME NEW t \in Threads PROVE Held(t)' <= Depth(t)'
      <4>1. Held(t)' <= Held(t) /\ Depth(t)' = Depth(t)
        BY <2>1 DEF Held, Depth, Begun, ExitsOf
      <4>2. Held(t)' \in Int /\ Held(t) \in Int /\ Depth(t) \in Int
        BY <1>1 DEF Held, Depth, ExitsOf, Sections
      <4>3. Held(t) <= Depth(t)
        BY <1>1 DEF Sections
      <4>4. QED BY <4>1, <4>2, <4>3
    <3>2. QED BY <1>1, <2>1, <3>1 DEF Sections, Begun
  <2>4. QED BY <1>2, <2>1, <2>2, <2>3 DEF Kept
<1>3. ASSUME NEW woken \in {<<>>, FirstOf(e), waitq[e]},
             Wake(e, woken, reschedule, "ok")
      PROVE  Kept /\ Prefix(woken, waitq[e]) /\ WakesOnly(woken)
  <2>1. Prefix(woken, waitq[e])
    BY <1>1, PrefixesWoken
  <2>2. QED BY <1>1, <1>3, <2>1, WakeKeeps DEF Kept
<1>4. QED
  BY <1>2, <1>3 DEF SignalEvent

LEMMA WakeWithin ==
    ASSUME QueueInv, InUserCode, current \in Apps, UNCHANGED <<irq, stage>>,
           NEW w \in Objects, NEW woken \in {<<>>, FirstOf(w), waitq[w]},
           NEW result \in Results, Wake(w, woken, TRUE, result)
    PROVE  Kept /\ Prefix(woken, waitq[w]) /\ WakesOnly(woken)
<1>1. /\ Lists /\ Sections /\ waitq \in [Objects -> Seq(Threads)]
      /\ irq' = "none" /\ state[current] = "running" /\ current # Boot
  BY UserCode DEF QueueInv, Lists, WaitQueues
<1>2. Prefix(woken, waitq[w])
  BY <1>1, PrefixesWoken
<1>3. QED
  BY <1>1, <1>2, WakeKeeps DEF Kept

\* Creation, the way out of a call, and the dpc thread.
LEMMA ThreadCreateKeeps ==
    ASSUME QueueInv, NEW t \in Apps, ThreadCreate(t) PROVE Kept
<1>1. /\ InUserCode
      /\ state[t] = "free"
      /\ state' = [state EXCEPT ![t] = "suspended"]
      /\ prio' = [prio EXCEPT ![t] = AppPriority[t]]
      /\ saved' = [saved EXCEPT ![t] = 1]
      /\ quantum' = [quantum EXCEPT ![t] = 0]
      /\ bwq' = [bwq EXCEPT ![t] = None]
      /\ ret' = [ret EXCEPT ![t] = "ok"]
      /\ pc' = [pc EXCEPT ![t] = "new"]
      /\ UNCHANGED <<runq, current, csc, ints, waitq, count, irq, stage>>
  BY DEF ThreadCreate, AppCalls
<1>2. /\ Lists /\ Sections /\ state \in [Threads -> States]
      /\ t \in Threads /\ t # Boot /\ t # Dpc /\ t # current
      /\ state[current] = "running"
      /\ AppPriority[t] \in Priorities
      /\ RunQueue(runq, state, prio) /\ WaitQueues(waitq, state, bwq)
  BY <1>1, UserCode, ThreadsAssumption DEF QueueInv, Lists, Threads, Priorities
<1>3. \A u \in Threads : /\ state'[u] = IF u = t THEN "suspended" ELSE state[u]
                         /\ u # t => prio'[u] = prio[u] /\ bwq'[u] = bwq[u]
  BY <1>1, <1>2 DEF Lists
<1>4. RunQueue(runq', state', prio')
  BY <1>1, <1>2, <1>3 DEF RunQueue
<1>5. WaitQueues(waitq', state', bwq')
  BY <1>1, <1>2, <1>3 DEF WaitQueues
<1>6. /\ state' \in [Threads -> States]
      /\ prio' \in [Threads -> Priorities]
      /\ quantum' \in [Threads -> 0 .. Quantum]
      /\ bwq' \in [Threads -> Objects \cup {None}]
      /\ ret' \in [Threads -> Results]
      /\ pc' \in [Threads -> PCs]
  BY <1>1, <1>2 DEF Lists, States, Quantum, Results, PCs
<1>7. Lists'
  <2>1. /\ state'[current] = "running"
        /\ state'[Boot] = IF current = Boot THEN "running" ELSE "ready"
        /\ pc'[Boot] # "block"
        /\ stage = "dpc" => state'[Dpc] = "suspended"
    BY <1>1, <1>2, <1>3 DEF Lists, Threads
  <2>2. \A u \in Threads : state'[u] = "blocked" => bwq'[u] \in Objects
    BY <1>2, <1>3 DEF Lists
  <2>3. QED
    BY <1>1, <1>2, <1>4, <1>5, <1>6, <2>1, <2>2 DEF Lists
<1>8. Sections'
  <2>1. ASSUME NEW u \in Threads PROVE Held(u)' <= Depth(u)'
    <3>1. CASE u = t
      BY <1>1, <1>2, <3>1 DEF Held, Depth, Sections, ExitsOf, Lists
    <3>2. CASE u # t
      <4>1. pc'[u] = pc[u] /\ Depth(u)' = Depth(u)
        BY <1>1, <1>2, <3>2 DEF Depth, Sections, Lists
      <4>2. Held(u)' = Held(u)
        BY <1>1, <4>1 DEF Held, ExitsOf, Begun
      <4>3. QED BY <1>2, <4>1, <4>2 DEF Sections
    <3>3. QED BY <3>1, <3>2
  <2>2. saved' \in [Threads -> Nat]
    BY <1>1, <1>2 DEF Sections
  <2>3. QED BY <1>1, <1>2, <2>1, <2>2 DEF Sections, Begun
<1>9. QED BY <1>1, <1>7, <1>8 DEF Kept

LEMMA ResumeKeeps == ASSUME QueueInv, Resume PROVE Kept
<1> DEFINE at == pc[current]
<1>1. /\ at \notin {"user", "block"} /\ irq = "none"
      /\ csc' = csc - ExitsOf(at)
      /\ pc' = [pc EXCEPT ![current] = "user"]
      /\ UNCHANGED <<state, prio, runq, current, saved, quantum, waitq, count, bwq, ret, irq, stage>>
  BY DEF Resume, queueVars
<1>2. /\ Lists /\ Sections /\ current \in Threads
      /\ pc \in [Threads -> PCs] /\ csc \in Nat /\ saved \in [Threads -> Nat]
  BY DEF QueueInv, Lists, Sections
<1>3. Lists'
  <2>1. pc' \in [Threads -> PCs] /\ pc'[Boot] # "block" /\ state[current] = "running"
    BY <1>1, <1>2 DEF PCs, Lists
  <2>2. QED BY <1>1, <1>2, <2>1 DEF Lists
<1>4. Held(current) <= csc
  BY <1>2 DEF Sections, Depth
<1>5. /\ Held(current) = ExitsOf(at) + (IF current = Boot /\ ~ Begun THEN 1 ELSE 0)
      /\ Held(current)' = (IF current = Boot /\ ~ Begun THEN 1 ELSE 0)
  BY <1>1, <1>2 DEF Held, ExitsOf, Begun
<1>6. csc' \in Nat /\ Held(current)' <= csc'
  BY <1>1, <1>2, <1>4, <1>5 DEF ExitsOf
<1>7. Sections'
  <2>1. ASSUME NEW u \in Threads, u # current PROVE Held(u)' <= Depth(u)'
    <3>1. pc'[u] = pc[u] /\ Depth(u)' = Depth(u)
      BY <1>1, <1>2, <2>1 DEF Depth
    <3>2. Held(u)' = Held(u)
      BY <1>1, <2>1, <3>1 DEF Held, ExitsOf, Begun
    <3>3. QED BY <1>2, <3>1, <3>2 DEF Sections
  <2>2. Held(current)' <= Depth(current)'
    BY <1>1, <1>6 DEF Depth
  <2>3. QED BY <1>1, <1>2, <1>6, <2>1, <2>2 DEF Sections, Begun
<1>8. QED BY <1>1, <1>3, <1>7 DEF Kept

LEMMA DpcCleanupKeeps == ASSUME QueueInv, DpcCleanup PROVE Kept
<1>1. UNCHANGED <<irq, stage>> /\ InUserCode
  BY DEF DpcCleanup
<1>2. CASE Panic
  BY <1>1, <1>2, PanicKeeps
<1>3. CASE /\ state[dpcJob] = "death"
           /\ state' = [state EXCEPT ![dpcJob] = "free"]
           /\ UNCHANGED <<prio, runq, current, csc, saved, ints, quantum, queueVars, pc, panicked>>
  <2>1. UNCHANGED <<prio, runq, current, csc, saved, quantum, waitq, count, bwq, ret, pc>>
    BY <1>3 DEF queueVars
  <2>2. /\ Lists /\ Sections /\ state \in [Threads -> States]
        /\ RunQueue(runq, state, prio) /\ WaitQueues(waitq, state, bwq)
    BY DEF QueueInv, Lists
  <2>3. \A u \in Threads : state'[u] = IF u = dpcJob THEN "free" ELSE state[u]
    BY <1>3, <2>2
  <2>4. state' \in [Threads -> States]
    BY <1>3, <2>2 DEF States
  <2>5. RunQueue(runq', state', prio')
    BY <1>3, <2>1, <2>2, <2>3 DEF RunQueue
  <2>6. WaitQueues(waitq', state', bwq')
    BY <1>3, <2>1, <2>2, <2>3 DEF WaitQueues
  <2>7. Lists'
    BY <1>1, <1>3, <2>1, <2>2, <2>3, <2>4, <2>5, <2>6 DEF Lists, Threads
  <2>8. Sections'
    BY <1>1, <2>1, <2>2 DEF Sections, Held, Depth, Begun
  <2>9. QED BY <2>1, <2>7, <2>8 DEF Kept
<1>4. QED BY <1>2, <1>3 DEF DpcCleanup

\* kmain.
LEMMA KmainDpcInitKeeps == ASSUME QueueInv, KmainDpcInit PROVE Kept
<1>1. /\ InUserCode /\ current = Boot /\ stage = "dpc" /\ stage' = "timer"
      /\ ResumeThread(Dpc)
  BY DEF KmainDpcInit
<1>2. /\ current # Dpc /\ Dpc # Boot /\ Dpc \in Threads /\ state[Dpc] = "suspended"
      /\ Begun <=> Begun'
  BY <1>1, ThreadsAssumption DEF QueueInv, Lists, Threads, Begun
<1>3. QED
  BY <1>1, <1>2, ResumeThreadKeeps

LEMMA KmainResumeKeeps ==
    ASSUME QueueInv, NEW t \in InitialApps, KmainResume(t) PROVE Kept
<1>1. /\ InUserCode /\ current = Boot /\ stage = "apps" /\ stage' \in {"apps", "enable"}
      /\ state[t] = "suspended"
      /\ ResumeThread(t)
  BY DEF KmainResume
<1>2. /\ current # Dpc /\ t # Boot /\ t \in Threads
      /\ Begun <=> Begun'
  BY <1>1, ThreadsAssumption, KernelAssumption DEF Threads, Begun
<1>3. QED
  BY <1>1, <1>2, ResumeThreadKeeps

LEMMA ThreadResumeKeeps ==
    ASSUME QueueInv, NEW t \in Apps, ThreadResume(t) PROVE Kept
<1>1. /\ InUserCode /\ current \in Apps
      /\ state[t] = "suspended"
      /\ UNCHANGED stage
      /\ ResumeThread(t)
  BY DEF ThreadResume, AppCalls
<1>2. /\ current # Dpc /\ t # Boot /\ t # Dpc /\ t \in Threads
      /\ Begun <=> Begun'
  BY <1>1, ThreadsAssumption DEF Threads, Begun
<1>3. QED
  BY <1>1, <1>2, ResumeThreadKeeps

LEMMA KmainEnableKeeps == ASSUME QueueInv, KmainEnable PROVE Kept
<1>1. /\ InUserCode /\ current = Boot /\ stage = "enable" /\ stage' = "idle"
      /\ csc' = csc - 1
      /\ UNCHANGED <<state, prio, runq, current, saved, quantum, waitq, count, bwq, ret, pc, irq>>
  BY DEF KmainEnable, queueVars
<1>2. /\ Lists /\ Sections /\ csc \in Nat /\ Boot \in Threads
      /\ pc[Boot] = "user" /\ irq = "none"
  BY <1>1, UserCode DEF QueueInv, Sections, Threads
<1>3. Lists'
  BY <1>1, <1>2 DEF Lists
<1>4. Held(Boot) = 1 /\ Held(Boot)' = 0 /\ Held(Boot) <= csc
  BY <1>1, <1>2 DEF Held, Begun, Sections, Depth
<1>5. Sections'
  <2>1. ASSUME NEW u \in Threads, u # Boot PROVE Held(u)' <= Depth(u)'
    <3>1. Depth(u)' = Depth(u) /\ Held(u)' = Held(u)
      BY <1>1, <2>1 DEF Depth, Held, ExitsOf
    <3>2. QED BY <1>2, <3>1 DEF Sections
  <2>2. csc' \in Nat /\ Held(Boot)' <= Depth(Boot)'
    BY <1>1, <1>2, <1>4 DEF Depth
  <2>3. QED BY <1>1, <1>2, <2>1, <2>2 DEF Sections, Begun
<1>6. QED BY <1>1, <1>3, <1>5 DEF Kept

LEMMA KmainBecomeIdleKeeps == ASSUME QueueInv, KmainBecomeIdle PROVE Kept
<1> DEFINE st == [state EXCEPT ![Boot] = "ready"]
           rq == [queue  |-> [runq.queue EXCEPT ![IdlePriority] = Append(@, Boot)],
                  bitmap |-> runq.bitmap \cup {IdlePriority}]
           qt == [quantum EXCEPT ![Boot] = 0]
           pr == [prio EXCEPT ![Boot] = IdlePriority]
<1>1. /\ InUserCode /\ current = Boot /\ stage = "idle" /\ stage' = "done"
      /\ prio' = pr
      /\ Resched(st, rq, qt, csc + 1)
      /\ pc' = [pc EXCEPT ![Boot] = "yield"]
      /\ UNCHANGED <<waitq, count, bwq, ret, irq>>
  BY DEF KmainBecomeIdle, queueVars
<1>2. /\ Lists /\ Sections /\ csc \in Nat /\ Boot \in Threads /\ Dpc \in Threads
      /\ state[Boot] = "running" /\ irq' = "none"
      /\ state \in [Threads -> States] /\ prio \in [Threads -> Priorities]
      /\ saved \in [Threads -> Nat] /\ pc \in [Threads -> PCs]
      /\ RunQueue(runq, state, prio) /\ WaitQueues(waitq, state, bwq)
  BY <1>1, UserCode DEF QueueInv, Lists, Sections, Threads
<1>3. qt \in [Threads -> 0 .. Quantum] /\ IdlePriority \in Priorities
  <2>1. quantum \in [Threads -> 0 .. Quantum] /\ 0 \in 0 .. Quantum
    BY DEF QueueInv, Lists, Quantum
  <2>2. IdlePriority \in Priorities
    BY ThreadsAssumption DEF IdlePriority, Priorities
  <2>3. QED BY <2>1, <2>2
<1>4. pr \in [Threads -> Priorities] /\ pr[Boot] = IdlePriority
  BY <1>2, <1>3
<1>5. RunQueue(runq, state, pr)
  BY <1>2 DEF RunQueue
<1>6. RunQueue(rq, st, pr)
  <2> HIDE DEF pr
  <2>1. RunQueue([queue  |-> [runq.queue EXCEPT ![pr[Boot]] = Append(@, Boot)],
                  bitmap |-> runq.bitmap \cup {pr[Boot]}],
                 [state EXCEPT ![Boot] = "ready"], pr)
    BY <1>2, <1>4, <1>5, AppendKeeps
  <2>2. QED BY <1>4, <2>1
<1>7. /\ \A u \in Threads : st[u] = IF u = Boot THEN "ready" ELSE state[u]
      /\ st \in [Threads -> States]
  BY <1>2 DEF States
<1> HIDE DEF st, rq, qt, pr
<1>8. SwitchFrom(st, rq)
  <2>1. WaitQueues(waitq', st, bwq')
    <3>1. \A u \in Threads : st[u] = "blocked" <=> state[u] = "blocked"
      BY <1>2, <1>7
    <3>2. QED BY <1>1, <1>2, <3>1, SameBlocked
  <2>2. st[Boot] = "ready" /\ pc'[Boot] # "block" /\ pc' \in [Threads -> PCs]
    BY <1>1, <1>2, <1>7 DEF PCs
  <2>3. \A u \in Threads : st[u] = "blocked" => bwq'[u] \in Objects
    BY <1>1, <1>2, <1>7 DEF Lists
  <2>4. QED
    BY <1>1, <1>2, <1>4, <1>6, <1>7, <2>1, <2>2, <2>3 DEF SwitchFrom, Lists
<1>9. /\ Lists' /\ Outranks'
      /\ current' \in Threads /\ st[current'] = "ready"
      /\ csc' = IF current' = current THEN csc + 1 ELSE saved[current']
      /\ saved' = IF current' = current THEN saved ELSE [saved EXCEPT ![current] = csc + 1]
  BY <1>1, <1>2, <1>3, <1>8, SwitchKeeps
<1>10. Sections'
  <2>1. /\ csc + 1 \in Nat /\ "yield" \in PCs /\ ExitsOf("yield") <= csc + 1 /\ Begun'
        /\ pc' = [pc EXCEPT ![current] = "yield"] /\ current \in Threads
    BY <1>1, <1>2 DEF ExitsOf, PCs, Begun
  <2>2. QED
    BY <1>1, <1>2, <1>9, <2>1, SwitchSections
<1>11. QED BY <1>1, <1>7, <1>9, <1>10 DEF Kept

\* Interrupts.
LEMMA InterruptedKeeps ==
    ASSUME QueueInv, NEW kind \in {"tick", "device", "inside"}, Interrupted(kind) PROVE Kept
<1>1. /\ irq = "none" /\ stage \in {"idle", "done"}
      /\ irq' = kind /\ csc' = csc + 1
      /\ UNCHANGED <<state, prio, runq, current, saved, quantum, waitq, count, bwq, ret, pc, stage>>
  BY DEF Interrupted, queueVars
<1>2. Lists /\ Sections /\ csc \in Nat
  BY DEF QueueInv, Sections
<1>3. Lists'
  BY <1>1, <1>2 DEF Lists
<1>4. Sections'
  <2>1. ASSUME NEW u \in Threads PROVE Held(u)' <= Depth(u)'
    <3>1. Held(u) <= Depth(u)
      BY <1>2 DEF Sections
    <3>2. CASE u = current
      BY <1>1, <1>2, <3>1, <3>2 DEF Held, Depth, Begun, ExitsOf
    <3>3. CASE u # current
      BY <1>1, <1>2, <3>1, <3>3 DEF Held, Depth, Begun, ExitsOf
    <3>4. QED BY <3>2, <3>3
  <2>2. QED BY <1>1, <1>2, <2>1 DEF Sections, Begun
<1>5. QED BY <1>1, <1>3, <1>4 DEF Kept

LEMMA SleepTimerFiresKeeps ==
    ASSUME QueueInv, NEW t \in Threads, SleepTimerFires(t) PROVE Kept
<1>1. UNCHANGED <<irq, stage>>
  BY DEF SleepTimerFires
<1>2. CASE Panic
  BY <1>1, <1>2, PanicKeeps
<1>3. CASE /\ state[t] = "sleeping"
           /\ state' = [state EXCEPT ![t] = "ready"]
           /\ runq' = InsertHead(runq, t)
           /\ Balanced
           /\ UNCHANGED <<prio, queueVars, pc, panicked>>
  <2>1. UNCHANGED <<prio, current, csc, saved, quantum, waitq, count, bwq, ret, pc>>
    BY <1>3 DEF queueVars, Balanced
  <2>2. /\ Lists /\ Sections /\ state \in [Threads -> States] /\ prio \in [Threads -> Priorities]
        /\ RunQueue(runq, state, prio) /\ WaitQueues(waitq, state, bwq)
    BY DEF QueueInv, Lists
  <2>3. \A u \in Threads : state'[u] = IF u = t THEN "ready" ELSE state[u]
    BY <1>3, <2>2
  <2>4. state' \in [Threads -> States]
    BY <1>3, <2>2 DEF States
  <2>5. RunQueue(runq', state', prio)
    BY <1>3, <2>2, InsertHeadKeeps
  <2>6. WaitQueues(waitq, state', bwq)
    <3>1. \A u \in Threads : state'[u] = "blocked" <=> state[u] = "blocked"
      BY <1>3, <2>3
    <3>2. QED BY <2>2, <3>1, SameBlocked
  <2>7. Lists'
    BY <1>1, <1>3, <2>1, <2>2, <2>3, <2>4, <2>5, <2>6 DEF Lists, Threads
  <2>8. Sections'
    BY <1>1, <2>1, <2>2 DEF Sections, Held, Depth, Begun
  <2>9. QED BY <2>1, <2>7, <2>8 DEF Kept
<1>4. QED BY <1>2, <1>3 DEF SleepTimerFires

LEMMA TimeoutFiresKeeps ==
    ASSUME QueueInv, NEW t \in Threads, TimeoutFires(t) PROVE Kept
<1>1. UNCHANGED <<irq, stage>> /\ Lists /\ Sections /\ "timed_out" \in Results
  BY DEF TimeoutFires, QueueInv, Results
<1>2. CASE /\ csc' = csc + 1
           /\ UNCHANGED <<state, prio, runq, current, saved, ints, quantum, queueVars, pc, panicked>>
  <2>1. UNCHANGED <<state, prio, runq, current, saved, quantum, waitq, count, bwq, ret, pc>>
    BY <1>2 DEF queueVars
  <2>2. Lists'
    BY <1>1, <2>1 DEF Lists
  <2>3. Sections'
    <3>1. ASSUME NEW u \in Threads PROVE Held(u)' <= Depth(u)'
      <4>1. Held(u) <= Depth(u) /\ Held(u)' = Held(u) /\ Held(u) \in Int
        BY <1>1, <2>1 DEF Sections, Held, Begun, ExitsOf
      <4>2. Depth(u) \in Int /\ (Depth(u)' = Depth(u) \/ Depth(u)' = Depth(u) + 1)
        BY <1>1, <1>2, <2>1 DEF Depth, Sections
      <4>3. QED BY <4>1, <4>2
    <3>2. QED BY <1>1, <1>2, <2>1, <3>1 DEF Sections, Begun
  <2>4. QED BY <2>1, <2>2, <2>3 DEF Kept
<1>3. CASE state[t] = "blocked" /\ Unblock(t, "timed_out")
  <2>1. current' = current
    BY <1>3 DEF Unblock, Balanced
  <2>2. QED BY <1>1, <1>3, <2>1, UnblockStep DEF Kept
<1>4. QED BY <1>2, <1>3 DEF TimeoutFires

LEMMA IrqExitKeeps == ASSUME QueueInv, IrqExit PROVE Kept
<1>1. irq # "none" /\ irq' = "none" /\ UNCHANGED stage
  BY DEF IrqExit
<1>2. CASE Panic
  BY <1>1, <1>2, PanicKeeps
<1>3. CASE state[current] = "running" /\ ~ Panic
  <2> DEFINE qt == IF irq = "tick" /\ ~ (current = Boot /\ stage = "done")
                   THEN [quantum EXCEPT ![current] = IF @ = 0 THEN 0 ELSE @ - 1]
                   ELSE quantum
  <2>1. Preempt(qt)
    BY <1>3 DEF IrqExit
  <2>2. qt \in [Threads -> 0 .. Quantum]
    BY DEF QueueInv, Lists, Quantum
  <2> HIDE DEF qt
  <2>3. QED BY <1>1, <1>3, <2>1, <2>2, PreemptKeeps DEF QueueInv, Kept
<1>4. QED BY <1>2, <1>3 DEF IrqExit

\* Each call that waits, each call that wakes, and then each step.
LEMMA WaitingKeeps ==
    ASSUME QueueInv,
           \/ \E e \in Events \ {DpcEvent}, b \in BOOLEAN : EventWait(e, b)
           \/ \E m \in Mutexes, b \in BOOLEAN : MutexAcquire(m, b)
           \/ DpcWait
    PROVE  Kept
<1>1. ASSUME NEW e \in Events, NEW b \in BOOLEAN, EventWait(e, b) PROVE Kept
  <2>1. InUserCode /\ current \in Apps /\ UNCHANGED <<irq, stage>> /\ current # Boot /\ e \in Objects
    BY <1>1, UserCode DEF EventWait, AppCalls, Objects
  <2>2. CASE UNCHANGED schedVars
    BY <2>1, <2>2, SchedSame
  <2>3. CASE BlockOn(e, "event_wait", b)
    BY <2>1, <2>3, BlockOnKeeps
  <2>4. QED BY <1>1, <2>2, <2>3 DEF EventWait
<1>2. ASSUME NEW m \in Mutexes, NEW b \in BOOLEAN, MutexAcquire(m, b) PROVE Kept
  <2>1. InUserCode /\ current \in Apps /\ UNCHANGED <<irq, stage>> /\ current # Boot /\ m \in Objects
    BY <1>2, UserCode DEF MutexAcquire, AppCalls, Objects
  <2>2. CASE UNCHANGED schedVars
    BY <2>1, <2>2, SchedSame
  <2>3. CASE BlockOn(m, IF b THEN "mutex_acquire_timeout" ELSE "mutex_acquire", b)
    BY <2>1, <2>3, BlockOnKeeps
  <2>4. QED BY <1>2, <2>2, <2>3 DEF MutexAcquire
<1>3. ASSUME DpcWait PROVE Kept
  <2>1. /\ InUserCode /\ current = Dpc /\ UNCHANGED <<irq, stage>> /\ current # Boot
        /\ DpcEvent \in Objects
    BY <1>3, UserCode, ThreadsAssumption DEF DpcWait, Objects
  <2>2. CASE UNCHANGED schedVars
    BY <2>1, <2>2, SchedSame
  <2>3. CASE BlockOn(DpcEvent, "event_wait", FALSE)
    BY <2>1, <2>3, BlockOnKeeps
  <2>4. QED BY <1>3, <2>2, <2>3 DEF DpcWait
<1>4. QED BY <1>1, <1>2, <1>3

LEMMA WakingKeeps ==
    ASSUME QueueInv,
           \/ \E e \in Events \ {DpcEvent}, b \in BOOLEAN : EventSignal(e, b)
           \/ \E m \in Mutexes : MutexRelease(m)
           \/ \E w \in Objects \ {DpcEvent} : Destroy(w)
           \/ \E e \in IrqEvents : DeviceSignals(e)
    PROVE  Kept
<1>1. ASSUME NEW e \in Events, NEW b \in BOOLEAN, EventSignal(e, b) PROVE Kept
  <2>1. /\ InUserCode /\ current \in Apps /\ UNCHANGED <<irq, stage>>
        /\ SignalEvent(e, b)
    BY <1>1 DEF EventSignal, AppCalls
  <2>2. state[current] = "running" /\ current # Boot /\ irq' = "none"
    BY <2>1, UserCode
  <2>3. QED BY <2>1, <2>2, SignalEventKeeps
<1>2. ASSUME NEW m \in Mutexes, MutexRelease(m) PROVE Kept
  <2> DEFINE woken == IF mcount[m] - 1 >= 1 THEN FirstOf(m) ELSE <<>>
  <2>1. /\ InUserCode /\ current \in Apps /\ UNCHANGED <<irq, stage>>
        /\ Wake(m, woken, TRUE, "ok")
        /\ m \in Objects /\ woken \in {<<>>, FirstOf(m), waitq[m]} /\ "ok" \in Results
    BY <1>2 DEF MutexRelease, AppCalls, Objects, Results
  <2> HIDE DEF woken
  <2>2. QED BY <2>1, WakeWithin
<1>3. ASSUME NEW w \in Objects, Destroy(w) PROVE Kept
  <2> DEFINE woken == waitq[w]
  <2>1. /\ InUserCode /\ current \in Apps /\ UNCHANGED <<irq, stage>>
        /\ Wake(w, woken, TRUE, "destroyed")
        /\ woken \in {<<>>, FirstOf(w), waitq[w]} /\ "destroyed" \in Results
    BY <1>3 DEF Destroy, AppCalls, Results
  <2> HIDE DEF woken
  <2>2. QED BY <2>1, WakeWithin
<1>4. ASSUME NEW e \in IrqEvents, DeviceSignals(e) PROVE Kept
  <2>1. /\ irq # "none" /\ UNCHANGED stage /\ e \in Events
        /\ SignalEvent(e, FALSE)
    BY <1>4, KernelAssumption DEF DeviceSignals
  <2>2. QED BY <2>1, SignalEventKeeps
<1>5. QED BY <1>1, <1>2, <1>3, <1>4

LEMMA QueueStep == ASSUME QueueInv, Next PROVE Kept
<1>1. CASE KmainDpcInit \/ KmainEnable \/ KmainBecomeIdle \/ \E t \in InitialApps : KmainResume(t)
  BY <1>1, KmainDpcInitKeeps, KmainEnableKeeps, KmainBecomeIdleKeeps, KmainResumeKeeps
<1>2. CASE KmainTimerInit
  <2>1. UNCHANGED schedVars /\ irq' = irq /\ stage = "timer" /\ stage' = "apps"
    BY <1>2 DEF KmainTimerInit
  <2>2. QED BY <2>1 DEF QueueInv, Kept, schedVars, queueVars, Lists, Sections, Held, Depth, Begun
<1>3. CASE ThreadYield \/ ThreadSleep \/ ThreadExit \/ ThreadBlock \/ Resume
  BY <1>3, ThreadYieldKeeps, ThreadSleepKeeps, ThreadExitKeeps, ThreadBlockKeeps, ResumeKeeps
<1>4. CASE \E t \in Apps : ThreadCreate(t) \/ ThreadResume(t)
  BY <1>4, ThreadCreateKeeps, ThreadResumeKeeps
<1>5. CASE \E e \in Events \ {DpcEvent}, b \in BOOLEAN : EventWait(e, b) \/ EventSignal(e, b)
  BY <1>5, WaitingKeeps, WakingKeeps
<1>6. CASE \E e \in Events \ {DpcEvent} : EventUnsignal(e)
  BY <1>6, SchedSame DEF EventUnsignal
<1>7. CASE \E m \in Mutexes, b \in BOOLEAN : MutexAcquire(m, b)
  BY <1>7, WaitingKeeps
<1>8. CASE (\E m \in Mutexes : MutexRelease(m)) \/ (\E w \in Objects \ {DpcEvent} : Destroy(w))
  BY <1>8, WakingKeeps
<1>9. CASE DpcWait \/ DpcTake \/ DpcCleanup
  BY <1>9, WaitingKeeps, SchedSame, DpcCleanupKeeps DEF DpcTake
<1>10. CASE IrqEnter("tick") \/ IrqEnter("device") \/ IrqInside
  BY <1>10, InterruptedKeeps DEF IrqEnter, IrqInside
<1>11. CASE \E t \in Threads : SleepTimerFires(t) \/ TimeoutFires(t)
  BY <1>11, SleepTimerFiresKeeps, TimeoutFiresKeeps
<1>12. CASE (\E e \in IrqEvents : DeviceSignals(e)) \/ IrqExit
  BY <1>12, WakingKeeps, IrqExitKeeps
<1>13. CASE Halted
  BY <1>13, SchedSame DEF Halted, vars
<1>14. QED
  BY <1>1, <1>2, <1>3, <1>4, <1>5, <1>6, <1>7, <1>8, <1>9, <1>10, <1>11, <1>12, <1>13 DEF Next

\* The types of the other variables.
LEMMA SignalTypes ==
    ASSUME QueueInv, NEW e \in Events, NEW b \in BOOLEAN, SignalEvent(e, b)
    PROVE  /\ ints' \in BOOLEAN /\ UNCHANGED panicked
           /\ signalled' \in [Events -> BOOLEAN]
           /\ \A t \in Threads : pc'[t] = "block" => pc[t] = "block"
<1>1. /\ ints \in BOOLEAN
      /\ signalled \in [Events -> BOOLEAN]
      /\ pc \in [Threads -> PCs]
  BY DEF QueueInv, Rest, Lists
<1>2. /\ ints' = ints \/ ints' = MaskAfterEnter(csc, ints)
      /\ pc' = pc \/ pc' = [pc EXCEPT ![current] = "signal"]
      /\ UNCHANGED panicked
  BY DEF SignalEvent, schedVars, Wake, Balanced
<1>3. signalled' \in [Events -> BOOLEAN]
  BY <1>1 DEF SignalEvent
<1>4. QED BY <1>1, <1>2, <1>3 DEF MaskAfterEnter

LEMMA BlockOnTypes ==
    ASSUME QueueInv, NEW w \in Objects, NEW op \in WaitOps, NEW finite \in BOOLEAN,
           BlockOn(w, op, finite)
    PROVE  /\ ints' \in BOOLEAN /\ UNCHANGED panicked
           /\ timer' \in [Threads -> {"none", "sleep", "timeout"}]
           /\ call' \in [Threads -> [op : WaitOps \cup {"none"}, obj : Objects \cup {None}]]
           /\ \A t \in Threads : pc'[t] = "block" => call'[t].op \in WaitOps
<1>1. /\ ints \in BOOLEAN
      /\ pc \in [Threads -> PCs] /\ current \in Threads
      /\ timer \in [Threads -> {"none", "sleep", "timeout"}]
      /\ call \in [Threads -> [op : WaitOps \cup {"none"}, obj : Objects \cup {None}]]
      /\ \A t \in Threads : pc[t] = "block" => call[t].op \in WaitOps
  BY DEF QueueInv, Rest, Lists
<1>2. /\ ints' = MaskAfterEnter(csc, ints)
      /\ pc' = [pc EXCEPT ![current] = "block"]
      /\ UNCHANGED panicked
      /\ call' = [call EXCEPT ![current] = [op |-> op, obj |-> w]]
      /\ timer' = timer \/ timer' = [timer EXCEPT ![current] = "timeout"]
  BY DEF BlockOn, Enqueue
<1>3. [op |-> op, obj |-> w] \in [op : WaitOps \cup {"none"}, obj : Objects \cup {None}]
  OBVIOUS
<1>4. call' \in [Threads -> [op : WaitOps \cup {"none"}, obj : Objects \cup {None}]]
  <2> DEFINE R == [op : WaitOps \cup {"none"}, obj : Objects \cup {None}]
             r == [op |-> op, obj |-> w]
  <2>1. r \in R /\ call \in [Threads -> R] /\ call' = [call EXCEPT ![current] = r]
    BY <1>1, <1>2, <1>3
  <2> HIDE DEF R, r
  <2>2. call' \in [Threads -> R]
    BY <2>1
  <2>3. QED BY <2>2 DEF R
<1>5. \A t \in Threads : pc'[t] = "block" => call'[t].op \in WaitOps
  <2>1. \A t \in Threads : t # current => pc'[t] = pc[t] /\ call'[t] = call[t]
    BY <1>1, <1>2
  <2>2. call'[current].op = op
    BY <1>1, <1>2
  <2>3. QED BY <1>1, <2>1, <2>2
<1>6. QED BY <1>1, <1>2, <1>4, <1>5 DEF MaskAfterEnter

LEMMA WakeTypes ==
    ASSUME QueueInv, NEW w, NEW woken, NEW reschedule, NEW result,
           Wake(w, woken, reschedule, result)
    PROVE  /\ ints' \in BOOLEAN /\ UNCHANGED panicked
           /\ \A t \in Threads : pc'[t] = "block" => pc[t] = "block"
<1>1. ints \in BOOLEAN /\ pc \in [Threads -> PCs]
  BY DEF QueueInv, Rest, Lists
<1>2. /\ ints' = ints \/ ints' = MaskAfterEnter(csc, ints)
      /\ pc' = pc \/ pc' = [pc EXCEPT ![current] = "signal"]
      /\ UNCHANGED panicked
  BY DEF Wake, Balanced
<1>3. QED BY <1>1, <1>2 DEF MaskAfterEnter

LEMMA RestStep == ASSUME QueueInv, Next PROVE Rest'
<1> USE DEF QueueInv
<1>0. pc \in [Threads -> PCs] /\ current \in Threads
  BY DEF Lists
<1>1. CASE KmainDpcInit \/ KmainEnable \/ KmainBecomeIdle \/ KmainTimerInit
           \/ \E t \in InitialApps : KmainResume(t)
  BY <1>0, <1>1 DEF Rest, KmainDpcInit, KmainEnable, KmainBecomeIdle, KmainTimerInit, KmainResume,
        ResumeThread, YieldAt, schedVars, queueVars, objectVars, dpcVars, MaskAfterEnter, MaskAfterExit,
        Stages, WaitOps
<1>2. CASE ThreadYield \/ ThreadSleep \/ (\E t \in Apps : ThreadCreate(t) \/ ThreadResume(t))
  <2>0. CASE ThreadYield
    BY <1>0, <2>0 DEF Rest, ThreadYield, YieldAt, AppCalls, queueVars, objectVars, dpcVars, MaskAfterEnter
  <2>1. CASE ThreadSleep
    BY <1>0, <2>1 DEF Rest, ThreadSleep, AppCalls, queueVars, objectVars, dpcVars, MaskAfterEnter
  <2>2. ASSUME NEW t \in Apps, ThreadCreate(t) PROVE Rest'
    BY <1>0, <2>2 DEF Rest, ThreadCreate, AppCalls, queueVars, objectVars, dpcVars, MaskAfterEnter
  <2>3. ASSUME NEW t \in Apps, ThreadResume(t) PROVE Rest'
    BY <1>0, <2>3 DEF Rest, ThreadResume, AppCalls, ResumeThread, YieldAt, queueVars, objectVars, dpcVars,
          MaskAfterEnter
  <2>4. QED BY <1>2, <2>0, <2>1, <2>2, <2>3
<1>3. CASE ThreadExit
  BY <1>0, <1>3, ThreadsAssumption DEF Rest, ThreadExit, AppCalls, queueVars, objectVars, dpcVars, MaskAfterEnter
<1>4. CASE ThreadBlock
  BY <1>0, <1>4 DEF Rest, ThreadBlock, queueVars, objectVars, dpcVars, MaskAfterEnter, WaitOps
<1>5. CASE Resume
  <2>1. /\ ints' \in BOOLEAN /\ UNCHANGED <<panicked, signalled, valid, irq, stage, dpcList, dpcJob>>
        /\ pc' = [pc EXCEPT ![current] = "user"]
        /\ timer' = timer \/ timer' = [timer EXCEPT ![current] = "none"]
        /\ call' = call \/ call' = [call EXCEPT ![current] = NoCall]
        /\ dpcAt' = dpcAt \/ dpcAt' = "take"
    BY <1>5 DEF Resume, MaskAfterExit, Rest
  <2>2. /\ holder' \in [Mutexes -> Threads \cup {None}]
        /\ mcount' \in [Mutexes -> Int]
    <3>1. ASSUME NEW m, NEW op, FinishMutex(current, m, op)
          PROVE  /\ holder' \in [Mutexes -> Threads \cup {None}]
                 /\ mcount' \in [Mutexes -> Int]
      <4>1. \/ holder' = [holder EXCEPT ![m] = current] /\ UNCHANGED mcount
            \/ mcount' = [mcount EXCEPT ![m] = @ - 1] /\ UNCHANGED holder
            \/ UNCHANGED <<holder, mcount>>
        BY <3>1 DEF FinishMutex
      <4>2. holder' \in [Mutexes -> Threads \cup {None}]
        BY <1>0, <4>1 DEF Rest
      <4>3. mcount' \in [Mutexes -> Int]
        <5>1. mcount[m]  - 1 \in Int \/ m \notin Mutexes
          BY DEF Rest
        <5>2. QED BY <4>1, <5>1 DEF Rest
      <4>4. QED BY <4>2, <4>3
    <3>2. FinishMutex(current, call[current].obj, pc[current]) \/ UNCHANGED <<holder, mcount>>
      BY <1>5 DEF Resume
    <3>3. QED BY <3>1, <3>2 DEF Rest
  <2>3. call' \in [Threads -> [op : WaitOps \cup {"none"}, obj : Objects \cup {None}]]
    <3> DEFINE R == [op : WaitOps \cup {"none"}, obj : Objects \cup {None}]
    <3>1. NoCall \in R /\ call \in [Threads -> R]
      BY DEF NoCall, Rest
    <3> HIDE DEF R
    <3>2. call' \in [Threads -> R]
      BY <2>1, <3>1
    <3>3. QED BY <3>2 DEF R
  <2>4. \A t \in Threads : pc'[t] = "block" => call'[t].op \in WaitOps
    <3>1. \A t \in Threads : pc'[t] = "block" => t # current /\ pc[t] = "block"
      BY <1>0, <2>1
    <3>2. \A t \in Threads : t # current => call'[t] = call[t]
      BY <2>1 DEF Rest
    <3>3. QED BY <3>1, <3>2 DEF Rest
  <2>5. timer' \in [Threads -> {"none", "sleep", "timeout"}]
    BY <2>1 DEF Rest
  <2>6. dpcAt' \in {"wait", "take", "cleanup"}
    BY <2>1 DEF Rest
  <2>7. QED BY <2>1, <2>2, <2>3, <2>4, <2>5, <2>6 DEF Rest
<1>6. CASE \E e \in Events \ {DpcEvent}, b \in BOOLEAN : EventWait(e, b)
  <2>1. PICK e \in Events, b \in BOOLEAN : EventWait(e, b)
    BY <1>6
  <2>2. signalled' \in [Events -> BOOLEAN] /\ UNCHANGED <<valid, holder, mcount, irq, stage, dpcVars>>
    BY <2>1 DEF EventWait, Rest
  <2>3. CASE UNCHANGED <<schedVars, call, timer>>
    BY <2>2, <2>3 DEF Rest, schedVars, dpcVars
  <2>4. CASE BlockOn(e, "event_wait", b)
    <3>1. e \in Objects /\ "event_wait" \in WaitOps
      BY DEF Objects, WaitOps
    <3>2. QED BY <2>2, <2>4, <3>1, BlockOnTypes DEF Rest, dpcVars
  <2>5. QED BY <2>1, <2>3, <2>4 DEF EventWait
<1>7. CASE \E m \in Mutexes, b \in BOOLEAN : MutexAcquire(m, b)
  <2>1. PICK m \in Mutexes, b \in BOOLEAN : MutexAcquire(m, b)
    BY <1>7
  <2> DEFINE op == IF b THEN "mutex_acquire_timeout" ELSE "mutex_acquire"
  <2>2. /\ holder' \in [Mutexes -> Threads \cup {None}] /\ mcount' \in [Mutexes -> Int]
        /\ UNCHANGED <<signalled, valid, irq, stage, dpcVars>>
    BY <1>0, <2>1 DEF MutexAcquire, Rest
  <2>3. CASE UNCHANGED <<schedVars, call, timer>>
    BY <2>2, <2>3 DEF Rest, schedVars, dpcVars
  <2>4. CASE BlockOn(m, op, b)
    <3>1. m \in Objects /\ op \in WaitOps
      BY DEF Objects, WaitOps
    <3> HIDE DEF op
    <3>2. QED BY <2>2, <2>4, <3>1, BlockOnTypes DEF Rest, dpcVars
  <2>5. QED BY <2>1, <2>3, <2>4 DEF MutexAcquire
<1>8. CASE DpcWait
  <2>2. dpcAt' \in {"wait", "take", "cleanup"} /\ UNCHANGED <<objectVars, irq, stage, dpcList, dpcJob>>
    BY <1>8 DEF DpcWait, Rest
  <2>3. CASE UNCHANGED <<schedVars, call, timer>>
    BY <2>2, <2>3 DEF Rest, schedVars, objectVars
  <2>4. CASE BlockOn(DpcEvent, "event_wait", FALSE)
    <3>1. DpcEvent \in Objects /\ "event_wait" \in WaitOps
      BY ThreadsAssumption DEF Objects, WaitOps
    <3>2. QED BY <2>2, <2>4, <3>1, BlockOnTypes DEF Rest, objectVars
  <2>5. QED BY <1>8, <2>3, <2>4 DEF DpcWait
<1>9. CASE \E e \in Events \ {DpcEvent}, b \in BOOLEAN : EventSignal(e, b)
  BY <1>0, <1>9, SignalTypes DEF Rest, EventSignal, dpcVars
<1>10. CASE \E e \in IrqEvents : DeviceSignals(e)
  BY <1>0, <1>10, SignalTypes, KernelAssumption DEF Rest, DeviceSignals, dpcVars, Irqs
<1>11. CASE \E e \in Events \ {DpcEvent} : EventUnsignal(e)
  BY <1>0, <1>11 DEF Rest, EventUnsignal, schedVars, dpcVars
<1>12. CASE \E m \in Mutexes : MutexRelease(m)
  <2>1. PICK m \in Mutexes : MutexRelease(m)
    BY <1>12
  <2> DEFINE woken == IF mcount[m] - 1 >= 1 THEN FirstOf(m) ELSE <<>>
  <2>2. /\ holder' = [holder EXCEPT ![m] = None] /\ mcount' = [mcount EXCEPT ![m] = @ - 1]
        /\ UNCHANGED <<signalled, valid, timer, call, irq, stage, dpcVars>>
        /\ Wake(m, woken, TRUE, "ok")
    BY <2>1 DEF MutexRelease
  <2>3. holder' \in [Mutexes -> Threads \cup {None}] /\ mcount' \in [Mutexes -> Int]
    BY <2>2 DEF Rest
  <2> HIDE DEF woken
  <2>4. QED BY <2>2, <2>3, WakeTypes DEF Rest, dpcVars
<1>13. CASE \E w \in Objects \ {DpcEvent} : Destroy(w)
  <2>1. PICK w \in Objects : Destroy(w)
    BY <1>13
  <2>2. /\ valid' = [valid EXCEPT ![w] = FALSE]
        /\ signalled' = [e \in Events |-> e # w /\ signalled[e]]
        /\ mcount' = [m \in Mutexes |-> IF m = w THEN 0 ELSE mcount[m]]
        /\ UNCHANGED <<holder, timer, call, irq, stage, dpcVars>>
        /\ Wake(w, waitq[w], TRUE, "destroyed")
    BY <2>1 DEF Destroy
  <2>3. /\ valid' \in [Objects -> BOOLEAN]
        /\ mcount' \in [Mutexes -> Int]
        /\ signalled' \in [Events -> BOOLEAN]
    BY <2>2 DEF Rest
  <2>4. QED BY <2>2, <2>3, WakeTypes DEF Rest, dpcVars
<1>14. CASE DpcTake
  <2>1. /\ UNCHANGED <<ints, panicked, pc, valid, holder, mcount, timer, call, irq, stage>>
        /\ signalled' \in [Events -> BOOLEAN]
        /\ dpcAt' \in {"wait", "take", "cleanup"}
        /\ \/ UNCHANGED <<dpcList, dpcJob>>
           \/ dpcList # <<>> /\ dpcJob' = Head(dpcList) /\ dpcList' = Tail(dpcList)
    BY <1>14 DEF Rest, DpcTake, schedVars
  <2>2. dpcList' \in Seq(Apps) /\ dpcJob' \in Apps \cup {None}
    <3>1. dpcList \in Seq(Apps) /\ dpcJob \in Apps \cup {None}
      BY DEF Rest
    <3>2. dpcList # <<>> => Head(dpcList) \in Apps /\ Tail(dpcList) \in Seq(Apps)
      BY <3>1, HeadTailProperties
    <3>3. QED BY <2>1, <3>1, <3>2
  <2>3. QED BY <2>1, <2>2 DEF Rest
<1>15. CASE DpcCleanup
  BY <1>0, <1>15 DEF Rest, DpcCleanup, Panic, dpcVars, objectVars
<1>16. CASE IrqEnter("tick") \/ IrqEnter("device") \/ IrqInside
  BY <1>0, <1>16 DEF Rest, IrqEnter, IrqInside, Interrupted, objectVars, dpcVars, Irqs
<1>17. CASE \E t \in Threads : SleepTimerFires(t) \/ TimeoutFires(t)
  BY <1>0, <1>17 DEF Rest, SleepTimerFires, TimeoutFires, Panic, Unblock, Balanced, objectVars, dpcVars
<1>18. CASE IrqExit
  BY <1>0, <1>18 DEF Rest, IrqExit, Panic, Preempt, objectVars, dpcVars, Irqs
<1>19. CASE Halted
  BY <1>19 DEF Rest, Halted, vars, schedVars, objectVars, dpcVars
<1>20. QED
  BY <1>1, <1>2, <1>3, <1>4, <1>5, <1>6, <1>7, <1>8, <1>9, <1>10, <1>11, <1>12, <1>13,
     <1>14, <1>15, <1>16, <1>17, <1>18, <1>19 DEF Next

\* The invariant holds once kmain has set up its threads.
LEMMA InitQueueInv == Init => QueueInv
<1> SUFFICES ASSUME Init PROVE QueueInv
  OBVIOUS
<1> USE DEF Init
<1>1. /\ \A t \in Threads : state[t] = IF t = Boot THEN "running"
                                       ELSE IF t \in InitialApps \cup {Dpc} THEN "suspended"
                                       ELSE "free"
      /\ Boot \in Threads /\ Dpc \in Threads /\ Boot # Dpc
  BY ThreadsAssumption DEF Threads
<1>2. prio \in [Threads -> Priorities]
  BY ThreadsAssumption DEF Threads, Priorities
<1>3. RunQueue(runq, state, prio)
  <2>1. runq \in [queue : [Priorities -> Seq(Threads)], bitmap : SUBSET Priorities]
    OBVIOUS
  <2>2. \A p \in Priorities : Distinct(runq.queue[p]) /\ \A t \in Threads : ~ On(t, runq.queue[p])
    BY DEF Distinct, On
  <2>3. \A t \in Threads : state[t] # "ready"
    BY <1>1
  <2>4. runq.bitmap = {p \in Priorities : runq.queue[p] # <<>>}
    OBVIOUS
  <2>5. QED BY <2>1, <2>2, <2>3, <2>4 DEF RunQueue
<1>4. WaitQueues(waitq, state, bwq)
  <2>1. \A w \in Objects : Distinct(waitq[w]) /\ \A t \in Threads : ~ On(t, waitq[w])
    BY DEF Distinct, On
  <2>2. \A t \in Threads : state[t] # "blocked"
    BY <1>1
  <2>3. waitq \in [Objects -> Seq(Threads)]
    OBVIOUS
  <2>5. QED BY <2>1, <2>2, <2>3 DEF WaitQueues
<1>5. Lists
  <2>1. /\ state \in [Threads -> States]
        /\ pc \in [Threads -> PCs]
    BY DEF States, PCs
  <2>2. /\ quantum \in [Threads -> 0 .. Quantum]
        /\ bwq \in [Threads -> Objects \cup {None}]
        /\ ret \in [Threads -> Results]
        /\ count \in [Objects -> Nat]
        /\ \A w \in Objects : count[w] = Len(waitq[w])
    BY DEF Quantum, Results
  <2>3. /\ \A t \in Threads : state[t] # "blocked"
        /\ state[Boot] = "running" /\ state[Dpc] = "suspended"
        /\ pc[Boot] # "block" /\ current = Boot
    BY <1>1
  <2>4. QED BY <1>1, <1>2, <1>3, <1>4, <2>1, <2>2, <2>3 DEF Lists
<1>6. Sections
  BY <1>1 DEF Sections, Held, Depth, Begun, ExitsOf
<1>7. Rest
  <2>1. call \in [Threads -> [op : WaitOps \cup {"none"}, obj : Objects \cup {None}]]
    BY DEF NoCall
  <2>2. \A t \in Threads : pc[t] # "block"
    OBVIOUS
  <2>3. holder \in [Mutexes -> Threads \cup {None}] /\ mcount \in [Mutexes -> Int]
    OBVIOUS
  <2>4. /\ signalled \in [Events -> BOOLEAN] /\ valid \in [Objects -> BOOLEAN]
        /\ timer \in [Threads -> {"none", "sleep", "timeout"}]
        /\ dpcList \in Seq(Apps) /\ irq \in Irqs /\ stage \in Stages
    BY DEF Irqs, Stages
  <2>5. ints \in BOOLEAN /\ panicked \in BOOLEAN /\ dpcAt = "wait" /\ dpcJob = None
    OBVIOUS
  <2> HIDE DEF Init
  <2>6. QED BY <2>1, <2>2, <2>3, <2>4, <2>5 DEF Rest
<1>8. QED BY <1>5, <1>6, <1>7 DEF QueueInv

LEMMA QueueInvStutters == QueueInv /\ UNCHANGED vars => QueueInv'
<1> SUFFICES ASSUME QueueInv, UNCHANGED vars PROVE QueueInv'
  OBVIOUS
<1>1. UNCHANGED <<schedVars, irq, stage>>
  BY DEF vars
<1>2. Lists' /\ Sections'
  BY <1>1, SchedSame DEF Kept
<1>3. Rest'
  BY DEF QueueInv, Rest, vars, schedVars, objectVars, dpcVars
<1>4. QED BY <1>2, <1>3 DEF QueueInv

LEMMA QueueInvStep == QueueInv /\ [Next]_vars => QueueInv'
<1>1. QueueInv /\ Next => QueueInv'
  BY QueueStep, RestStep DEF Kept, QueueInv
<1>2. QED
  BY <1>1, QueueInvStutters

\* The invariant of the model.  A state that is Torn is one the model does not go into, so
\* what it says there is nothing about the code; the theorems leave it out.
LEMMA QueueInvAlways == Spec => []QueueInv
BY InitQueueInv, QueueInvStep, PTL DEF Spec

\* Whatever threads call and whenever interrupts come between the calls or in the window of
\* wait_queue_block, the lists of thread.c agree with the states of the threads, and no
\* thread leaves a critical section it has not entered: up to the interrupt that comes into
\* a call after thread.c:902 has left a section counted (enter_critical_section,
\* thread.h:130-135, masks at the first section only).
THEOREM QueueInvHolds == Spec => [](~Torn => QueueInv)
BY QueueInvAlways, PTL

\* A thread that is in a list of distinct threads occurs in it once.
LEMMA OccurrencesFacts ==
    ASSUME NEW s \in Seq(Threads), Distinct(s), NEW t
    PROVE  Occurrences(s, t) = IF On(t, s) THEN 1 ELSE 0
<1> DEFINE at == {i \in DOMAIN s : s[i] = t}
<1>1. DOMAIN s = 1 .. Len(s)
  OBVIOUS
<1>2. CASE On(t, s)
  <2>1. PICK i \in 1 .. Len(s) : s[i] = t
    BY <1>2 DEF On
  <2>2. at = {i}
    BY <1>1, <2>1 DEF Distinct
  <2>3. QED BY <1>2, <2>2, FS_Singleton DEF Occurrences
<1>3. CASE ~ On(t, s)
  <2>1. at = {}
    BY <1>1, <1>3 DEF On
  <2>2. QED BY <1>3, <2>1, FS_EmptySet DEF Occurrences
<1>4. QED BY <1>2, <1>3

LEMMA QueueInvImplies == QueueInv => QueuesAgree
<1> SUFFICES ASSUME QueueInv PROVE QueuesAgree
  OBVIOUS
<1>1. TypeOK
  BY DEF QueueInv, Lists, Sections, Rest, RunQueue, WaitQueues, TypeOK
<1>2. OneListPerThread
  <2>1. ASSUME NEW t \in Threads, NEW p \in Priorities
        PROVE  Occurrences(runq.queue[p], t) = IF state[t] = "ready" /\ p = prio[t] THEN 1 ELSE 0
    <3>1. /\ runq.queue[p] \in Seq(Threads) /\ Distinct(runq.queue[p])
          /\ On(t, runq.queue[p]) <=> state[t] = "ready" /\ p = prio[t]
      BY DEF QueueInv, Lists, RunQueue
    <3>2. QED BY <3>1, OccurrencesFacts
  <2>2. ASSUME NEW t \in Threads, NEW w \in Objects
        PROVE  Occurrences(waitq[w], t) = IF state[t] = "blocked" /\ w = bwq[t] THEN 1 ELSE 0
    <3>1. /\ waitq[w] \in Seq(Threads) /\ Distinct(waitq[w])
          /\ On(t, waitq[w]) <=> state[t] = "blocked" /\ w = bwq[t]
      BY DEF QueueInv, Lists, WaitQueues
    <3>2. QED BY <3>1, OccurrencesFacts
  <2>3. QED BY <2>1, <2>2 DEF OneListPerThread
<1>3. SummariesAgree
  BY DEF QueueInv, Lists, RunQueue, SummariesAgree
<1>4. QED BY <1>1, <1>2, <1>3 DEF QueuesAgree

\* The state of a thread, the list its queue_node is on, the bitmap and the counts agree
\* (thread.c: insert_in_run_queue_head, thread_resched, the wait queues), for every
\* number of threads, priorities and objects and every order of switches, wake-ups, time-
\* outs and destructions, until an interrupt comes into a call through a leaked section.
THEOREM QueuesAgreeHolds == Spec => []QueuesAgree
BY QueueInvAlways, QueueInvImplies, PTL

\* thread_resched never leaves a ready thread of a higher priority behind, until an
\* interrupt comes into a call through a leaked section.
THEOREM SwitchesToHighestHolds == Spec => SwitchesToHighest
<1> DEFINE Highest1 == ~Torn' /\ current' # current =>
             \A t \in Threads : state'[t] = "ready" => prio'[t] <= prio'[current']
<1>1. QueueInv /\ [Next]_vars => [Highest1]_vars
  BY QueueStep DEF Kept, Outranks
<1>2. QED
  BY <1>1, QueueInvAlways, PTL DEF Spec, SwitchesToHighest

\* Nobody is in the queue of an event that is signalled.
NoneMissed == \A e \in Events : signalled[e] => waitq[e] = <<>>

\* A signal and a wait of the same event.
LEMMA LeaveQueueEmpties ==
    ASSUME QueueInv, NEW w \in Objects, NEW woken \in {<<>>, FirstOf(w), waitq[w]}, NEW result,
           LeaveQueue(w, woken, result)
    PROVE  /\ \A v \in Objects : v # w => waitq'[v] = waitq[v]
           /\ woken = waitq[w] \/ waitq[w] = <<>> => waitq'[w] = <<>>
<1>1. /\ waitq \in [Objects -> Seq(Threads)]
      /\ waitq' = [waitq EXCEPT ![w] = SubSeq(@, Len(woken) + 1, Len(@))]
  BY DEF QueueInv, Lists, WaitQueues, LeaveQueue
<1>2. waitq[w] \in Seq(Threads) /\ Len(waitq[w]) \in Nat
  BY <1>1
<1>3. waitq[w] = <<>> => woken = <<>> /\ woken = waitq[w]
  BY DEF FirstOf
<1>4. woken = waitq[w] => waitq'[w] = <<>>
  <2> DEFINE q == waitq[w]
  <2>1. SubSeq(q, Len(q) + 1, Len(q)) = <<>>
    <3>1. q \in Seq(Threads)
      BY <1>2
    <3> HIDE DEF q
    <3>2. QED BY <3>1
  <2>2. QED BY <1>1, <2>1
<1>5. QED BY <1>1, <1>3, <1>4

LEMMA SignalMeetsWait ==
    ASSUME QueueInv, NoneMissed, NEW e \in Events, NEW reschedule, SignalEvent(e, reschedule)
    PROVE  NoneMissed'
<1>1. CASE UNCHANGED <<schedVars, signalled>>
  BY <1>1 DEF NoneMissed, schedVars, queueVars
<1>2. e \in Objects /\ \A f \in Events : f \in Objects
  BY DEF Objects
<1>3. CASE ~ signalled[e] /\ e \in AutoEvents
  <2>1. /\ signalled' = [signalled EXCEPT ![e] = waitq[e] = <<>>]
        /\ LeaveQueue(e, FirstOf(e), "ok")
    BY <1>3 DEF SignalEvent, Wake
  <2>2. /\ \A v \in Objects : v # e => waitq'[v] = waitq[v]
        /\ waitq[e] = <<>> => waitq'[e] = <<>>
    BY <1>2, <2>1, LeaveQueueEmpties
  <2>3. QED BY <1>2, <2>1, <2>2 DEF NoneMissed, QueueInv, Rest
<1>4. CASE ~ signalled[e] /\ e \notin AutoEvents
  <2>1. /\ signalled' = [signalled EXCEPT ![e] = TRUE]
        /\ LeaveQueue(e, waitq[e], "ok")
    BY <1>4 DEF SignalEvent, Wake
  <2>2. /\ \A v \in Objects : v # e => waitq'[v] = waitq[v]
        /\ waitq'[e] = <<>>
    BY <1>2, <2>1, LeaveQueueEmpties
  <2>3. QED BY <1>2, <2>1, <2>2 DEF NoneMissed, QueueInv, Rest
<1>5. QED BY <1>1, <1>3, <1>4 DEF SignalEvent

LEMMA BlockMeetsSignal ==
    ASSUME QueueInv, NoneMissed, NEW w \in Objects, NEW op, NEW finite, BlockOn(w, op, finite),
           \A e \in Events : signalled'[e] => signalled[e],
           w \in Events => ~ signalled[w]
    PROVE  NoneMissed'
<1>1. /\ waitq \in [Objects -> Seq(Threads)]
      /\ waitq' = [waitq EXCEPT ![w] = Append(@, current)]
  BY DEF QueueInv, Lists, WaitQueues, BlockOn, Enqueue
<1>2. \A v \in Objects : v # w => waitq'[v] = waitq[v]
  BY <1>1
<1>3. QED
  BY <1>2 DEF NoneMissed, Objects

\* Each step, the waits and the signals by the lemmas above.
LEMMA NoneMissedStep == QueueInv /\ NoneMissed /\ [Next]_vars => NoneMissed'
<1> SUFFICES ASSUME QueueInv, NoneMissed, [Next]_vars PROVE NoneMissed'
  OBVIOUS
<1>0. /\ signalled \in [Events -> BOOLEAN]
      /\ waitq \in [Objects -> Seq(Threads)]
      /\ DpcEvent \in Objects /\ DpcEvent \in Events
  BY ThreadsAssumption DEF QueueInv, Rest, Lists, WaitQueues, Objects
<1>1. CASE UNCHANGED <<signalled, waitq>>
  BY <1>1 DEF NoneMissed
<1>2. CASE ThreadExit
  <2> DEFINE woken == IF signalled[DpcEvent] THEN <<>> ELSE waitq[DpcEvent]
  <2>1. /\ signalled' = [signalled EXCEPT ![DpcEvent] = TRUE]
        /\ LeaveQueue(DpcEvent, woken, "ok")
        /\ woken \in {<<>>, FirstOf(DpcEvent), waitq[DpcEvent]}
        /\ woken = waitq[DpcEvent] \/ waitq[DpcEvent] = <<>>
    BY <1>0, <1>2 DEF ThreadExit, NoneMissed
  <2> HIDE DEF woken
  <2>2. /\ \A v \in Objects : v # DpcEvent => waitq'[v] = waitq[v]
        /\ waitq'[DpcEvent] = <<>>
    BY <1>0, <2>1, LeaveQueueEmpties
  <2>3. QED BY <1>0, <2>1, <2>2 DEF NoneMissed, Objects
<1>3. ASSUME NEW e \in Events, NEW b \in BOOLEAN, EventWait(e, b) PROVE NoneMissed'
  <2>1. CASE signalled[e] /\ UNCHANGED <<schedVars, call, timer>>
    BY <1>0, <1>3, <2>1 DEF EventWait, NoneMissed, schedVars, queueVars
  <2>2. CASE ~ signalled[e] /\ BlockOn(e, "event_wait", b) /\ UNCHANGED signalled
    BY <2>2, BlockMeetsSignal DEF Objects
  <2>3. QED BY <1>3, <2>1, <2>2 DEF EventWait
<1>4. ASSUME NEW m \in Mutexes, NEW b \in BOOLEAN, MutexAcquire(m, b) PROVE NoneMissed'
  <2>1. UNCHANGED signalled /\ m \in Objects /\ m \notin Events
    BY <1>4, ThreadsAssumption DEF MutexAcquire, Objects
  <2>2. CASE UNCHANGED <<schedVars, call, timer>>
    BY <2>1, <2>2, <1>1 DEF schedVars, queueVars
  <2>3. CASE BlockOn(m, IF b THEN "mutex_acquire_timeout" ELSE "mutex_acquire", b)
    BY <2>1, <2>3, BlockMeetsSignal
  <2>4. QED BY <1>4, <2>2, <2>3 DEF MutexAcquire
<1>5. CASE DpcWait
  <2>1. UNCHANGED signalled
    BY <1>5 DEF DpcWait, objectVars
  <2>2. CASE UNCHANGED <<schedVars, call, timer>>
    BY <2>1, <2>2, <1>1 DEF schedVars, queueVars
  <2>3. CASE ~ signalled[DpcEvent] /\ BlockOn(DpcEvent, "event_wait", FALSE)
    BY <1>0, <2>1, <2>3, BlockMeetsSignal
  <2>4. QED BY <1>5, <2>2, <2>3 DEF DpcWait
<1>6. ASSUME NEW e \in Events, NEW b \in BOOLEAN, EventSignal(e, b) PROVE NoneMissed'
  BY <1>6, SignalMeetsWait DEF EventSignal
<1>7. ASSUME NEW e \in IrqEvents, DeviceSignals(e) PROVE NoneMissed'
  BY <1>7, SignalMeetsWait, KernelAssumption DEF DeviceSignals
<1>8. ASSUME NEW e \in Events, EventUnsignal(e) PROVE NoneMissed'
  BY <1>0, <1>8 DEF EventUnsignal, NoneMissed, schedVars, queueVars
<1>9. ASSUME NEW m \in Mutexes, MutexRelease(m) PROVE NoneMissed'
  <2> DEFINE woken == IF mcount[m] - 1 >= 1 THEN FirstOf(m) ELSE <<>>
  <2>1. /\ UNCHANGED signalled /\ m \in Objects /\ m \notin Events
        /\ LeaveQueue(m, woken, "ok") /\ woken \in {<<>>, FirstOf(m), waitq[m]}
    BY <1>9, ThreadsAssumption DEF MutexRelease, Objects, Wake
  <2> HIDE DEF woken
  <2>2. \A v \in Objects : v # m => waitq'[v] = waitq[v]
    BY <2>1, LeaveQueueEmpties
  <2>3. QED BY <2>1, <2>2 DEF NoneMissed, Objects
<1>10. ASSUME NEW w \in Objects, Destroy(w) PROVE NoneMissed'
  <2>1. /\ signalled' = [e \in Events |-> e # w /\ signalled[e]]
        /\ LeaveQueue(w, waitq[w], "destroyed")
    BY <1>10 DEF Destroy, Wake
  <2>2. \A v \in Objects : v # w => waitq'[v] = waitq[v]
    BY <2>1, LeaveQueueEmpties
  <2>3. QED BY <2>1, <2>2 DEF NoneMissed, Objects
<1>11. CASE DpcTake
  BY <1>0, <1>11 DEF DpcTake, NoneMissed, schedVars, queueVars
<1>12. ASSUME NEW t \in Threads, TimeoutFires(t) PROVE NoneMissed'
  <2>1. CASE UNCHANGED waitq
    BY <1>1, <1>12, <2>1 DEF TimeoutFires, objectVars
  <2>2. CASE state[t] = "blocked" /\ Unblock(t, "timed_out")
    <3>1. /\ UNCHANGED signalled /\ bwq[t] \in Objects
          /\ waitq' = [waitq EXCEPT ![bwq[t]] = RemoveFirst(@, t)]
      BY <1>12, <2>2 DEF TimeoutFires, objectVars, Unblock, QueueInv, Lists
    <3>2. On(t, waitq[bwq[t]])
      BY <2>2, <3>1 DEF QueueInv, Lists, WaitQueues
    <3>3. waitq[bwq[t]] # <<>>
      BY <3>2 DEF On
    <3>4. \A v \in Objects : v # bwq[t] => waitq'[v] = waitq[v]
      BY <1>0, <3>1
    <3>5. QED BY <3>1, <3>3, <3>4 DEF NoneMissed, Objects
  <2>3. QED BY <1>12, <2>1, <2>2 DEF TimeoutFires, queueVars
<1>13. CASE KmainDpcInit \/ KmainEnable \/ KmainBecomeIdle \/ KmainTimerInit
           \/ \E t \in InitialApps : KmainResume(t)
  BY <1>1, <1>13 DEF KmainDpcInit, KmainEnable, KmainBecomeIdle, KmainTimerInit, KmainResume,
        ResumeThread, YieldAt, schedVars, queueVars, objectVars
<1>14. CASE ThreadYield \/ ThreadSleep \/ ThreadBlock \/ Resume
           \/ (\E t \in Apps : ThreadCreate(t) \/ ThreadResume(t))
  BY <1>1, <1>14 DEF ThreadYield, ThreadSleep, ThreadBlock, Resume, ThreadCreate, ThreadResume,
        ResumeThread, YieldAt, queueVars, objectVars
<1>15. CASE DpcCleanup \/ IrqEnter("tick") \/ IrqEnter("device") \/ IrqInside \/ IrqExit
           \/ \E t \in Threads : SleepTimerFires(t)
  BY <1>1, <1>15 DEF DpcCleanup, IrqEnter, IrqInside, Interrupted, IrqExit, SleepTimerFires, Panic, Preempt,
        queueVars, objectVars
<1>16. CASE Halted \/ UNCHANGED vars
  BY <1>1, <1>16 DEF Halted, vars, schedVars, queueVars, objectVars
<1>17. QED
  BY <1>2, <1>3, <1>4, <1>5, <1>6, <1>7, <1>8, <1>9, <1>10, <1>11, <1>12, <1>13,
     <1>14, <1>15, <1>16 DEF Next

\* Nobody waits for an event that is signalled (event.c: event_wait looks at the flag and
\* joins the queue in one critical section, event_signal wakes before it leaves the flag
\* set), and no other call that wakes, times out or destroys breaks it, as long as the
\* section masks: an interrupt that a leaked one lets in between event.c:120 and the queue
\* ends what is claimed.
THEOREM NoSignalMissedHolds == Spec => []NoSignalMissed
<1>1. Init => NoneMissed
  BY DEF Init, NoneMissed, Objects
<1>2. NoneMissed => NoSignalMissed
  BY DEF NoneMissed, NoSignalMissed
<1>3. QED
  BY <1>1, <1>2, NoneMissedStep, QueueInvAlways, PTL DEF Spec

=============================================================================
