--------------------------- MODULE ServicesProofs ----------------------------
(***************************************************************************)
(* Two services the rest of the boot loader stands on.  The kernel's       *)
(* timers: the list is in order and each timer is called when it is due,   *)
(* for any timers and delays and across the wrap of the clock.  The log:   *)
(* the buffer holds what was printed, in order, for any size of it and any *)
(* number of characters, as long as no two print at once, and whoever does *)
(* leaves the preloader's log alone and the log switched on.               *)
(***************************************************************************)
EXTENDS TimerQueue, LogStore, SequenceTheorems, FiniteSetTheorems, WellFoundedInduction, TLAPS

---------------------------------------------------------------------------
(* The timers *)

\* From one tick to the next, at most.
Late == TickEvery + MaxLate

\* The time since the last tick came but one, at most.
Held == sinceTick + (IF tick = "none" THEN 0 ELSE Late)

\* In the list, or about to be put there.
Waiting(t) == Queued(t) \/ setting = t

\* What the variables hold.
TimersTypes ==
    /\ now \in 0 .. Word - 1 /\ sinceTick \in 0 .. Late
    /\ timerQueue \in Seq(Timers)
    /\ scheduledTime \in [Timers -> 0 .. Word - 1]
    /\ periodicTime \in [Timers -> Nat]
    /\ tick \in {"none", "loop", "callback"} /\ tickNow \in 0 .. Word - 1
    /\ firing \in Timers \cup {None} /\ wasPeriodic \in BOOLEAN /\ calls \in Nat
    /\ setting \in Timers \cup {None}
    /\ dueIn \in [Timers -> Int] /\ armed \in [Timers -> BOOLEAN]

\* A time the word can tell from those before now, until two ticks have passed.
Near(d) == d + MaxLate + 2 * Late < Half

\* What waits is due soon, and was due not long ago: TimersSound is not inductive without this,
\* for a time that is half a word away is taken for one that has passed.
TimersNear ==
    /\ \A t \in Timers : Near(dueIn[t])
    /\ \A t \in Timers : Near(periodicTime[t])
    /\ \A t \in Timers : Queued(t) => dueIn[t] + MaxLate + Held >= 0
    /\ setting # None => dueIn[setting] + MaxLate >= 0

\* The times of the structure are those of the history, as far as the word holds them.
TimersTrue ==
    /\ \A t \in Timers : Waiting(t) => scheduledTime[t] = (now + dueIn[t]) % Word
    /\ tick # "none" => now = (tickNow + sinceTick) % Word

\* A timer that is being set, or whose callback runs, is in the list only as it should be.
TimersApart ==
    /\ setting # None => ~Queued(setting) /\ armed[setting] /\ firing # setting
    /\ tick = "callback" <=> firing # None
    /\ tick = "callback" => (armed[firing] <=> (Queued(firing) \/ Requeue))

TimersInv == TimersTypes /\ TimersNear /\ TimersTrue /\ TimersApart /\ TimersSound

---------------------------------------------------------------------------
(* The word *)

\* The numbers of the word: a delay, how late a tick may be and two ticks are less than half of it.
LEMMA WordFacts ==
    /\ Half \in Nat /\ Late \in Nat /\ MaxLate \in Nat /\ Late >= 1
    /\ Word \in Nat \ {0} /\ Word = Half + Half
    /\ 1 + MaxLate + Late + Late < Half
<1>1. 1 + MaxLate + (2 * (TickEvery + MaxLate)) < Half
  BY TimersAssumption
<1>2. QED
  BY <1>1, TimersAssumption DEF Word, Late

\* A number is a multiple of the word and its remainder.
LEMMA WordDivides ==
    ASSUME NEW a \in Int
    PROVE  /\ a % Word \in 0 .. Word - 1
           /\ \E k \in Int : a = Word * k + (a % Word)
<1> HIDE DEF Word
<1>1. Word \in Nat \ {0}
  BY WordFacts
<1>2. a % Word \in 0 .. Word - 1
  BY <1>1
<1>3. a \div Word \in Int /\ a = Word * (a \div Word) + (a % Word)
  BY <1>1
<1>4. QED BY <1>2, <1>3

\* The remainder is unique.
LEMMA WordUnique ==
    ASSUME NEW a \in Int, NEW r \in 0 .. Word - 1, NEW k \in Int, a = Word * k + r
    PROVE  a % Word = r
<1> DEFINE W == Word
<1>1. W \in Nat \ {0}
  BY WordFacts
<1>2. PICK m \in Int : a = W * m + (a % W)
  BY WordDivides
<1>3. PICK s \in 0 .. W - 1 : s = a % W
  BY WordDivides
<1>4. r \in 0 .. W - 1 /\ a = W * k + r
  OBVIOUS
<1> HIDE DEF W
<1>5. ~ (k > m)
  <2> SUFFICES ASSUME k >= m + 1 PROVE FALSE
    OBVIOUS
  <2>1. W * k >= W * (m + 1)
    BY <1>1
  <2>2. W * (m + 1) = W * m + W
    BY <1>1
  <2>3. QED BY <2>1, <2>2, <1>1, <1>2, <1>3, <1>4
<1>6. ~ (m > k)
  <2> SUFFICES ASSUME m >= k + 1 PROVE FALSE
    OBVIOUS
  <2>1. W * m >= W * (k + 1)
    BY <1>1
  <2>2. W * (k + 1) = W * k + W
    BY <1>1
  <2>3. QED BY <2>1, <2>2, <1>1, <1>2, <1>3, <1>4
<1>7. k = m
  BY <1>5, <1>6
<1>8. a % W = r
  BY <1>1, <1>2, <1>3, <1>4, <1>7
<1>9. QED BY <1>8 DEF W

\* A remainder may be taken before or after a sum.
LEMMA WordAdds ==
    ASSUME NEW n \in Int, NEW m \in Int
    PROVE  ((n % Word) + m) % Word = (n + m) % Word
<1> DEFINE W == Word
<1>0. W \in Nat \ {0}
  BY WordFacts
<1>1. PICK k \in Int : n = W * k + (n % W)
  BY WordDivides
<1>2. PICK a \in 0 .. W - 1 : a = n % W
  BY WordDivides
<1>3. a + m \in Int
  BY <1>0
<1>4. PICK j \in Int : a + m = W * j + ((a + m) % W)
  BY WordDivides, <1>3
<1>5. PICK r \in 0 .. W - 1 : r = (a + m) % W
  BY WordDivides, <1>3
<1>6. n + m = W * (k + j) + r
  <2> HIDE DEF W
  <2>1. W * (k + j) = W * k + W * j
    BY <1>0
  <2>2. QED BY <2>1, <1>0, <1>1, <1>2, <1>4, <1>5
<1>7. (n + m) % W = r
  BY <1>6, WordUnique
<1>8. QED BY <1>2, <1>5, <1>7

\* A number of the word is its own remainder.
LEMMA WordSame ==
    ASSUME NEW n \in 0 .. Word - 1
    PROVE  n % Word = n
<1>1. n = Word * 0 + n
  BY WordFacts
<1>2. n \in Int
  BY WordFacts
<1>3. QED BY <1>1, <1>2, WordUnique

\* The sign of the difference of two times is right when they are less than half the word apart.
LEMMA DifferenceIs ==
    ASSUME NEW n \in Int, NEW x \in Int, NEW y \in Int, -Half <= x - y, x - y < Half
    PROVE  Difference((n + x) % Word, (n + y) % Word) = x - y
<1> DEFINE W == Word
           a == (n + x) % W
           b == (n + y) % W
           e == x - y
<1>0. W \in Nat \ {0} /\ Half \in Nat /\ W = Half + Half
  BY WordFacts
<1>1. PICK k \in Int : n + x = W * k + a
  BY WordDivides
<1>2. PICK m \in Int : n + y = W * m + b
  BY WordDivides
<1>3. a \in 0 .. W - 1 /\ b \in 0 .. W - 1
  BY WordDivides
<1>4. Difference(a, b) = IF (a - b) % W < Half THEN (a - b) % W ELSE ((a - b) % W) - W
  BY DEF Difference
<1> HIDE DEF a, b, W
<1>5. a - b = W * (m - k) + e
  <2>1. W * (m - k) = W * m - W * k
    BY <1>0
  <2>2. QED BY <2>1, <1>0, <1>1, <1>2, <1>3
<1>6. CASE e >= 0
  <2>1. (a - b) % W = e
    BY <1>0, <1>3, <1>5, <1>6, WordUnique DEF W
  <2>2. QED BY <2>1, <1>0, <1>4 DEF a, b, W
<1>7. CASE e < 0
  <2>1. a - b = W * ((m - k) - 1) + (e + W)
    <3>1. W * ((m - k) - 1) = W * (m - k) - W
      BY <1>0
    <3>2. QED BY <3>1, <1>0, <1>3, <1>5
  <2>2. (a - b) % W = e + W
    <3>1. e + W \in 0 .. W - 1 /\ (m - k) - 1 \in Int /\ a - b \in Int
      BY <1>0, <1>3, <1>7
    <3>2. QED BY <2>1, <3>1, WordUnique DEF W
  <2>3. QED BY <2>2, <1>0, <1>4, <1>7 DEF a, b, W
<1>8. QED BY <1>6, <1>7

---------------------------------------------------------------------------
(* The queue *)

\* Every set of naturals that is not empty has a least one.
LEMMA LeastOf ==
    ASSUME NEW S, S \subseteq Nat, S # {}
    PROVE  \E n \in S : \A k \in S : n <= k
<1> DEFINE R == {ss \in Nat \X Nat : ss[1] < ss[2]}
<1>1. IsWellFoundedOn(R, Nat)
  BY NatLessThanWellFounded DEF OpToRel
<1>2. \E n \in S : \A k \in S : ~ (<<k, n>> \in R)
  <2> HIDE DEF R
  <2> QED BY <1>1, WFMin
<1>3. PICK n \in S : \A k \in S : ~ (<<k, n>> \in R)
  BY <1>2
<1>4. \A k \in S : k < n => <<k, n>> \in R
  OBVIOUS
<1>5. \A k \in S : ~ (k < n)
  <2> HIDE DEF R
  <2> QED BY <1>3, <1>4
<1>6. QED
  BY <1>5


\* The prefix of a queue that a test picks, and its length.
LEMMA AheadFacts ==
    ASSUME NEW times, NEW t, timerQueue \in Seq(Timers)
    PROVE  /\ Ahead(t, times) \in 0 .. Len(timerQueue)
           /\ \A i \in 1 .. Ahead(t, times) : ~Later(times[timerQueue[i]], times[t])
           /\ Ahead(t, times) < Len(timerQueue) =>
                 Later(times[timerQueue[Ahead(t, times) + 1]], times[t])
<1> DEFINE L(i) == Later(times[timerQueue[i]], times[t])
           n == Len(timerQueue)
           P == {i \in DOMAIN timerQueue : \A j \in 1 .. i : ~L(j)}
<1>1. n \in Nat /\ DOMAIN timerQueue = 1 .. n
  OBVIOUS
<1>2. Ahead(t, times) = Cardinality(P)
  BY DEF Ahead
<1> HIDE DEF L, n
<1>3. IsFiniteSet(P) /\ P \subseteq 1 .. n
  <2>1. P \subseteq 1 .. n
    BY <1>1
  <2>2. IsFiniteSet(1 .. n)
    BY <1>1, FS_Interval
  <2>3. QED BY <2>1, <2>2, FS_Subset
<1>4. PICK k \in 0 .. n : P = 1 .. k /\ (k < n => L(k + 1))
  <2>1. CASE \E i \in 1 .. n : L(i)
    <3> DEFINE S == {i \in 1 .. n : L(i)}
    <3>1. S # {} /\ S \subseteq Nat
      BY <2>1
    <3>2. PICK m \in S : \A i \in S : m <= i
      <4> HIDE DEF S
      <4>1. QED BY <3>1, LeastOf
    <3>3. P = 1 .. (m - 1)
      BY <3>2, <1>1
    <3>4. m - 1 \in 0 .. n /\ L((m - 1) + 1)
      BY <3>2, <1>1
    <3>5. QED BY <3>3, <3>4
  <2>2. CASE ~ \E i \in 1 .. n : L(i)
    <3>1. P = 1 .. n
      BY <2>2, <1>1
    <3>2. QED BY <3>1, <1>1
  <2>3. QED BY <2>1, <2>2
<1>5. Cardinality(P) = k
  <2>1. Cardinality(1 .. k) = k
    BY <1>1, <1>4, FS_Interval
  <2>2. QED BY <1>4, <2>1
<1>6. \A i \in 1 .. k : ~L(i)
  <2>1. \A i \in 1 .. k : i \in P /\ i \in 1 .. i
    BY <1>4
  <2>2. QED BY <2>1
<1> HIDE DEF P
<1>7. QED
  BY <1>2, <1>4, <1>5, <1>6 DEF L, n

\* What the queue is after a timer was put behind the first k.
LEMMA InsertFacts ==
    ASSUME NEW q \in Seq(Timers), IsInjective(q), NEW t \in Timers, t \notin Range(q), NEW k \in 0 .. Len(q)
    PROVE  /\ InsertAt(q, k + 1, t) \in Seq(Timers)
           /\ Len(InsertAt(q, k + 1, t)) = Len(q) + 1
           /\ \A i \in 1 .. k : InsertAt(q, k + 1, t)[i] = q[i]
           /\ InsertAt(q, k + 1, t)[k + 1] = t
           /\ \A i \in k + 2 .. Len(q) + 1 : InsertAt(q, k + 1, t)[i] = q[i - 1]
           /\ \A u : u \in Range(InsertAt(q, k + 1, t)) <=> u \in Range(q) \/ u = t
           /\ IsInjective(InsertAt(q, k + 1, t))
<1> DEFINE n == Len(q)
           a == SubSeq(q, 1, k)
           b == SubSeq(q, k + 1, Len(q))
           r == InsertAt(q, k + 1, t)
<1>1. /\ k \in Nat /\ n \in Nat /\ k <= n /\ (k + 1) - 1 = k /\ DOMAIN q = 1 .. n
      /\ \A i \in 1 .. n : q[i] \in Timers
  OBVIOUS
<1>2. /\ a \in Seq(Timers) /\ Len(a) = k
      /\ \A i \in 1 .. k : a[i] = q[i]
  BY <1>1
<1>3. /\ b \in Seq(Timers) /\ Len(b) = n - k
      /\ \A i \in 1 .. (n - k) : b[i] = q[k + i]
  <2>1. k \in Int /\ 0 <= k /\ Len(q) \in Nat /\ k <= Len(q)
    OBVIOUS
  <2>2. /\ b \in Seq(Timers)
        /\ Len(b) = Len(q) - k
        /\ \A i \in 1 .. (Len(q) - k) : b[i] = q[k + i]
    OBVIOUS
  <2>3. QED BY <2>2
<1>4. r = (a \o <<t>>) \o b
  BY <1>1 DEF InsertAt
<1>5. /\ <<t>> \in Seq(Timers) /\ Len(<<t>>) = 1 /\ <<t>>[1] = t
  OBVIOUS
<1>6. \A i, j \in 1 .. n : q[i] = q[j] => i = j
  BY <1>1 DEF IsInjective
<1>7. \A i \in 1 .. n : q[i] # t
  BY <1>1 DEF Range
<1> DEFINE c == a \o <<t>>
<1>8. /\ c \in Seq(Timers) /\ Len(c) = k + 1
      /\ \A i \in 1 .. k + 1 : c[i] = IF i <= k THEN a[i] ELSE t
  <2>1. /\ c \in Seq(Timers) /\ Len(c) = Len(a) + Len(<<t>>)
        /\ \A i \in 1 .. Len(a) + Len(<<t>>) : c[i] = IF i <= Len(a) THEN a[i] ELSE <<t>>[i - Len(a)]
    BY <1>2, <1>5, ConcatProperties
  <2>2. \A i \in 1 .. k + 1 : ~(i <= k) => i - k = 1
    BY <1>1
  <2>3. QED BY <2>1, <2>2, <1>1, <1>2, <1>5
<1> HIDE DEF a, b, c, r, n
<1>9. /\ r \in Seq(Timers) /\ Len(r) = n + 1
      /\ \A i \in 1 .. n + 1 : r[i] = IF i <= k + 1 THEN c[i] ELSE b[i - (k + 1)]
  <2>1. /\ r \in Seq(Timers) /\ Len(r) = Len(c) + Len(b)
        /\ \A i \in 1 .. Len(c) + Len(b) : r[i] = IF i <= Len(c) THEN c[i] ELSE b[i - Len(c)]
    BY <1>3, <1>4, <1>8, ConcatProperties DEF c
  <2>2. Len(c) + Len(b) = n + 1
    BY <1>1, <1>3, <1>8
  <2>3. QED BY <2>1, <2>2, <1>8
<1>10. \A i \in 1 .. k : r[i] = q[i]
  BY <1>1, <1>2, <1>8, <1>9
<1>11. r[k + 1] = t
  BY <1>1, <1>8, <1>9
<1>12. ASSUME NEW i \in k + 2 .. n + 1 PROVE r[i] = q[i - 1]
  <2>1. i - (k + 1) \in 1 .. (n - k) /\ k + (i - (k + 1)) = i - 1 /\ i \in 1 .. n + 1 /\ ~(i <= k + 1)
    BY <1>1
  <2>2. QED BY <2>1, <1>3, <1>9
<1> DEFINE from(i) == IF i <= k THEN i ELSE i - 1
<1>13. \A i \in 1 .. n + 1 : i # k + 1 => from(i) \in 1 .. n /\ r[i] = q[from(i)]
  <2> SUFFICES ASSUME NEW i \in 1 .. n + 1, i # k + 1 PROVE from(i) \in 1 .. n /\ r[i] = q[from(i)]
    OBVIOUS
  <2>1. CASE i <= k
    BY <2>1, <1>1, <1>10
  <2>2. CASE ~(i <= k)
    <3>1. i \in k + 2 .. n + 1 /\ i - 1 \in 1 .. n
      BY <2>2, <1>1
    <3>2. QED BY <3>1, <2>2, <1>12
  <2>3. QED BY <2>1, <2>2
<1>14. \A i, j \in 1 .. n + 1 : i # k + 1 /\ j # k + 1 /\ from(i) = from(j) => i = j
  BY <1>1
<1>15. \A m \in 1 .. n : \E i \in 1 .. n + 1 : i # k + 1 /\ from(i) = m
  <2> SUFFICES ASSUME NEW m \in 1 .. n PROVE \E i \in 1 .. n + 1 : i # k + 1 /\ from(i) = m
    OBVIOUS
  <2>1. CASE m <= k
    <3>1. m \in 1 .. n + 1 /\ m # k + 1 /\ from(m) = m
      BY <2>1, <1>1
    <3>2. QED BY <3>1
  <2>2. CASE ~(m <= k)
    <3>1. m + 1 \in 1 .. n + 1 /\ m + 1 # k + 1 /\ from(m + 1) = m
      BY <2>2, <1>1
    <3>2. QED BY <3>1
  <2>3. QED BY <2>1, <2>2
<1> HIDE DEF from
<1>16. DOMAIN r = 1 .. n + 1 /\ k + 1 \in 1 .. n + 1
  BY <1>1, <1>9
<1>17. \A u : u \in Range(r) <=> u \in Range(q) \/ u = t
  <2>1. ASSUME NEW u, u \in Range(r) PROVE u \in Range(q) \/ u = t
    <3>1. PICK i \in 1 .. n + 1 : r[i] = u
      BY <2>1, <1>16 DEF Range
    <3>2. QED BY <3>1, <1>1, <1>11, <1>13 DEF Range
  <2>2. ASSUME NEW u, u \in Range(q) PROVE u \in Range(r)
    <3>1. PICK m \in 1 .. n : q[m] = u
      BY <2>2, <1>1 DEF Range
    <3>2. PICK i \in 1 .. n + 1 : i # k + 1 /\ from(i) = m
      BY <1>15
    <3>3. QED BY <3>1, <3>2, <1>13, <1>16 DEF Range
  <2>3. t \in Range(r)
    BY <1>11, <1>16 DEF Range
  <2>4. QED BY <2>1, <2>2, <2>3
<1>18. IsInjective(r)
  <2> SUFFICES ASSUME NEW i \in 1 .. n + 1, NEW j \in 1 .. n + 1, r[i] = r[j] PROVE i = j
    BY <1>16 DEF IsInjective
  <2>1. CASE i = k + 1 \/ j = k + 1
    BY <2>1, <1>7, <1>11, <1>13
  <2>2. CASE i # k + 1 /\ j # k + 1
    BY <2>2, <1>6, <1>13, <1>14
  <2>3. QED BY <2>1, <2>2
<1>19. QED
  BY <1>9, <1>10, <1>11, <1>12, <1>17, <1>18 DEF n, r

\* What the queue is after a timer on it was taken off.
LEMMA RemoveFacts ==
    ASSUME NEW q \in Seq(Timers), IsInjective(q), NEW t
    PROVE  /\ RemoveFirst(q, t) \in Seq(Timers)
           /\ \A u : u \in Range(RemoveFirst(q, t)) <=> u \in Range(q) /\ u # t
           /\ IsInjective(RemoveFirst(q, t))
           /\ \A i, j \in DOMAIN RemoveFirst(q, t) : i < j =>
                 \E k, m \in DOMAIN q : k < m /\ RemoveFirst(q, t)[i] = q[k] /\ RemoveFirst(q, t)[j] = q[m]
<1> DEFINE n == Len(q)
<1>1. n \in Nat /\ DOMAIN q = 1 .. n
  OBVIOUS
<1>2. \A i, j \in 1 .. n : q[i] = q[j] => i = j
  BY <1>1 DEF IsInjective
<1>3. CASE ~ \E i \in 1 .. Len(q) : q[i] = t
  <2>1. RemoveFirst(q, t) = q
    BY <1>3 DEF RemoveFirst
  <2>2. t \notin Range(q)
    BY <1>1, <1>3 DEF Range
  <2>3. QED BY <2>1, <2>2
<1>4. CASE \E i \in 1 .. Len(q) : q[i] = t
  <2>1. PICK i \in 1 .. n : q[i] = t
    BY <1>4
  <2>2. {j \in 1 .. Len(q) : q[j] = t} = {i}
    BY <1>2, <2>1
  <2>3. Min({i}) = i
    BY <1>1, <2>1 DEF Min
  <2> DEFINE r == RemoveAt(q, i)
             a == SubSeq(q, 1, i - 1)
             b == SubSeq(q, i + 1, Len(q))
  <2>4. RemoveFirst(q, t) = r
    BY <2>1, <2>2, <2>3 DEF RemoveFirst, SelectInSeq
  <2>5. /\ a \in Seq(Timers) /\ Len(a) = i - 1
        /\ \A j \in 1 .. (i - 1) : a[j] = q[j]
    BY <1>1, <2>1
  <2>6. /\ b \in Seq(Timers) /\ Len(b) = n - i
        /\ \A j \in 1 .. (n - i) : b[j] = q[i + j]
    <3>1. /\ b \in Seq(Timers) /\ Len(b) = Len(q) - i
          /\ \A j \in 1 .. (Len(q) - i) : b[j] = q[i + j]
      BY <2>1
    <3>2. QED BY <3>1
  <2>7. r = a \o b
    BY DEF RemoveAt
  <2>8. i \in Int /\ 1 <= i /\ i <= n
    BY <1>1, <2>1
  <2> HIDE DEF a, b, r, n
  <2> DEFINE from(j) == IF j < i THEN j ELSE j + 1
  <2>9. /\ r \in Seq(Timers) /\ Len(r) = n - 1
        /\ \A j \in 1 .. (n - 1) : from(j) \in 1 .. n /\ from(j) # i /\ r[j] = q[from(j)]
    <3>1. /\ r \in Seq(Timers) /\ Len(r) = Len(a) + Len(b)
          /\ \A j \in 1 .. Len(a) + Len(b) : r[j] = IF j <= Len(a) THEN a[j] ELSE b[j - Len(a)]
      BY <2>5, <2>6, <2>7, ConcatProperties
    <3>2. Len(a) + Len(b) = n - 1
      BY <2>5, <2>6, <2>8, <1>1
    <3>3. ASSUME NEW j \in 1 .. (n - 1)
          PROVE from(j) \in 1 .. n /\ from(j) # i /\ r[j] = q[from(j)]
      <4>1. CASE j < i
        BY <4>1, <3>1, <3>2, <2>5, <2>8, <1>1
      <4>2. CASE ~(j < i)
        <5>1. j - (i - 1) \in 1 .. (n - i) /\ i + (j - (i - 1)) = j + 1 /\ ~(j <= i - 1)
          BY <4>2, <2>8, <1>1
        <5>2. r[j] = b[j - (i - 1)]
          BY <5>1, <3>1, <3>2, <2>5
        <5>3. QED BY <5>1, <5>2, <4>2, <2>6, <2>8, <1>1
      <4>3. QED BY <4>1, <4>2
    <3>4. QED BY <3>1, <3>2, <3>3
  <2>10. \A j, k \in 1 .. (n - 1) : j < k => from(j) < from(k)
    BY <2>8, <1>1
  <2>11. \A m \in 1 .. n : m # i => \E j \in 1 .. (n - 1) : from(j) = m
    <3> SUFFICES ASSUME NEW m \in 1 .. n, m # i PROVE \E j \in 1 .. (n - 1) : from(j) = m
      OBVIOUS
    <3>1. CASE m < i
      <4>1. m \in 1 .. (n - 1) /\ from(m) = m
        BY <3>1, <2>8, <1>1
      <4>2. QED BY <4>1
    <3>2. CASE ~(m < i)
      <4>1. m - 1 \in 1 .. (n - 1) /\ from(m - 1) = m
        BY <3>2, <2>8, <1>1
      <4>2. QED BY <4>1
    <3>3. QED BY <3>1, <3>2
  <2>12. DOMAIN r = 1 .. (n - 1)
    BY <2>9
  <2> HIDE DEF from
  <2>13. \A j, k \in 1 .. (n - 1) : r[j] = r[k] => j = k
    <3> SUFFICES ASSUME NEW j \in 1 .. (n - 1), NEW k \in 1 .. (n - 1), r[j] = r[k] PROVE j = k
      OBVIOUS
    <3>1. from(j) = from(k) /\ from(j) \in 1 .. n
      BY <2>9, <1>2
    <3>2. j \in Int /\ k \in Int /\ from(j) \in Int
      BY <3>1, <1>1
    <3>3. ~(j < k) /\ ~(k < j)
      BY <3>1, <3>2, <2>10
    <3>4. QED BY <3>2, <3>3
  <2>14. IsInjective(r)
    BY <2>12, <2>13 DEF IsInjective
  <2>15. \A u : u \in Range(r) <=> u \in Range(q) /\ u # t
    <3>1. ASSUME NEW u, u \in Range(r) PROVE u \in Range(q) /\ u # t
      <4>1. PICK j \in 1 .. (n - 1) : r[j] = u
        BY <3>1, <2>12 DEF Range
      <4>2. from(j) \in 1 .. n /\ from(j) # i /\ u = q[from(j)]
        BY <4>1, <2>9
      <4>3. QED BY <4>2, <1>1, <1>2, <2>1 DEF Range
    <3>2. ASSUME NEW u, u \in Range(q), u # t PROVE u \in Range(r)
      <4>1. PICK m \in 1 .. n : q[m] = u
        BY <3>2, <1>1 DEF Range
      <4>2. PICK j \in 1 .. (n - 1) : from(j) = m
        BY <4>1, <3>2, <2>1, <2>11
      <4>3. QED BY <4>1, <4>2, <2>9, <2>12 DEF Range
    <3>3. QED BY <3>1, <3>2
  <2>16. ASSUME NEW j \in 1 .. (n - 1), NEW k \in 1 .. (n - 1), j < k
         PROVE  \E l, m \in DOMAIN q : l < m /\ r[j] = q[l] /\ r[k] = q[m]
    <3>1. /\ from(j) \in 1 .. n /\ from(k) \in 1 .. n /\ from(j) < from(k)
          /\ r[j] = q[from(j)] /\ r[k] = q[from(k)]
      BY <2>9, <2>10, <2>16
    <3>2. QED BY <3>1, <1>1
  <2>17. QED
    BY <2>4, <2>9, <2>12, <2>14, <2>15, <2>16
<1>5. QED
  BY <1>3, <1>4

\* The first timer taken off.
LEMMA TailFacts ==
    ASSUME NEW q \in Seq(Timers), IsInjective(q), q # <<>>
    PROVE  /\ Head(q) \in Timers /\ Head(q) \in Range(q) /\ Head(q) = q[1] /\ 1 \in DOMAIN q
           /\ Tail(q) \in Seq(Timers)
           /\ \A u : u \in Range(Tail(q)) <=> u \in Range(q) /\ u # Head(q)
           /\ IsInjective(Tail(q))
           /\ \A i, j \in DOMAIN Tail(q) : i < j =>
                 \E k, m \in DOMAIN q : k < m /\ Tail(q)[i] = q[k] /\ Tail(q)[j] = q[m]
<1> DEFINE r == Tail(q)
<1>1. /\ Len(q) \in Nat /\ Len(q) >= 1 /\ DOMAIN q = 1 .. Len(q) /\ Head(q) = q[1]
      /\ r \in Seq(Timers) /\ DOMAIN r = 1 .. (Len(q) - 1)
      /\ \A i \in 1 .. (Len(q) - 1) : r[i] = q[i + 1]
  OBVIOUS
<1> DEFINE n == Len(q)
<1> HIDE DEF r, n
<1>2. /\ n \in Nat /\ n >= 1 /\ DOMAIN q = 1 .. n /\ Head(q) = q[1]
      /\ DOMAIN r = 1 .. (n - 1)
      /\ \A i \in 1 .. (n - 1) : i + 1 \in 1 .. n /\ i + 1 # 1 /\ r[i] = q[i + 1]
  BY <1>1 DEF n
<1>3. \A i, j \in 1 .. n : q[i] = q[j] => i = j
  BY <1>2 DEF IsInjective
<1>4. 1 \in 1 .. n /\ q[1] \in Timers /\ q[1] \in Range(q)
  BY <1>2 DEF Range
<1>5. \A u : u \in Range(r) <=> u \in Range(q) /\ u # q[1]
  <2>1. ASSUME NEW u, u \in Range(r) PROVE u \in Range(q) /\ u # q[1]
    <3>1. PICK i \in 1 .. (n - 1) : u = q[i + 1] /\ i + 1 \in 1 .. n /\ i + 1 # 1
      BY <2>1, <1>2 DEF Range
    <3>2. QED BY <3>1, <1>2, <1>3, <1>4 DEF Range
  <2>2. ASSUME NEW u, u \in Range(q), u # q[1] PROVE u \in Range(r)
    <3>1. PICK m \in 1 .. n : u = q[m]
      BY <2>2, <1>2 DEF Range
    <3>2. m - 1 \in 1 .. (n - 1) /\ (m - 1) + 1 = m
      BY <3>1, <2>2, <1>2
    <3>3. r[m - 1] = u
      BY <3>1, <3>2, <1>2
    <3>4. QED BY <3>2, <3>3, <1>2 DEF Range
  <2>3. QED BY <2>1, <2>2
<1>6. IsInjective(r)
  <2> SUFFICES ASSUME NEW i \in 1 .. (n - 1), NEW j \in 1 .. (n - 1), r[i] = r[j] PROVE i = j
    BY <1>2 DEF IsInjective
  <2>1. i + 1 = j + 1
    BY <1>2, <1>3
  <2>2. QED BY <2>1, <1>2
<1>7. ASSUME NEW i \in 1 .. (n - 1), NEW j \in 1 .. (n - 1), i < j
      PROVE  \E k, m \in DOMAIN q : k < m /\ r[i] = q[k] /\ r[j] = q[m]
  <2>1. i + 1 \in 1 .. n /\ j + 1 \in 1 .. n /\ i + 1 < j + 1
    BY <1>2, <1>7
  <2>2. QED BY <2>1, <1>2
<1>8. QED
  <2>1. \A i, j \in DOMAIN r : i < j => \E k, m \in DOMAIN q : k < m /\ r[i] = q[k] /\ r[j] = q[m]
    BY <1>2, <1>7
  <2>2. r \in Seq(Timers) /\ Head(q) = q[1] /\ 1 \in DOMAIN q
    BY <1>1, <1>2, <1>4
  <2>3. \A u : u \in Range(r) <=> u \in Range(q) /\ u # Head(q)
    BY <1>5, <2>2
  <2>4. QED BY <2>1, <2>2, <2>3, <1>4, <1>6 DEF r

\* In the order they are due.
Ordered(q, due) == \A i, j \in DOMAIN q : i < j => due[q[i]] <= due[q[j]]

\* Times are compared as their true values are, as long as they are near.
LEMMA NearTimes ==
    ASSUME NEW n \in Int, NEW x \in Int, NEW y \in Int, NEW h \in Int, h <= Late + Late,
           Near(x), Near(y), x + MaxLate + h >= 0, y + MaxLate + h >= 0
    PROVE  Later((n + x) % Word, (n + y) % Word) <=> x > y
<1>1. -Half <= x - y /\ x - y < Half
  BY WordFacts DEF Near
<1>2. Difference((n + x) % Word, (n + y) % Word) = x - y
  BY <1>1, DifferenceIs
<1>3. QED
  BY <1>2 DEF Later

\* How long ago the time the tick works with may be.
LEMMA HeldFacts ==
    ASSUME TimersTypes
    PROVE  Held \in Nat /\ sinceTick \in Nat /\ sinceTick <= Held /\ Held <= Late + Late /\ Near(0)
BY WordFacts DEF TimersTypes, Held, Near

\* A timer put in the queue by insert_timer_in_queue.
LEMMA InsertKeeps ==
    ASSUME TimersInv,
           NEW t \in Timers, ~Queued(t),
           NEW times \in [Timers -> 0 .. Word - 1], NEW due \in [Timers -> Int],
           \A u \in Timers : u # t => times[u] = scheduledTime[u] /\ due[u] = dueIn[u],
           times[t] = (now + due[t]) % Word, Near(due[t]), due[t] + MaxLate + Held >= 0,
           timerQueue' = InsertAt(timerQueue, Ahead(t, times) + 1, t)
    PROVE  /\ timerQueue' \in Seq(Timers)
           /\ IsInjective(timerQueue')
           /\ \A u : u \in Range(timerQueue') <=> u \in Range(timerQueue) \/ u = t
           /\ Ordered(timerQueue', due)
<1> DEFINE q == timerQueue
           n == Len(q)
<1>1. /\ q \in Seq(Timers) /\ n \in Nat /\ DOMAIN q = 1 .. n /\ IsInjective(q)
      /\ t \notin Range(q)
      /\ \A i \in 1 .. n : q[i] \in Timers /\ q[i] \in Range(q)
  <2>1. q \in Seq(Timers) /\ IsInjective(q) /\ t \notin Range(q)
    BY DEF TimersInv, TimersTypes, TimersSound, QueuedWhenArmed, Queued
  <2>2. n \in Nat /\ DOMAIN q = 1 .. n
    BY <2>1
  <2>3. \A i \in 1 .. n : q[i] \in Timers /\ q[i] \in Range(q)
    BY <2>1, <2>2 DEF Range
  <2>4. QED BY <2>1, <2>2, <2>3
<1>2. PICK k \in 0 .. n :
        /\ k = Ahead(t, times)
        /\ \A i \in 1 .. k : ~Later(times[q[i]], times[t])
        /\ k < n => Later(times[q[k + 1]], times[t])
  BY <1>1, AheadFacts
<1>3. \A i \in 1 .. n : due[q[i]] \in Int /\ (Later(times[q[i]], times[t]) <=> due[q[i]] > due[t])
  <2> SUFFICES ASSUME NEW i \in 1 .. n
               PROVE  due[q[i]] \in Int /\ (Later(times[q[i]], times[t]) <=> due[q[i]] > due[t])
    OBVIOUS
  <2>1. q[i] \in Timers /\ q[i] \in Range(q) /\ q[i] # t
    BY <1>1
  <2>2. times[q[i]] = (now + due[q[i]]) % Word /\ Near(due[q[i]]) /\ due[q[i]] + MaxLate + Held >= 0
    BY <2>1 DEF TimersInv, TimersTrue, TimersNear, Waiting, Queued
  <2>3. now \in Int /\ Held \in Int /\ Held <= Late + Late
    <3>1. TimersTypes
      BY DEF TimersInv
    <3>2. Held \in Nat /\ Held <= Late + Late
      BY <3>1, HeldFacts
    <3>3. now \in Int
      BY <3>1, WordFacts DEF TimersTypes
    <3>4. QED BY <3>2, <3>3
  <2>4. due[q[i]] \in Int /\ due[t] \in Int
    BY <2>1
  <2>5. Later((now + due[q[i]]) % Word, (now + due[t]) % Word) <=> due[q[i]] > due[t]
    BY <2>2, <2>3, <2>4, NearTimes
  <2>6. QED BY <2>2, <2>4, <2>5
<1>4. \A i, j \in 1 .. n : i < j => due[q[i]] <= due[q[j]]
  BY <1>1 DEF TimersInv, TimersSound, TimersInOrder
<1> DEFINE r == InsertAt(q, k + 1, t)
<1>5. /\ r \in Seq(Timers) /\ Len(r) = n + 1
      /\ \A i \in 1 .. k : r[i] = q[i]
      /\ r[k + 1] = t
      /\ \A i \in k + 2 .. n + 1 : r[i] = q[i - 1]
      /\ \A u : u \in Range(r) <=> u \in Range(q) \/ u = t
      /\ IsInjective(r)
  <2>1. q \in Seq(Timers) /\ IsInjective(q) /\ t \notin Range(q) /\ k \in 0 .. Len(q)
    BY <1>1, <1>2
  <2>2. QED BY <2>1, InsertFacts
<1>6. timerQueue' = r
  BY <1>2
<1>7. due[t] \in Int
  OBVIOUS
<1> HIDE DEF q, n, r
<1>8. \A i \in 1 .. k : i \in 1 .. n /\ due[q[i]] <= due[t]
  <2> SUFFICES ASSUME NEW i \in 1 .. k PROVE i \in 1 .. n /\ due[q[i]] <= due[t]
    OBVIOUS
  <2>1. i \in 1 .. n
    BY <1>1, <1>2
  <2>2. due[q[i]] \in Int /\ ~(due[t] < due[q[i]])
    BY <1>2, <1>3, <2>1
  <2>3. QED BY <1>7, <2>1, <2>2
<1>9. \A i \in k + 1 .. n : i \in 1 .. n /\ due[t] <= due[q[i]]
  <2> SUFFICES ASSUME NEW i \in k + 1 .. n PROVE i \in 1 .. n /\ due[t] <= due[q[i]]
    OBVIOUS
  <2>1. k < n /\ k + 1 \in 1 .. n /\ i \in 1 .. n /\ (i = k + 1 \/ k + 1 < i)
    BY <1>1, <1>2
  <2>2. due[t] < due[q[k + 1]]
    BY <2>1, <1>2, <1>3, <1>7
  <2>3. due[q[k + 1]] <= due[q[i]]
    BY <2>1, <1>3, <1>4
  <2>4. QED BY <2>1, <2>2, <2>3, <1>3, <1>7
<1>10. Ordered(r, due)
  <2>0. k \in Int /\ 0 <= k /\ k <= n /\ n \in Int
    BY <1>1, <1>2
  <2>1. SUFFICES ASSUME NEW i \in 1 .. n + 1, NEW j \in 1 .. n + 1, i < j
                 PROVE  due[r[i]] <= due[r[j]]
    BY <1>5 DEF Ordered
  <2>2. CASE j <= k
    <3>1. i \in 1 .. k /\ j \in 1 .. k /\ i \in 1 .. n /\ j \in 1 .. n
      BY <2>0, <2>1, <2>2
    <3>2. QED BY <3>1, <2>1, <1>4, <1>5
  <2>3. CASE j = k + 1
    <3>1. i \in 1 .. k
      BY <2>0, <2>1, <2>3
    <3>2. QED BY <3>1, <2>3, <1>5, <1>8
  <2>4. CASE j > k + 1
    <3>1. j \in k + 2 .. n + 1 /\ j - 1 \in k + 1 .. n
      BY <2>0, <2>1, <2>4
    <3>2. r[j] = q[j - 1] /\ due[t] <= due[q[j - 1]] /\ j - 1 \in 1 .. n
      BY <3>1, <1>5, <1>9
    <3>3. CASE i <= k
      <4>1. i \in 1 .. k
        BY <2>0, <2>1, <3>3
      <4>2. r[i] = q[i] /\ i \in 1 .. n /\ due[q[i]] <= due[t]
        BY <4>1, <1>5, <1>8
      <4>3. QED BY <4>2, <3>2, <1>3, <1>7
    <3>4. CASE i = k + 1
      BY <3>2, <3>4, <1>5
    <3>5. CASE i > k + 1
      <4>1. i \in k + 2 .. n + 1 /\ i - 1 \in k + 1 .. n /\ i - 1 < j - 1
        BY <2>0, <2>1, <3>5
      <4>2. r[i] = q[i - 1] /\ i - 1 \in 1 .. n
        BY <4>1, <1>5, <1>9
      <4>3. QED BY <4>1, <4>2, <3>2, <1>4
    <3>6. QED BY <3>3, <3>4, <3>5, <2>0, <2>1
  <2>5. QED BY <2>2, <2>3, <2>4, <2>0, <2>1
<1>11. QED
  BY <1>5, <1>6, <1>10 DEF q

---------------------------------------------------------------------------
(* The steps *)

\* A delay timer_set is called with is near, and not 0.
LEMMA DelayFacts ==
    ASSUME NEW d \in Delays
    PROVE  Delay(d) \in Nat \ {0} /\ Near(Delay(d))
<1>1. Delay(d) \in Nat \ {0} /\ Delay(d) \in Delays \cup {1}
  BY TimersAssumption DEF Delay
<1>2. Delay(d) + MaxLate + (2 * (TickEvery + MaxLate)) < Half
  BY <1>1, TimersAssumption
<1>3. QED BY <1>1, <1>2 DEF Near, Late

\* What SetFields leaves.
LEMMA SetFieldsFacts ==
    ASSUME TimersInv, NEW t \in Timers, NEW d \in Delays, NEW periodic \in BOOLEAN,
           SetFields(t, Delay(d), IF periodic THEN Delay(d) ELSE 0)
    PROVE  /\ scheduledTime' \in [Timers -> 0 .. Word - 1]
           /\ periodicTime' \in [Timers -> Nat]
           /\ dueIn' \in [Timers -> Int]
           /\ armed' \in [Timers -> BOOLEAN]
           /\ scheduledTime'[t] = (now + dueIn'[t]) % Word
           /\ dueIn'[t] \in Nat
           /\ armed'[t]
           /\ \A u \in Timers : Near(dueIn'[u]) /\ Near(periodicTime'[u])
           /\ \A u \in Timers : u # t => /\ scheduledTime'[u] = scheduledTime[u]
                                         /\ periodicTime'[u] = periodicTime[u]
                                         /\ dueIn'[u] = dueIn[u]
                                         /\ armed'[u] = armed[u]
<1>1. Delay(d) \in Nat /\ Near(Delay(d)) /\ Near(0)
  BY DelayFacts, WordFacts DEF Near
<1>2. PICK p \in Nat : p = (IF periodic THEN Delay(d) ELSE 0) /\ Near(p)
  BY <1>1
<1>3. PICK e \in Nat : e = Delay(d) /\ Near(e)
  BY <1>1
<1>4. PICK w \in 0 .. Word - 1 : w = (now + e) % Word
  <2>1. now + e \in Int
    BY WordFacts DEF TimersInv, TimersTypes
  <2>2. QED BY <2>1, WordDivides
<1>5. /\ scheduledTime' = [scheduledTime EXCEPT ![t] = w]
      /\ periodicTime' = [periodicTime EXCEPT ![t] = p]
      /\ dueIn' = [dueIn EXCEPT ![t] = e]
      /\ armed' = [armed EXCEPT ![t] = TRUE]
  BY <1>2, <1>3, <1>4 DEF SetFields
<1>6. /\ scheduledTime \in [Timers -> 0 .. Word - 1]
      /\ periodicTime \in [Timers -> Nat]
      /\ dueIn \in [Timers -> Int]
      /\ armed \in [Timers -> BOOLEAN]
      /\ \A u \in Timers : Near(dueIn[u]) /\ Near(periodicTime[u])
  BY DEF TimersInv, TimersTypes, TimersNear
<1>7. /\ scheduledTime' \in [Timers -> 0 .. Word - 1]
      /\ periodicTime' \in [Timers -> Nat]
      /\ dueIn' \in [Timers -> Int]
      /\ armed' \in [Timers -> BOOLEAN]
  BY <1>5, <1>6
<1>8. scheduledTime'[t] = w /\ dueIn'[t] = e /\ periodicTime'[t] = p /\ armed'[t]
  BY <1>5, <1>6
<1>9. \A u \in Timers : u # t => /\ scheduledTime'[u] = scheduledTime[u]
                                 /\ periodicTime'[u] = periodicTime[u]
                                 /\ dueIn'[u] = dueIn[u]
                                 /\ armed'[u] = armed[u]
  BY <1>5, <1>6
<1>10. \A u \in Timers : Near(dueIn'[u]) /\ Near(periodicTime'[u])
  BY <1>2, <1>3, <1>6, <1>8, <1>9
<1>11. QED
  BY <1>3, <1>4, <1>7, <1>8, <1>9, <1>10

\* The order in terms of the positions, as TimersInOrder has it.
LEMMA OrderIs ==
    ASSUME TimersInv
    PROVE  Ordered(timerQueue, dueIn) /\ IsInjective(timerQueue) /\ timerQueue \in Seq(Timers)
BY DEF TimersInv, TimersTypes, TimersSound, TimersInOrder, QueuedWhenArmed, Ordered

\* set_delay of a thread, up to the list: the timer is armed and in nobody's way.
LEMMA ThreadSetsKeeps ==
    ASSUME TimersInv, NEW t \in Timers, NEW d \in Delays, NEW periodic \in BOOLEAN,
           ThreadSets(t, d, periodic)
    PROVE  TimersInv'
<1>1. /\ tick = "none" /\ setting = None /\ ~Queued(t) /\ setting' = t
      /\ SetFields(t, Delay(d), IF periodic THEN Delay(d) ELSE 0)
      /\ UNCHANGED <<now, sinceTick, tick, tickNow, firing, wasPeriodic, calls, timerQueue>>
  BY DEF ThreadSets, tickVars
<1>2. /\ scheduledTime' \in [Timers -> 0 .. Word - 1]
      /\ periodicTime' \in [Timers -> Nat]
      /\ dueIn' \in [Timers -> Int]
      /\ armed' \in [Timers -> BOOLEAN]
      /\ scheduledTime'[t] = (now + dueIn'[t]) % Word
      /\ dueIn'[t] \in Nat
      /\ armed'[t]
      /\ \A u \in Timers : Near(dueIn'[u]) /\ Near(periodicTime'[u])
      /\ \A u \in Timers : u # t => /\ scheduledTime'[u] = scheduledTime[u]
                                    /\ periodicTime'[u] = periodicTime[u]
                                    /\ dueIn'[u] = dueIn[u]
                                    /\ armed'[u] = armed[u]
  BY <1>1, SetFieldsFacts
<1>3. t # None
  BY TimersAssumption
<1>4. TimersTypes'
  BY <1>1, <1>2 DEF TimersInv, TimersTypes
<1>5. \A u : Queued(u)' <=> Queued(u)
  BY <1>1 DEF Queued
<1>6. TimersNear'
  <2>1. \A u \in Timers : Queued(u) => u # t /\ dueIn'[u] = dueIn[u]
    BY <1>1, <1>2
  <2>2. Held' = Held
    BY <1>1 DEF Held
  <2>3. dueIn'[t] + MaxLate >= 0
    BY <1>2, WordFacts
  <2>4. QED BY <1>1, <1>2, <1>5, <2>1, <2>2, <2>3 DEF TimersInv, TimersNear
<1>7. TimersTrue'
  <2>1. \A u \in Timers : Waiting(u)' => u = t \/ Waiting(u)
    BY <1>1, <1>5 DEF Waiting
  <2>2. QED BY <1>1, <1>2, <2>1 DEF TimersInv, TimersTrue
<1>8. TimersApart'
  <2>1. firing = None
    BY <1>1 DEF TimersInv, TimersApart
  <2>2. QED BY <1>1, <1>2, <1>3, <1>5, <2>1 DEF TimersInv, TimersApart
<1>9. TimersSound'
  <2>1. \A i \in DOMAIN timerQueue : timerQueue[i] \in Timers /\ timerQueue[i] # t
    <3>1. timerQueue \in Seq(Timers)
      BY OrderIs
    <3>2. QED BY <1>1, <3>1 DEF Queued, Range
  <2>2. \A i \in DOMAIN timerQueue : dueIn'[timerQueue[i]] = dueIn[timerQueue[i]]
    BY <1>2, <2>1
  <2>3. TimersInOrder'
    <3>1. \A i, j \in DOMAIN timerQueue : i < j => dueIn'[timerQueue[i]] <= dueIn'[timerQueue[j]]
      BY <2>2, OrderIs DEF Ordered
    <3>2. QED BY <1>1, <3>1 DEF TimersInOrder
  <2>4. QueuedWhenArmed'
    <3>1. \A u \in Timers : u \notin {t, firing} => (Queued(u)' <=> armed'[u])
      <4>1. \A u \in Timers : u \notin {setting, firing} => (Queued(u) <=> armed[u])
        BY DEF TimersInv, TimersSound, QueuedWhenArmed
      <4>2. \A u \in Timers : u # setting
        BY <1>1, TimersAssumption
      <4>3. QED BY <1>2, <1>5, <4>1, <4>2
    <3>2. IsInjective(timerQueue)
      BY OrderIs
    <3>3. QED BY <1>1, <3>1, <3>2 DEF QueuedWhenArmed
  <2>5. QED BY <2>3, <2>4 DEF TimersSound
<1>10. QED
  BY <1>4, <1>6, <1>7, <1>8, <1>9 DEF TimersInv

\* The thread puts its timer into the list, where the time has moved on since.
LEMMA ThreadInsertsKeeps ==
    ASSUME TimersInv, ThreadInserts PROVE TimersInv'
<1>1. /\ tick = "none" /\ setting # None /\ setting \in Timers /\ setting' = None
      /\ timerQueue' = InsertAt(timerQueue, Ahead(setting, scheduledTime) + 1, setting)
      /\ UNCHANGED <<now, sinceTick, dueIn, scheduledTime, periodicTime, armed,
                     tick, tickNow, firing, wasPeriodic, calls>>
  BY DEF ThreadInserts, Insert, timeVars, fieldVars, tickVars, TimersInv, TimersTypes
<1>2. ~Queued(setting) /\ armed[setting] /\ firing = None
  BY <1>1 DEF TimersInv, TimersApart
<1>3. /\ scheduledTime[setting] = (now + dueIn[setting]) % Word
      /\ Near(dueIn[setting])
      /\ dueIn[setting] + MaxLate + Held >= 0
  <2>1. Waiting(setting)
    BY DEF Waiting
  <2>2. dueIn[setting] + MaxLate >= 0 /\ Near(dueIn[setting]) /\ dueIn[setting] \in Int
    BY <1>1 DEF TimersInv, TimersNear, TimersTypes
  <2>3. Held \in Nat
    BY HeldFacts DEF TimersInv
  <2>4. QED BY <1>1, <2>1, <2>2, <2>3, WordFacts DEF TimersInv, TimersTrue
<1>4. /\ timerQueue' \in Seq(Timers)
      /\ IsInjective(timerQueue')
      /\ \A u : u \in Range(timerQueue') <=> u \in Range(timerQueue) \/ u = setting
      /\ Ordered(timerQueue', dueIn)
  <2>1. scheduledTime \in [Timers -> 0 .. Word - 1] /\ dueIn \in [Timers -> Int]
    BY DEF TimersInv, TimersTypes
  <2>2. QED BY <1>1, <1>2, <1>3, <2>1, InsertKeeps
<1>5. \A u : Queued(u)' <=> Queued(u) \/ u = setting
  BY <1>4 DEF Queued
<1>6. TimersTypes'
  BY <1>1, <1>4 DEF TimersInv, TimersTypes
<1>7. TimersNear'
  <2>1. Held' = Held
    BY <1>1 DEF Held
  <2>2. QED BY <1>1, <1>3, <1>5, <2>1 DEF TimersInv, TimersNear
<1>8. TimersTrue'
  <2>1. setting' \notin Timers
    BY <1>1, TimersAssumption
  <2>2. \A u \in Timers : Waiting(u)' => Waiting(u)
    BY <1>5, <2>1 DEF Waiting
  <2>3. QED BY <1>1, <2>2 DEF TimersInv, TimersTrue
<1>9. TimersApart'
  BY <1>1, <1>2 DEF TimersInv, TimersApart
<1>10. TimersSound'
  <2>1. TimersInOrder'
    BY <1>1, <1>4 DEF TimersInOrder, Ordered
  <2>2. \A u \in Timers : u \notin {None, None} => (Queued(u)' <=> armed[u])
    BY <1>1, <1>2, <1>5 DEF TimersInv, TimersSound, QueuedWhenArmed
  <2>3. QueuedWhenArmed'
    BY <1>1, <1>2, <1>4, <2>2 DEF QueuedWhenArmed
  <2>4. QED BY <2>1, <2>3 DEF TimersSound
<1>11. QED
  BY <1>6, <1>7, <1>8, <1>9, <1>10 DEF TimersInv

\* timer_cancel, by the thread and by a callback.
LEMMA CancelKeeps ==
    ASSUME TimersInv, NEW t \in Timers, setting # t, Cancel(t),
           UNCHANGED <<tick, tickNow, firing, wasPeriodic, setting>>, calls' \in Nat,
           tick = "callback" /\ calls' = 0 => calls = 0
    PROVE  TimersInv'
<1>1. /\ timerQueue' = RemoveFirst(timerQueue, t)
      /\ scheduledTime' = [scheduledTime EXCEPT ![t] = 0]
      /\ periodicTime' = [periodicTime EXCEPT ![t] = 0]
      /\ armed' = [armed EXCEPT ![t] = FALSE]
      /\ UNCHANGED <<now, sinceTick, dueIn>>
  BY DEF Cancel
<1>2. /\ timerQueue' \in Seq(Timers)
      /\ \A u : u \in Range(timerQueue') <=> u \in Range(timerQueue) /\ u # t
      /\ IsInjective(timerQueue')
      /\ \A i, j \in DOMAIN timerQueue' : i < j =>
            \E k, m \in DOMAIN timerQueue : k < m /\ timerQueue'[i] = timerQueue[k] /\ timerQueue'[j] = timerQueue[m]
  BY <1>1, OrderIs, RemoveFacts
<1>3. \A u : Queued(u)' <=> Queued(u) /\ u # t
  BY <1>2 DEF Queued
<1>4. /\ scheduledTime' \in [Timers -> 0 .. Word - 1]
      /\ periodicTime' \in [Timers -> Nat]
      /\ armed' \in [Timers -> BOOLEAN]
      /\ periodicTime'[t] = 0 /\ ~armed'[t]
      /\ \A u \in Timers : u # t => /\ scheduledTime'[u] = scheduledTime[u]
                                    /\ periodicTime'[u] = periodicTime[u]
                                    /\ armed'[u] = armed[u]
  <2>1. 0 \in 0 .. Word - 1
    BY WordFacts
  <2>2. QED BY <1>1, <2>1 DEF TimersInv, TimersTypes
<1>5. TimersTypes'
  BY <1>1, <1>2, <1>4 DEF TimersInv, TimersTypes
<1>6. TimersNear'
  <2>1. Held' = Held
    BY <1>1 DEF Held
  <2>2. Near(0)
    BY HeldFacts DEF TimersInv
  <2>3. \A u \in Timers : Near(periodicTime'[u])
    BY <1>4, <2>2 DEF TimersInv, TimersNear
  <2>4. QED BY <1>1, <1>3, <2>1, <2>3 DEF TimersInv, TimersNear
<1>7. TimersTrue'
  <2>1. \A u \in Timers : Waiting(u)' => u # t /\ Waiting(u)
    BY <1>3 DEF Waiting
  <2>2. QED BY <1>1, <1>4, <2>1 DEF TimersInv, TimersTrue
<1>8. TimersApart'
  <2>1. setting # None => ~Queued(setting)' /\ armed'[setting] /\ firing # setting
    BY <1>3, <1>4 DEF TimersInv, TimersApart, TimersTypes
  <2>2. tick = "callback" <=> firing # None
    BY DEF TimersInv, TimersApart
  <2>3. ASSUME tick = "callback" PROVE armed'[firing] <=> (Queued(firing)' \/ Requeue')
    <3>1. firing \in Timers /\ (armed[firing] <=> (Queued(firing) \/ Requeue))
      BY <2>2, <2>3 DEF TimersInv, TimersApart, TimersTypes
    <3>2. Requeue' <=> wasPeriodic /\ ~Queued(firing)' /\ periodicTime'[firing] > 0
      BY DEF Requeue, Queued
    <3>3. CASE firing = t
      BY <3>2, <3>3, <1>3, <1>4
    <3>4. CASE firing # t
      <4>1. Requeue' <=> Requeue
        BY <3>1, <3>2, <3>4, <1>3, <1>4 DEF Requeue
      <4>2. QED BY <3>1, <3>4, <4>1, <1>3, <1>4
    <3>5. QED BY <3>3, <3>4
  <2>4. QED BY <2>1, <2>2, <2>3 DEF TimersApart, Queued
<1>9. TimersSound'
  <2>1. Ordered(timerQueue', dueIn)
    BY <1>2, OrderIs DEF Ordered
  <2>2. TimersInOrder'
    <3>1. tick = "callback" /\ calls' = 0 => dueIn[firing] <= 0
      BY DEF TimersInv, TimersSound, TimersInOrder
    <3>2. QED BY <1>1, <2>1, <3>1 DEF TimersInOrder, Ordered
  <2>3. \A u \in Timers : u \notin {setting, firing} => (Queued(u)' <=> armed'[u])
    BY <1>3, <1>4 DEF TimersInv, TimersSound, QueuedWhenArmed
  <2>4. QueuedWhenArmed'
    BY <1>2, <2>3 DEF QueuedWhenArmed
  <2>5. QED BY <2>2, <2>4 DEF TimersSound
<1>10. QED
  BY <1>5, <1>6, <1>7, <1>8, <1>9 DEF TimersInv

\* timer_cancel of a thread, which an interrupt cannot cut in two.
LEMMA ThreadCancelsKeeps ==
    ASSUME TimersInv, NEW t \in Timers, ThreadCancels(t) PROVE TimersInv'
<1>1. /\ setting # t /\ Cancel(t)
      /\ UNCHANGED <<tick, tickNow, firing, wasPeriodic, setting>>
      /\ calls' = calls
  BY TimersAssumption DEF ThreadCancels, tickVars
<1>2. calls \in Nat
  BY DEF TimersInv, TimersTypes
<1>3. QED BY <1>1, <1>2, CancelKeeps

\* timer_cancel of a callback, of its own timer too: it is not put back.
LEMMA CallbackCancelsKeeps ==
    ASSUME TimersInv, NEW t \in Timers, CallbackCancels(t) PROVE TimersInv'
<1>1. /\ setting # t /\ Cancel(t)
      /\ UNCHANGED <<tick, tickNow, firing, wasPeriodic, setting>>
      /\ calls' = calls + 1
  BY DEF CallbackCancels
<1>2. calls \in Nat
  BY DEF TimersInv, TimersTypes
<1>3. calls' \in Nat /\ calls' # 0
  BY <1>1, <1>2
<1>4. QED BY <1>1, <1>3, CancelKeeps

\* A callback sets a timer, its own or another's.
LEMMA CallbackSetsKeeps ==
    ASSUME TimersInv, NEW t \in Timers, NEW d \in Delays, NEW periodic \in BOOLEAN,
           CallbackSets(t, d, periodic)
    PROVE  TimersInv'
<1>1. /\ tick = "callback" /\ ~Queued(t) /\ setting # t
      /\ SetFields(t, Delay(d), IF periodic THEN Delay(d) ELSE 0)
      /\ timerQueue' = InsertAt(timerQueue, Ahead(t, scheduledTime') + 1, t)
      /\ calls' = calls + 1
      /\ UNCHANGED <<now, sinceTick, tick, tickNow, firing, wasPeriodic, setting>>
  BY DEF CallbackSets
<1>2. /\ scheduledTime' \in [Timers -> 0 .. Word - 1]
      /\ periodicTime' \in [Timers -> Nat]
      /\ dueIn' \in [Timers -> Int]
      /\ armed' \in [Timers -> BOOLEAN]
      /\ scheduledTime'[t] = (now + dueIn'[t]) % Word
      /\ dueIn'[t] \in Nat
      /\ armed'[t]
      /\ \A u \in Timers : Near(dueIn'[u]) /\ Near(periodicTime'[u])
      /\ \A u \in Timers : u # t => /\ scheduledTime'[u] = scheduledTime[u]
                                    /\ periodicTime'[u] = periodicTime[u]
                                    /\ dueIn'[u] = dueIn[u]
                                    /\ armed'[u] = armed[u]
  BY <1>1, SetFieldsFacts
<1>3. dueIn'[t] + MaxLate + Held >= 0 /\ Held' = Held
  <2>1. Held \in Nat
    BY HeldFacts DEF TimersInv
  <2>2. QED BY <1>1, <1>2, <2>1, WordFacts DEF Held
<1>4. /\ timerQueue' \in Seq(Timers)
      /\ IsInjective(timerQueue')
      /\ \A u : u \in Range(timerQueue') <=> u \in Range(timerQueue) \/ u = t
      /\ Ordered(timerQueue', dueIn')
  <2>1. PICK times \in [Timers -> 0 .. Word - 1] : times = scheduledTime'
    BY <1>2
  <2>2. PICK due \in [Timers -> Int] : due = dueIn'
    BY <1>2
  <2>3. /\ \A u \in Timers : u # t => times[u] = scheduledTime[u] /\ due[u] = dueIn[u]
        /\ times[t] = (now + due[t]) % Word /\ Near(due[t]) /\ due[t] + MaxLate + Held >= 0
        /\ timerQueue' = InsertAt(timerQueue, Ahead(t, times) + 1, t)
    BY <1>1, <1>2, <1>3, <2>1, <2>2
  <2>4. /\ timerQueue' \in Seq(Timers)
        /\ IsInjective(timerQueue')
        /\ \A u : u \in Range(timerQueue') <=> u \in Range(timerQueue) \/ u = t
        /\ Ordered(timerQueue', due)
    BY <1>1, <2>3, InsertKeeps
  <2>5. QED BY <2>2, <2>4
<1>5. \A u : Queued(u)' <=> Queued(u) \/ u = t
  BY <1>4 DEF Queued
<1>6. TimersTypes'
  <2>1. calls' \in Nat
    BY <1>1 DEF TimersInv, TimersTypes
  <2>2. QED BY <1>1, <1>2, <1>4, <2>1 DEF TimersInv, TimersTypes
<1>7. TimersNear'
  <2>1. \A u \in Timers : Queued(u)' => dueIn'[u] + MaxLate + Held' >= 0
    BY <1>2, <1>3, <1>5 DEF TimersInv, TimersNear
  <2>2. setting # None => setting \in Timers /\ dueIn'[setting] + MaxLate >= 0
    BY <1>1, <1>2 DEF TimersInv, TimersNear, TimersTypes
  <2>3. QED BY <1>1, <1>2, <2>1, <2>2 DEF TimersNear
<1>8. TimersTrue'
  <2>1. \A u \in Timers : Waiting(u)' => u = t \/ Waiting(u)
    BY <1>1, <1>5 DEF Waiting
  <2>2. QED BY <1>1, <1>2, <2>1 DEF TimersInv, TimersTrue
<1>9. TimersApart'
  <2>1. setting # None => ~Queued(setting)' /\ armed'[setting] /\ firing # setting
    BY <1>1, <1>2, <1>5 DEF TimersInv, TimersApart, TimersTypes
  <2>2. firing \in Timers /\ firing # None /\ (armed[firing] <=> (Queued(firing) \/ Requeue))
    BY <1>1, TimersAssumption DEF TimersInv, TimersApart, TimersTypes
  <2>3. armed'[firing] <=> (Queued(firing)' \/ Requeue')
    <3>1. Requeue' <=> wasPeriodic /\ ~Queued(firing)' /\ periodicTime'[firing] > 0
      BY <1>1 DEF Requeue, Queued
    <3>2. CASE firing = t
      BY <3>2, <1>1, <1>2, <1>5
    <3>3. CASE firing # t
      <4>1. Requeue' <=> Requeue
        BY <2>2, <3>1, <3>3, <1>1, <1>2, <1>5 DEF Requeue
      <4>2. QED BY <2>2, <3>3, <4>1, <1>1, <1>2, <1>5
    <3>4. QED BY <3>2, <3>3
  <2>4. QED BY <1>1, <2>1, <2>2, <2>3 DEF TimersApart, Queued
<1>10. TimersSound'
  <2>1. TimersInOrder'
    <3>1. calls' # 0
      BY <1>1 DEF TimersInv, TimersTypes
    <3>2. QED BY <1>4, <3>1 DEF TimersInOrder, Ordered
  <2>2. \A u \in Timers : u \notin {setting, firing} => (Queued(u)' <=> armed'[u])
    BY <1>2, <1>5 DEF TimersInv, TimersSound, QueuedWhenArmed
  <2>3. QueuedWhenArmed'
    BY <1>1, <1>4, <2>2 DEF QueuedWhenArmed
  <2>4. QED BY <2>1, <2>3 DEF TimersSound
<1>11. QED
  BY <1>6, <1>7, <1>8, <1>9, <1>10 DEF TimersInv

\* One unit of time.
LEMMA TimePassesKeeps ==
    ASSUME TimersInv, TimePasses PROVE TimersInv'
<1>1. /\ sinceTick < TickEvery + MaxLate
      /\ setting # None => dueIn[setting] > -MaxLate
      /\ now' = (now + 1) % Word
      /\ sinceTick' = sinceTick + 1
      /\ dueIn' = [t \in Timers |-> IF Waiting(t) THEN dueIn[t] - 1 ELSE 0]
      /\ UNCHANGED <<scheduledTime, periodicTime, armed, tick, tickNow, firing, wasPeriodic, calls, timerQueue, setting>>
  BY DEF TimePasses, fieldVars, tickVars, Waiting
<1>2. /\ now \in Int /\ sinceTick \in Nat /\ dueIn \in [Timers -> Int]
      /\ Held \in Nat /\ Near(0) /\ MaxLate \in Nat
      /\ \A t \in Timers : dueIn[t] \in Int /\ Near(dueIn[t])
  BY HeldFacts, WordFacts DEF TimersInv, TimersTypes, TimersNear
<1>3. Held' = Held + 1
  <2>1. (IF tick = "none" THEN 0 ELSE Late) \in Nat
    BY WordFacts
  <2>2. QED BY <1>1, <1>2, <2>1 DEF Held
<1>4. /\ dueIn' \in [Timers -> Int]
      /\ \A t \in Timers : /\ Waiting(t) => dueIn'[t] = dueIn[t] - 1
                           /\ ~Waiting(t) => dueIn'[t] = 0
  <2>1. \A t \in Timers : (IF Waiting(t) THEN dueIn[t] - 1 ELSE 0) \in Int
    BY <1>2
  <2>2. QED BY <1>1, <2>1
<1>5. \A u : (Queued(u)' <=> Queued(u)) /\ (Waiting(u)' <=> Waiting(u))
  BY <1>1 DEF Queued, Waiting
<1>6. TimersTypes'
  <2>1. now' \in 0 .. Word - 1
    BY <1>1, <1>2, WordDivides
  <2>2. sinceTick' \in 0 .. Late
    BY <1>1, <1>2, WordFacts DEF Late
  <2>3. QED BY <1>1, <1>4, <2>1, <2>2 DEF TimersInv, TimersTypes
<1>7. TimersNear'
  <2>1. \A t \in Timers : Near(dueIn'[t])
    BY <1>2, <1>4, WordFacts DEF Near
  <2>2. \A t \in Timers : Queued(t) => dueIn'[t] + MaxLate + Held' >= 0
    <3> SUFFICES ASSUME NEW t \in Timers, Queued(t) PROVE dueIn'[t] + MaxLate + Held' >= 0
      OBVIOUS
    <3>1. dueIn'[t] = dueIn[t] - 1 /\ dueIn[t] + MaxLate + Held >= 0
      BY <1>4 DEF Waiting, TimersInv, TimersNear
    <3>2. QED BY <3>1, <1>2, <1>3
  <2>3. setting # None => dueIn'[setting] + MaxLate >= 0
    <3> SUFFICES ASSUME setting # None PROVE dueIn'[setting] + MaxLate >= 0
      OBVIOUS
    <3>1. setting \in Timers /\ Waiting(setting)
      BY DEF TimersInv, TimersTypes, Waiting
    <3>2. dueIn'[setting] = dueIn[setting] - 1 /\ dueIn[setting] > -MaxLate /\ dueIn[setting] \in Int
      BY <3>1, <1>1, <1>2, <1>4
    <3>3. QED BY <3>2, <1>2
  <2>4. QED BY <1>1, <1>5, <2>1, <2>2, <2>3 DEF TimersInv, TimersNear
<1>8. TimersTrue'
  <2>1. ASSUME NEW t \in Timers, Waiting(t) PROVE scheduledTime[t] = (now' + dueIn'[t]) % Word
    <3>1. scheduledTime[t] = (now + dueIn[t]) % Word /\ dueIn'[t] = dueIn[t] - 1 /\ dueIn[t] \in Int
      BY <2>1, <1>2, <1>4 DEF TimersInv, TimersTrue
    <3>2. (((now + 1) % Word) + (dueIn[t] - 1)) % Word = ((now + 1) + (dueIn[t] - 1)) % Word
      <4>1. now + 1 \in Int /\ dueIn[t] - 1 \in Int
        BY <1>2, <3>1
      <4>2. QED BY <4>1, WordAdds
    <3>3. (now + 1) + (dueIn[t] - 1) = now + dueIn[t]
      BY <1>2, <3>1
    <3>4. QED BY <1>1, <3>1, <3>2, <3>3
  <2>2. ASSUME tick # "none" PROVE now' = (tickNow + sinceTick') % Word
    <3>1. now = (tickNow + sinceTick) % Word /\ tickNow \in Int
      BY <2>2, WordFacts DEF TimersInv, TimersTrue, TimersTypes
    <3>2. (((tickNow + sinceTick) % Word) + 1) % Word = ((tickNow + sinceTick) + 1) % Word
      <4>1. tickNow + sinceTick \in Int
        BY <1>2, <3>1
      <4>2. QED BY <4>1, WordAdds
    <3>3. (tickNow + sinceTick) + 1 = tickNow + (sinceTick + 1)
      BY <1>2, <3>1
    <3>4. QED BY <1>1, <3>1, <3>2, <3>3
  <2>3. QED BY <1>1, <1>5, <2>1, <2>2 DEF TimersTrue
<1>9. TimersApart'
  <2>1. Requeue' <=> Requeue
    BY <1>1, <1>5 DEF Requeue, Queued
  <2>2. QED BY <1>1, <1>5, <2>1 DEF TimersInv, TimersApart, Queued
<1>10. TimersSound'
  <2>1. Ordered(timerQueue, dueIn')
    <3> SUFFICES ASSUME NEW i \in DOMAIN timerQueue, NEW j \in DOMAIN timerQueue, i < j
                 PROVE  dueIn'[timerQueue[i]] <= dueIn'[timerQueue[j]]
      BY DEF Ordered
    <3>1. dueIn[timerQueue[i]] <= dueIn[timerQueue[j]]
      BY OrderIs DEF Ordered
    <3>2. /\ timerQueue[i] \in Timers /\ Waiting(timerQueue[i])
          /\ timerQueue[j] \in Timers /\ Waiting(timerQueue[j])
      BY OrderIs DEF Waiting, Queued, Range
    <3>3. /\ dueIn'[timerQueue[i]] = dueIn[timerQueue[i]] - 1 /\ dueIn[timerQueue[i]] \in Int
          /\ dueIn'[timerQueue[j]] = dueIn[timerQueue[j]] - 1 /\ dueIn[timerQueue[j]] \in Int
      BY <3>2, <1>2, <1>4
    <3>4. QED BY <3>1, <3>3
  <2>2. ASSUME tick = "callback", calls = 0 PROVE dueIn'[firing] <= 0
    <3>1. firing \in Timers /\ dueIn[firing] <= 0 /\ dueIn[firing] \in Int
      BY <2>2, <1>2 DEF TimersInv, TimersTypes, TimersApart, TimersSound, TimersInOrder
    <3>2. QED BY <3>1, <1>4
  <2>3. TimersInOrder'
    BY <1>1, <2>1, <2>2 DEF TimersInOrder, Ordered
  <2>4. QueuedWhenArmed'
    BY <1>1, <1>5 DEF TimersInv, TimersSound, QueuedWhenArmed
  <2>5. QED BY <2>3, <2>4 DEF TimersSound
<1>11. QED
  BY <1>6, <1>7, <1>8, <1>9, <1>10 DEF TimersInv

\* timer_tick reads the clock once.
LEMMA TickBeginsKeeps ==
    ASSUME TimersInv, TickBegins PROVE TimersInv'
<1>1. /\ tick = "none" /\ tick' = "loop" /\ tickNow' = now /\ sinceTick' = 0
      /\ UNCHANGED <<now, dueIn, scheduledTime, periodicTime, armed, firing, wasPeriodic, calls, timerQueue, setting>>
  BY DEF TickBegins, fieldVars
<1>2. /\ Held' = Late /\ Held = sinceTick /\ Held \in Nat /\ Held <= Late
      /\ MaxLate \in Nat /\ Late \in Nat /\ now \in 0 .. Word - 1 /\ now \in Int
  BY <1>1, WordFacts DEF Held, TimersInv, TimersTypes
<1>3. \A u : (Queued(u)' <=> Queued(u)) /\ (Waiting(u)' <=> Waiting(u))
  BY <1>1 DEF Queued, Waiting
<1>4. TimersTypes'
  BY <1>1, <1>2 DEF TimersInv, TimersTypes
<1>5. TimersNear'
  <2>1. \A t \in Timers : Queued(t) => dueIn[t] + MaxLate + Held' >= 0
    BY <1>2 DEF TimersInv, TimersNear, TimersTypes
  <2>2. QED BY <1>1, <1>3, <2>1 DEF TimersInv, TimersNear
<1>6. TimersTrue'
  <2>1. now = (now + 0) % Word
    BY <1>2, WordSame
  <2>2. QED BY <1>1, <1>3, <2>1 DEF TimersInv, TimersTrue
<1>7. TimersApart'
  BY <1>1, <1>3 DEF TimersInv, TimersApart
<1>8. TimersSound'
  BY <1>1, <1>3 DEF TimersInv, TimersSound, TimersInOrder, QueuedWhenArmed
<1>9. QED
  BY <1>4, <1>5, <1>6, <1>7, <1>8 DEF TimersInv

\* The time since the tick began, and how the tick sees a timer on the queue.
LEMMA TickFacts ==
    ASSUME TimersInv, tick # "none"
    PROVE  /\ Difference(now, tickNow) = sinceTick
           /\ \A t \in Timers : Queued(t) =>
                 (Earlier(tickNow, scheduledTime[t]) <=> sinceTick + dueIn[t] > 0)
<1>1. /\ now = (tickNow + sinceTick) % Word
      /\ tickNow \in 0 .. Word - 1 /\ tickNow \in Int
      /\ sinceTick \in Nat /\ sinceTick <= Late
  BY WordFacts DEF TimersInv, TimersTypes, TimersTrue
<1>0. PICK zero \in Int : zero = 0
  OBVIOUS
<1>2. tickNow = (tickNow + zero) % Word
  <2>1. tickNow + zero = tickNow
    BY <1>0, <1>1
  <2>2. QED BY <1>1, <2>1, WordSame
<1>3. Difference(now, tickNow) = sinceTick
  <2>1. -Half <= sinceTick - zero /\ sinceTick - zero < Half
    BY <1>0, <1>1, WordFacts
  <2>2. Difference((tickNow + sinceTick) % Word, (tickNow + zero) % Word) = sinceTick - zero
    <3>1. tickNow \in Int /\ sinceTick \in Int
      BY <1>1
    <3>2. QED BY <2>1, <3>1, DifferenceIs
  <2>3. QED BY <1>0, <1>1, <1>2, <2>2
<1>4. ASSUME NEW t \in Timers, Queued(t)
      PROVE  Earlier(tickNow, scheduledTime[t]) <=> sinceTick + dueIn[t] > 0
  <2>1. PICK e \in Int : e = dueIn[t]
    BY DEF TimersInv, TimersTypes
  <2>2. scheduledTime[t] = (now + e) % Word
    BY <1>4, <2>1 DEF TimersInv, TimersTrue, Waiting
  <2>3. (((tickNow + sinceTick) % Word) + e) % Word = ((tickNow + sinceTick) + e) % Word
    <3>1. tickNow + sinceTick \in Int
      BY <1>1
    <3>2. QED BY <3>1, WordAdds
  <2>4. (tickNow + sinceTick) + e = tickNow + (sinceTick + e)
    BY <1>1
  <2>5. scheduledTime[t] = (tickNow + (sinceTick + e)) % Word
    BY <1>1, <2>2, <2>3, <2>4
  <2>6. Near(e) /\ e + MaxLate + Held >= 0
    BY <1>4, <2>1 DEF TimersInv, TimersNear
  <2>7. Held = sinceTick + Late
    BY DEF Held
  <2>8. -Half <= zero - (sinceTick + e) /\ zero - (sinceTick + e) < Half
    BY <1>0, <1>1, <2>6, <2>7, WordFacts DEF Near
  <2>9. Difference((tickNow + zero) % Word, (tickNow + (sinceTick + e)) % Word) = zero - (sinceTick + e)
    <3>1. sinceTick + e \in Int
      BY <1>1
    <3>2. QED BY <1>1, <2>8, <3>1, DifferenceIs
  <2>10. Difference(tickNow, scheduledTime[t]) = zero - (sinceTick + e)
    BY <1>2, <2>5, <2>9
  <2>11. QED BY <1>0, <1>1, <2>1, <2>10 DEF Earlier
<1>5. QED
  BY <1>3, <1>4

\* The head of the list is due, and leaves it before its callback runs.
LEMMA TickFiresKeeps ==
    ASSUME TimersInv, TickFires PROVE TimersInv'
<1>0. timerQueue # <<>>
  BY DEF TickFires
<1> PICK h \in Timers : h = Head(timerQueue)
  BY <1>0, OrderIs, TailFacts
<1>1. /\ tick = "loop" /\ timerQueue # <<>> /\ ~Earlier(tickNow, scheduledTime[h])
      /\ firing' = h /\ wasPeriodic' = (periodicTime[h] > 0)
      /\ timerQueue' = Tail(timerQueue)
      /\ scheduledTime' = [scheduledTime EXCEPT ![h] = 0]
      /\ armed' = [armed EXCEPT ![h] = wasPeriodic']
      /\ tick' = "callback" /\ calls' = 0
      /\ UNCHANGED <<now, sinceTick, dueIn, periodicTime, tickNow, setting>>
  BY DEF TickFires, timeVars
<1>2. /\ h \in Timers /\ h \in Range(timerQueue)
      /\ timerQueue' \in Seq(Timers)
      /\ \A u : u \in Range(timerQueue') <=> u \in Range(timerQueue) /\ u # h
      /\ IsInjective(timerQueue')
      /\ \A i, j \in DOMAIN timerQueue' : i < j =>
            \E k, m \in DOMAIN timerQueue : k < m /\ timerQueue'[i] = timerQueue[k] /\ timerQueue'[j] = timerQueue[m]
  BY <1>1, OrderIs, TailFacts
<1>3. /\ Queued(h) /\ h # None /\ h # setting /\ firing = None
      /\ wasPeriodic' \in BOOLEAN
  BY <1>1, <1>2, TimersAssumption DEF Queued, TimersInv, TimersApart
<1>4. \A u : Queued(u)' <=> Queued(u) /\ u # h
  BY <1>2 DEF Queued
<1>5. /\ scheduledTime' \in [Timers -> 0 .. Word - 1]
      /\ armed' \in [Timers -> BOOLEAN]
      /\ armed'[h] = wasPeriodic'
      /\ \A u \in Timers : u # h => scheduledTime'[u] = scheduledTime[u] /\ armed'[u] = armed[u]
  <2>1. 0 \in 0 .. Word - 1
    BY WordFacts
  <2>2. QED BY <1>1, <1>2, <1>3, <2>1 DEF TimersInv, TimersTypes
<1>6. dueIn[h] <= 0
  <2>1. ~(sinceTick + dueIn[h] > 0)
    BY <1>1, <1>2, <1>3, TickFacts
  <2>2. sinceTick \in Nat /\ dueIn[h] \in Int
    BY <1>2, WordFacts DEF TimersInv, TimersTypes
  <2>3. QED BY <2>1, <2>2
<1>7. TimersTypes'
  BY <1>1, <1>2, <1>3, <1>5 DEF TimersInv, TimersTypes
<1>8. TimersNear'
  <2>1. Held' = Held
    BY <1>1 DEF Held
  <2>2. QED BY <1>1, <1>4, <2>1 DEF TimersInv, TimersNear
<1>9. TimersTrue'
  <2>1. \A u \in Timers : Waiting(u)' => u # h /\ Waiting(u)
    BY <1>1, <1>3, <1>4 DEF Waiting
  <2>2. QED BY <1>1, <1>5, <2>1 DEF TimersInv, TimersTrue
<1>10. TimersApart'
  <2>1. setting # None => ~Queued(setting)' /\ armed'[setting] /\ h # setting
    BY <1>1, <1>3, <1>4, <1>5 DEF TimersInv, TimersApart, TimersTypes
  <2>2. Requeue' <=> wasPeriodic' /\ ~Queued(h)' /\ periodicTime[h] > 0
    BY <1>1 DEF Requeue, Queued
  <2>3. ~Queued(h)'
    BY <1>2, <1>1 DEF Queued
  <2>4. armed'[h] <=> (Queued(h)' \/ Requeue')
    BY <1>1, <1>5, <2>2, <2>3
  <2>5. QED BY <1>1, <1>3, <2>1, <2>4 DEF TimersApart, Queued
<1>11. TimersSound'
  <2>1. TimersInOrder'
    BY <1>1, <1>2, <1>6, OrderIs DEF TimersInOrder, Ordered
  <2>2. \A u \in Timers : u \notin {setting, h} => (Queued(u)' <=> armed'[u])
    <3>1. \A u \in Timers : u \notin {setting, firing} => (Queued(u) <=> armed[u])
      BY DEF TimersInv, TimersSound, QueuedWhenArmed
    <3>2. \A u \in Timers : u # firing
      BY <1>3, TimersAssumption
    <3>3. QED BY <1>4, <1>5, <3>1, <3>2
  <2>3. QueuedWhenArmed'
    BY <1>1, <1>2, <2>2 DEF QueuedWhenArmed
  <2>4. QED BY <2>1, <2>3 DEF TimersSound
<1>12. QED
  BY <1>7, <1>8, <1>9, <1>10, <1>11 DEF TimersInv

\* The callback has returned: a periodic timer goes back into the list, unless it was cancelled.
LEMMA TickGoesOnKeeps ==
    ASSUME TimersInv, TickGoesOn PROVE TimersInv'
<1>1. /\ tick = "callback" /\ tick' = "loop" /\ firing' = None /\ wasPeriodic' = FALSE /\ calls' = 0
      /\ UNCHANGED <<now, sinceTick, periodicTime, armed, tickNow, setting>>
  BY DEF TickGoesOn
<1>2. /\ firing \in Timers /\ firing # setting /\ firing # None
      /\ armed[firing] <=> (Queued(firing) \/ Requeue)
  <2>1. firing # None /\ firing \in Timers
    BY <1>1 DEF TimersInv, TimersTypes, TimersApart
  <2>2. firing # setting
    BY <2>1 DEF TimersInv, TimersApart
  <2>3. QED BY <1>1, <2>1, <2>2 DEF TimersInv, TimersApart
<1>3. Held' = Held /\ Held = sinceTick + Late /\ sinceTick \in Nat /\ sinceTick <= Late
  BY <1>1, WordFacts DEF Held, TimersInv, TimersTypes
<1>4. \A u \in Timers : u \notin {setting, firing} => (Queued(u) <=> armed[u])
  BY DEF TimersInv, TimersSound, QueuedWhenArmed
<1>5. CASE ~Requeue
  <2>1. UNCHANGED <<scheduledTime, dueIn, timerQueue>>
    BY <1>5 DEF TickGoesOn
  <2>2. \A u : (Queued(u)' <=> Queued(u)) /\ (Waiting(u)' <=> Waiting(u))
    BY <1>1, <2>1 DEF Queued, Waiting
  <2>3. TimersTypes'
    BY <1>1, <2>1 DEF TimersInv, TimersTypes
  <2>4. TimersNear'
    BY <1>1, <1>3, <2>1, <2>2 DEF TimersInv, TimersNear
  <2>5. TimersTrue'
    BY <1>1, <2>1, <2>2 DEF TimersInv, TimersTrue
  <2>6. TimersApart'
    <3>1. setting # None => ~Queued(setting) /\ armed[setting] /\ None # setting
      BY DEF TimersInv, TimersApart
    <3>2. QED BY <1>1, <2>1, <2>2, <3>1 DEF TimersApart
  <2>7. TimersSound'
    <3>1. \A u \in Timers : u \notin {setting, None} => (Queued(u)' <=> armed[u])
      BY <1>2, <1>4, <1>5, <2>2
    <3>2. QueuedWhenArmed'
      BY <1>1, <2>1, <3>1, OrderIs DEF QueuedWhenArmed
    <3>3. TimersInOrder'
      BY <1>1, <2>1, OrderIs DEF TimersInOrder, Ordered
    <3>4. QED BY <3>2, <3>3 DEF TimersSound
  <2>8. QED BY <2>3, <2>4, <2>5, <2>6, <2>7 DEF TimersInv
<1>6. CASE Requeue
  <2>1. PICK p \in Nat : p = periodicTime[firing] /\ Near(p)
    BY <1>2 DEF TimersInv, TimersTypes, TimersNear
  <2>2. PICK e \in Int : e = p - sinceTick
    BY <2>1, <1>3
  <2>3. tickNow \in Int /\ now = (tickNow + sinceTick) % Word
    BY <1>1, WordFacts DEF TimersInv, TimersTypes, TimersTrue
  <2>4. PICK w \in 0 .. Word - 1 : w = (tickNow + p) % Word /\ w = (now + e) % Word
    <3>1. tickNow + p \in Int /\ tickNow + sinceTick \in Int
      BY <2>1, <2>3, <1>3
    <3>2. (((tickNow + sinceTick) % Word) + e) % Word = ((tickNow + sinceTick) + e) % Word
      BY <3>1, WordAdds
    <3>3. (tickNow + sinceTick) + e = tickNow + p
      BY <2>1, <2>2, <2>3, <1>3
    <3>4. QED BY <3>1, <3>2, <3>3, <2>3, WordDivides
  <2>5. /\ scheduledTime' = [scheduledTime EXCEPT ![firing] = w]
        /\ dueIn' = [dueIn EXCEPT ![firing] = e]
        /\ timerQueue' = InsertAt(timerQueue, Ahead(firing, scheduledTime') + 1, firing)
    <3>1. Difference(now, tickNow) = sinceTick
      BY <1>1, TickFacts
    <3>2. QED BY <1>6, <2>1, <2>2, <2>4, <3>1 DEF TickGoesOn, Insert
  <2>6. PICK times \in [Timers -> 0 .. Word - 1] :
            /\ times = scheduledTime' /\ times[firing] = w
            /\ \A u \in Timers : u # firing => times[u] = scheduledTime[u]
    BY <1>2, <2>5 DEF TimersInv, TimersTypes
  <2>7. PICK due \in [Timers -> Int] :
            /\ due = dueIn' /\ due[firing] = e
            /\ \A u \in Timers : u # firing => due[u] = dueIn[u]
    BY <1>2, <2>5 DEF TimersInv, TimersTypes
  <2>8. Near(e) /\ e + MaxLate + Held >= 0
    BY <2>1, <2>2, <1>3, WordFacts DEF Near
  <2>9. ~Queued(firing)
    BY <1>6 DEF Requeue
  <2>10. /\ timerQueue' \in Seq(Timers)
         /\ IsInjective(timerQueue')
         /\ \A u : u \in Range(timerQueue') <=> u \in Range(timerQueue) \/ u = firing
         /\ Ordered(timerQueue', due)
    <3>1. timerQueue' = InsertAt(timerQueue, Ahead(firing, times) + 1, firing)
      BY <2>5, <2>6
    <3>2. times[firing] = (now + due[firing]) % Word /\ Near(due[firing]) /\ due[firing] + MaxLate + Held >= 0
      BY <2>4, <2>6, <2>7, <2>8
    <3>3. \A u \in Timers : u # firing => times[u] = scheduledTime[u] /\ due[u] = dueIn[u]
      BY <2>6, <2>7
    <3>4. QED BY <1>2, <2>9, <3>1, <3>2, <3>3, InsertKeeps
  <2>11. \A u : Queued(u)' <=> Queued(u) \/ u = firing
    BY <2>10 DEF Queued
  <2>12. TimersTypes'
    BY <1>1, <2>6, <2>7, <2>10 DEF TimersInv, TimersTypes
  <2>13. TimersNear'
    <3>1. \A u \in Timers : Near(due[u])
      BY <2>7, <2>8 DEF TimersInv, TimersNear
    <3>2. \A u \in Timers : Queued(u)' => due[u] + MaxLate + Held >= 0
      BY <2>7, <2>8, <2>11 DEF TimersInv, TimersNear
    <3>3. setting # None => due[setting] + MaxLate >= 0
      BY <1>2, <2>7 DEF TimersInv, TimersNear, TimersTypes
    <3>4. QED BY <1>1, <1>3, <2>7, <3>1, <3>2, <3>3 DEF TimersInv, TimersNear
  <2>14. TimersTrue'
    <3>1. \A u \in Timers : Waiting(u)' => u = firing \/ Waiting(u)
      BY <1>1, <2>11 DEF Waiting
    <3>2. \A u \in Timers : Waiting(u)' => times[u] = (now + due[u]) % Word
      BY <2>4, <2>6, <2>7, <3>1 DEF TimersInv, TimersTrue
    <3>3. QED BY <1>1, <2>3, <2>6, <2>7, <3>2 DEF TimersTrue
  <2>15. TimersApart'
    <3>1. setting # None => ~Queued(setting)' /\ armed[setting] /\ None # setting
      BY <1>1, <1>2, <2>11 DEF TimersInv, TimersApart
    <3>2. QED BY <1>1, <3>1 DEF TimersApart, Queued
  <2>16. TimersSound'
    <3>1. \A u \in Timers : u \notin {setting, None} => (Queued(u)' <=> armed[u])
      BY <1>2, <1>4, <1>6, <2>11
    <3>2. QueuedWhenArmed'
      BY <1>1, <2>10, <3>1 DEF QueuedWhenArmed
    <3>3. TimersInOrder'
      BY <1>1, <2>7, <2>10 DEF TimersInOrder, Ordered
    <3>4. QED BY <3>2, <3>3 DEF TimersSound
  <2>17. QED BY <2>12, <2>13, <2>14, <2>15, <2>16 DEF TimersInv
<1>7. QED
  BY <1>5, <1>6

\* The head of the list is not due, or there is none.
LEMMA TickEndsKeeps ==
    ASSUME TimersInv, TickEnds PROVE TimersInv'
<1>1. /\ tick = "loop" /\ tick' = "none" /\ tickNow' = 0
      /\ timerQueue # <<>> => Earlier(tickNow, scheduledTime[Head(timerQueue)])
      /\ UNCHANGED <<now, sinceTick, dueIn, scheduledTime, periodicTime, armed, firing, wasPeriodic, calls, timerQueue, setting>>
  BY DEF TickEnds, timeVars, fieldVars
<1>2. Held' = sinceTick /\ sinceTick \in Nat /\ MaxLate \in Nat
  BY <1>1, WordFacts DEF Held, TimersInv, TimersTypes
<1>3. \A u : (Queued(u)' <=> Queued(u)) /\ (Waiting(u)' <=> Waiting(u))
  BY <1>1 DEF Queued, Waiting
<1>4. TimersTypes'
  <2>1. 0 \in 0 .. Word - 1
    BY WordFacts
  <2>2. QED BY <1>1, <2>1 DEF TimersInv, TimersTypes
<1>5. ASSUME NEW t \in Timers, Queued(t) PROVE dueIn[t] + MaxLate + Held' >= 0
  <2> DEFINE q == timerQueue
  <2>1. q \in Seq(Timers) /\ Ordered(q, dueIn) /\ IsInjective(q)
    BY OrderIs
  <2>2. PICK i \in 1 .. Len(q) : q[i] = t
    BY <1>5, <2>1 DEF Queued, Range
  <2>3. q # <<>>
    BY <2>2
  <2>4. q[1] \in Timers /\ Queued(q[1]) /\ Head(q) = q[1] /\ 1 \in DOMAIN q /\ i \in DOMAIN q
    <3>1. Head(q) \in Timers /\ Head(q) \in Range(q) /\ Head(q) = q[1] /\ 1 \in DOMAIN q
      BY <2>1, <2>3, TailFacts
    <3>2. QED BY <2>1, <2>2, <3>1 DEF Queued
  <2>5. sinceTick + dueIn[q[1]] > 0
    BY <1>1, <2>3, <2>4, TickFacts
  <2>6. dueIn[q[1]] \in Int /\ dueIn[t] \in Int
    BY <2>4 DEF TimersInv, TimersTypes
  <2>7. dueIn[q[1]] <= dueIn[t]
    <3>1. CASE i = 1
      BY <2>2, <2>6, <3>1
    <3>2. CASE i # 1
      <4>1. 1 < i
        BY <2>2, <3>2
      <4>2. QED BY <2>1, <2>2, <2>4, <4>1 DEF Ordered
    <3>3. QED BY <3>1, <3>2
  <2>8. QED BY <1>2, <2>5, <2>6, <2>7
<1>6. TimersNear'
  BY <1>1, <1>3, <1>5 DEF TimersInv, TimersNear
<1>7. TimersTrue'
  BY <1>1, <1>3 DEF TimersInv, TimersTrue
<1>8. TimersApart'
  BY <1>1, <1>3 DEF TimersInv, TimersApart
<1>9. TimersSound'
  BY <1>1, <1>3 DEF TimersInv, TimersSound, TimersInOrder, QueuedWhenArmed
<1>10. QED
  BY <1>4, <1>6, <1>7, <1>8, <1>9 DEF TimersInv

\* No timer is set.
LEMMA TimersInitHolds == TimersInit => TimersInv
<1> SUFFICES ASSUME TimersInit PROVE TimersInv
  OBVIOUS
<1>1. /\ now \in {0, Word - 1} /\ sinceTick = 0 /\ timerQueue = <<>>
      /\ scheduledTime = [t \in Timers |-> 0]
      /\ periodicTime = [t \in Timers |-> 0]
      /\ tick = "none" /\ tickNow = 0 /\ firing = None /\ wasPeriodic = FALSE /\ calls = 0
      /\ setting = None
      /\ dueIn = [t \in Timers |-> 0]
      /\ armed = [t \in Timers |-> FALSE]
  BY DEF TimersInit
<1>2. 0 \in 0 .. Word - 1 /\ Word - 1 \in 0 .. Word - 1 /\ 0 \in 0 .. Late /\ Near(0)
  BY WordFacts DEF Near
<1>3. Range(timerQueue) = {} /\ DOMAIN timerQueue = {} /\ timerQueue \in Seq(Timers)
  BY <1>1 DEF Range
<1>4. \A u : ~Queued(u)
  BY <1>3 DEF Queued
<1>5. TimersTypes
  <2>1. /\ scheduledTime \in [Timers -> 0 .. Word - 1]
        /\ periodicTime \in [Timers -> Nat]
        /\ dueIn \in [Timers -> Int] /\ armed \in [Timers -> BOOLEAN]
    BY <1>1, <1>2
  <2>2. now \in 0 .. Word - 1 /\ sinceTick \in 0 .. Late /\ tickNow \in 0 .. Word - 1
    BY <1>1, <1>2
  <2>3. QED BY <1>1, <1>3, <2>1, <2>2 DEF TimersTypes
<1>6. TimersNear
  BY <1>1, <1>2, <1>4 DEF TimersNear
<1>7. TimersTrue
  BY <1>1, <1>4, TimersAssumption DEF TimersTrue, Waiting
<1>8. TimersApart
  BY <1>1 DEF TimersApart
<1>9. TimersSound
  BY <1>1, <1>3, <1>4 DEF TimersSound, TimersInOrder, QueuedWhenArmed, IsInjective
<1>10. QED
  BY <1>5, <1>6, <1>7, <1>8, <1>9 DEF TimersInv

\* Every step of a thread, of the clock and of the tick keeps the invariant.
LEMMA TimersStep == TimersInv /\ [TimersNext]_timerVars => TimersInv'
<1> SUFFICES ASSUME TimersInv, [TimersNext]_timerVars PROVE TimersInv'
  OBVIOUS
<1>1. CASE \E t \in Timers :
              \/ \E d \in Delays, periodic \in BOOLEAN : ThreadSets(t, d, periodic) \/ CallbackSets(t, d, periodic)
              \/ ThreadCancels(t)
              \/ CallbackCancels(t)
  BY <1>1, ThreadSetsKeeps, CallbackSetsKeeps, ThreadCancelsKeeps, CallbackCancelsKeeps
<1>2. CASE ThreadInserts
  BY <1>2, ThreadInsertsKeeps
<1>3. CASE TickBegins
  BY <1>3, TickBeginsKeeps
<1>4. CASE TickStep
  BY <1>4, TickFiresKeeps, TickGoesOnKeeps, TickEndsKeeps DEF TickStep
<1>5. CASE TimePasses
  BY <1>5, TimePassesKeeps
<1>6. CASE UNCHANGED timerVars
  BY <1>6 DEF timerVars, timeVars, fieldVars, tickVars, TimersInv, TimersTypes, TimersNear, Held, TimersTrue,
              Waiting, Queued, TimersApart, Requeue, TimersSound, TimersInOrder, QueuedWhenArmed
<1>7. QED
  BY <1>1, <1>2, <1>3, <1>4, <1>5, <1>6 DEF TimersNext

\* The invariant of the timers, for any timers and delays and every time the clock's word wraps.
THEOREM TimersInvHolds == TimersSpec => []TimersInv
<1> QED
  BY TimersInitHolds, TimersStep, PTL DEF TimersSpec

\* The list of timers holds those that are armed and no other, in the order they are due, across
\* the wrap of the clock, and a timer is called once per time it is set and not before it is due
\* (kernel/timer.c).
THEOREM TimersKept == TimersSpec => []TimersSound
<1>1. TimersInv => TimersSound
  BY DEF TimersInv
<1>2. QED
  BY <1>1, TimersInvHolds, PTL

---------------------------------------------------------------------------
(* The log *)

\* Where a writer is: putting a character behind the others, over the oldest, or done with it.
Appending == {"append", "load", "count"}
Renewing == {"renew", "loadRenew", "countRenew"}
Printed == {"limit", "debug", "point"}
Stages == {"idle"} \cup Appending \cup Renewing \cup Printed

\* Not in lk_log_store.
Idle(w) == writer[w].at = "idle"

\* The bytes of the boot loader's part.
Size == LogStoreSize - OffLk

\* What the variables hold.
LogTypes ==
    /\ logStatus \in {"not_ready", "ready", "full", "error"}
    /\ szPl \in Nat /\ szLk \in Nat /\ lkRenew \in Nat /\ lkFull \in BOOLEAN
    /\ pbuff \in [0 .. LogStoreSize + Past -> Int]
    /\ writer \in [Writers -> [at : Stages, c : Nat, reg : Nat]]
    /\ chars \in Nat /\ logKept \in Seq(Nat) /\ mingled \in BOOLEAN

\* Nothing is printed before the log is ready, nor when there is no room for it.
LogQuiet ==
    /\ logStatus = "ready" => OffLk < LogStoreSize
    /\ logStatus # "ready" =>
         /\ \A w \in Writers : Idle(w)
         /\ ~mingled /\ ~lkFull /\ logKept = <<>> /\ lkRenew = 0

\* Until two have met, one prints at a time.
LogAlone == ~mingled => \A v, w \in Writers : ~Idle(v) /\ ~Idle(w) => v = w

\* What was kept, with the character that is counted already.
Kept(a, c) == IF a \in Printed THEN Append(logKept, c) ELSE logKept

\* Which of n characters is the byte at p.
Place(p, n) ==
    IF ~lkFull THEN p + 1
    ELSE IF p < lkRenew THEN n - lkRenew + p + 1 ELSE n - szLk - lkRenew + p + 1

\* Of a writer at a with the character c: the counters are those of what was kept, and there is
\* room for what it is about to put behind it. LogSound is not inductive without this: what stops
\* a writer at the end of the buffer is the test that the one before it has made;
StoryCounts(a, c, reg) ==
    /\ szLk <= Size
    /\ a \in Appending => ~lkFull /\ szLk < Size /\ (a # "append" => pbuff[OffLk + szLk] = c)
    /\ a = "count" => reg = szLk
    /\ a = "limit" => ~lkFull
    /\ a \in Renewing => lkFull /\ lkRenew < szLk /\ (a # "renew" => pbuff[OffLk + lkRenew] = c)
    /\ a = "countRenew" => reg = lkRenew
    /\ a \in {"idle", "debug", "point"} => (lkFull <=> szLk = Size)
    /\ lkFull => szLk = Size /\ lkRenew <= szLk
    /\ ~lkFull => szLk = Len(Kept(a, c))
    /\ szLk <= Len(Kept(a, c))

\* and so are the bytes, but for the one about to be replaced.
StoryBytes(a, c) ==
    \A p \in 0 .. szLk - 1 :
        (a \in {"loadRenew", "countRenew"} /\ p = lkRenew)
            \/ pbuff[OffLk + p] = Kept(a, c)[Place(p, Len(Kept(a, c)))]

Story(a, c, reg) == StoryCounts(a, c, reg) /\ StoryBytes(a, c)

\* Until two have met, the log is that of the one who prints.
LogStory ==
    ~mingled /\ logStatus = "ready" =>
        /\ (\A w \in Writers : Idle(w)) => Story("idle", 0, 0)
        /\ \A w \in Writers : ~Idle(w) => Story(writer[w].at, writer[w].c, writer[w].reg)

\* Nothing behind the buffer is written, until two have met.
LogBytes ==
    /\ LogContained
    /\ ~mingled => \A i \in LogStoreSize .. LogStoreSize + Past : pbuff[i] = Other

\* The settings of a block.
Settings == [LogSettings -> {"none", "on", "off"}]
Signed(block) == IF block = Unsigned THEN NoSettings ELSE block

\* An operation on the settings.
ConfigStages == {"none", "find", "read", "sign", "write"}
ConfigTypes ==
    [by : Writers \cup {"nobody"}, at : ConfigStages, busy : BOOLEAN, header : Settings, sets : Changes]

\* The settings of the block are those that were set, and so are those of a header that is about
\* to be written.
LogSettingsInv ==
    /\ expdb \in Settings \cup {Unsigned}
    /\ config \in ConfigTypes
    /\ config.at \in {"sign", "write"} => unread \/ config.header = Signed(expdb)
    /\ unread \/ meantSettings = Signed(expdb)

\* Who is where.
LogShape == LogTypes /\ LogQuiet /\ LogAlone

LogInv == LogShape /\ LogStory /\ LogBytes /\ LogResumes

---------------------------------------------------------------------------

\* What a step of a writer does to its place.
LEMMA GoesOnFacts ==
    ASSUME LogTypes, NEW w \in Writers, NEW a \in Stages, GoesOn(w, a)
    PROVE  /\ writer' \in [Writers -> [at : Stages, c : Nat, reg : Nat]]
           /\ writer'[w].at = a /\ writer'[w].c = writer[w].c /\ writer'[w].reg = writer[w].reg
           /\ \A v \in Writers : v # w => writer'[v] = writer[v]
<1>1. writer \in [Writers -> [at : Stages, c : Nat, reg : Nat]]
  BY DEF LogTypes
<1>2. writer' = [writer EXCEPT ![w] = [writer[w] EXCEPT !.at = a]]
  BY DEF GoesOn
<1>3. writer[w] \in [at : Stages, c : Nat, reg : Nat]
  BY <1>1
<1> DEFINE r == [at |-> a, c |-> writer[w].c, reg |-> writer[w].reg]
<1>4. [writer[w] EXCEPT !.at = a] = r
  BY <1>3
<1>5. /\ r \in [at : Stages, c : Nat, reg : Nat]
      /\ r.at = a /\ r.c = writer[w].c /\ r.reg = writer[w].reg
  BY <1>3
<1> HIDE DEF r
<1>6. writer' = [writer EXCEPT ![w] = r]
  BY <1>2, <1>4
<1>7. QED
  BY <1>1, <1>5, <1>6

\* What a step of LogStep changes: the writer's place and register, and no other's.
Moves(w) ==
    /\ writer' \in [Writers -> [at : Stages, c : Nat, reg : Nat]]
    /\ writer[w].at \in Stages \ {"idle"} /\ writer'[w].c = writer[w].c
    /\ \A v \in Writers : v # w => writer'[v] = writer[v]
    /\ logStatus' = logStatus /\ szPl' = szPl /\ chars' = chars /\ mingled' = mingled
    /\ expdb' = expdb /\ config' = config /\ meantSettings' = meantSettings /\ unread' = unread

\* A step from a to b.
At(w, a, b) == writer[w].at = a /\ writer'[w].at = b

SameReg(w) == writer'[w].reg = writer[w].reg

\* The character is put behind the others.
LEMMA AppendCharFacts ==
    ASSUME LogTypes, NEW w \in Writers, AppendChar(w)
    PROVE  /\ Moves(w) /\ At(w, "append", "load") /\ SameReg(w)
           /\ pbuff' = [pbuff EXCEPT ![OffLk + szLk] = writer[w].c]
           /\ UNCHANGED <<logEnable, szLk, lkFull, lkRenew, logKept>>
<1>1. GoesOn(w, "load") /\ "load" \in Stages
  BY DEF AppendChar, Stages, Appending
<1>2. QED
  BY <1>1, GoesOnFacts DEF AppendChar, Moves, At, SameReg, Stages, Appending, headerVars, settingVars

\* sz_lk++, its load.
LEMMA LoadSizeFacts ==
    ASSUME LogTypes, NEW w \in Writers, LoadSize(w)
    PROVE  /\ Moves(w) /\ At(w, "load", "count") /\ writer'[w].reg = szLk
           /\ UNCHANGED <<logEnable, szLk, lkFull, lkRenew, pbuff, logKept>>
<1>1. writer \in [Writers -> [at : Stages, c : Nat, reg : Nat]] /\ szLk \in Nat /\ "count" \in Stages
  BY DEF LogTypes, Stages, Appending, Renewing
<1>2. writer[w] \in [at : Stages, c : Nat, reg : Nat]
  BY <1>1
<1> DEFINE r == [at |-> "count", c |-> writer[w].c, reg |-> szLk]
<1>3. /\ r \in [at : Stages, c : Nat, reg : Nat]
      /\ r.at = "count" /\ r.c = writer[w].c /\ r.reg = szLk
  BY <1>1, <1>2
<1>0. writer' = [writer EXCEPT ![w] = r]
  BY DEF LoadSize
<1> HIDE DEF r
<1>4. /\ writer' \in [Writers -> [at : Stages, c : Nat, reg : Nat]]
      /\ writer'[w] = r
      /\ \A v \in Writers : v # w => writer'[v] = writer[v]
  BY <1>0, <1>1, <1>3
<1>5. QED
  BY <1>1, <1>3, <1>4 DEF LoadSize, Moves, At, Stages, Appending, headerVars, settingVars

\* sz_lk++, its store.
LEMMA CountCharFacts ==
    ASSUME LogTypes, NEW w \in Writers, CountChar(w)
    PROVE  /\ Moves(w) /\ At(w, "count", "limit") /\ SameReg(w)
           /\ szLk' = writer[w].reg + 1
           /\ UNCHANGED <<logEnable, lkFull, lkRenew, pbuff, logKept>>
<1>1. GoesOn(w, "limit") /\ "limit" \in Stages
  BY DEF CountChar, Stages, Printed
<1>2. QED
  BY <1>1, GoesOnFacts DEF CountChar, Moves, At, SameReg, Stages, Appending, headerVars, settingVars

\* The last byte of the buffer is used, or it is not.
LEMMA CheckLimitFacts ==
    ASSUME LogTypes, NEW w \in Writers, CheckLimit(w)
    PROVE  /\ Moves(w) /\ SameReg(w)
           /\ \/ /\ OffLk + szLk >= LogStoreSize
                 /\ At(w, "limit", "debug") /\ lkFull' = TRUE /\ lkRenew' = 0
              \/ /\ ~(OffLk + szLk >= LogStoreSize)
                 /\ At(w, "limit", "point") /\ UNCHANGED <<lkFull, lkRenew>>
           /\ UNCHANGED <<szLk, pbuff, logKept>>
<1>1. "debug" \in Stages /\ "point" \in Stages /\ "limit" \in Stages \ {"idle"}
  BY DEF Stages, Printed
<1>2. CASE OffLk + szLk >= LogStoreSize
  <2>1. GoesOn(w, "debug")
    BY <1>2 DEF CheckLimit
  <2>2. QED
    BY <1>1, <1>2, <2>1, GoesOnFacts DEF CheckLimit, Moves, At, SameReg, headerVars, settingVars
<1>3. CASE ~(OffLk + szLk >= LogStoreSize)
  <2>1. GoesOn(w, "point")
    BY <1>3 DEF CheckLimit
  <2>2. QED
    BY <1>1, <1>3, <2>1, GoesOnFacts DEF CheckLimit, Moves, At, SameReg, headerVars, settingVars
<1>4. QED BY <1>2, <1>3

\* LOG_DEBUG has said that the log is full.
LEMMA LogDebugEndsFacts ==
    ASSUME LogTypes, NEW w \in Writers, LogDebugEnds(w)
    PROVE  /\ Moves(w) /\ At(w, "debug", "point") /\ SameReg(w)
           /\ UNCHANGED <<szLk, lkFull, lkRenew, pbuff, logKept>>
<1>1. GoesOn(w, "point") /\ "point" \in Stages /\ "debug" \in Stages \ {"idle"}
  BY DEF LogDebugEnds, Stages, Printed
<1>2. QED
  BY <1>1, GoesOnFacts DEF LogDebugEnds, Moves, At, SameReg, headerVars, settingVars

\* The character is put over the oldest.
LEMMA RenewCharFacts ==
    ASSUME LogTypes, NEW w \in Writers, RenewChar(w)
    PROVE  /\ Moves(w) /\ At(w, "renew", "loadRenew") /\ SameReg(w)
           /\ pbuff' = [pbuff EXCEPT ![OffLk + lkRenew] = writer[w].c]
           /\ UNCHANGED <<szLk, lkFull, lkRenew, logKept>>
<1>1. GoesOn(w, "loadRenew") /\ "loadRenew" \in Stages /\ "renew" \in Stages \ {"idle"}
  BY DEF RenewChar, Stages, Renewing
<1>2. QED
  BY <1>1, GoesOnFacts DEF RenewChar, Moves, At, SameReg, headerVars, settingVars

\* lk_renew++, its load.
LEMMA LoadRenewFacts ==
    ASSUME LogTypes, NEW w \in Writers, LoadRenew(w)
    PROVE  /\ Moves(w) /\ At(w, "loadRenew", "countRenew") /\ writer'[w].reg = lkRenew
           /\ UNCHANGED <<szLk, lkFull, lkRenew, pbuff, logKept>>
<1>1. writer \in [Writers -> [at : Stages, c : Nat, reg : Nat]] /\ lkRenew \in Nat /\ "countRenew" \in Stages
  BY DEF LogTypes, Stages, Appending, Renewing
<1>2. writer[w] \in [at : Stages, c : Nat, reg : Nat]
  BY <1>1
<1> DEFINE r == [at |-> "countRenew", c |-> writer[w].c, reg |-> lkRenew]
<1>3. /\ r \in [at : Stages, c : Nat, reg : Nat]
      /\ r.at = "countRenew" /\ r.c = writer[w].c /\ r.reg = lkRenew
  BY <1>1, <1>2
<1>0. writer' = [writer EXCEPT ![w] = r]
  BY DEF LoadRenew
<1> HIDE DEF r
<1>4. /\ writer' \in [Writers -> [at : Stages, c : Nat, reg : Nat]]
      /\ writer'[w] = r
      /\ \A v \in Writers : v # w => writer'[v] = writer[v]
  BY <1>0, <1>1, <1>3
<1>5. QED
  BY <1>1, <1>3, <1>4 DEF LoadRenew, Moves, At, Stages, Renewing, headerVars, settingVars

\* lk_renew++, its store.
LEMMA CountRenewFacts ==
    ASSUME LogTypes, NEW w \in Writers, CountRenew(w)
    PROVE  /\ Moves(w) /\ At(w, "countRenew", "point") /\ SameReg(w)
           /\ lkRenew' = writer[w].reg + 1
           /\ UNCHANGED <<szLk, lkFull, pbuff, logKept>>
<1>1. GoesOn(w, "point") /\ "point" \in Stages /\ "countRenew" \in Stages \ {"idle"}
  BY DEF CountRenew, Stages, Renewing, Printed
<1>2. QED
  BY <1>1, GoesOnFacts DEF CountRenew, Moves, At, SameReg, headerVars, settingVars

\* lk_log_store returns.
LEMMA LogEndsFacts ==
    ASSUME LogTypes, NEW w \in Writers, LogEnds(w)
    PROVE  /\ Moves(w) /\ At(w, "point", "idle") /\ SameReg(w)
           /\ logKept' = (IF mingled THEN <<>> ELSE Append(logKept, writer[w].c))
           /\ UNCHANGED <<szLk, lkFull, lkRenew, pbuff>>
<1>1. GoesOn(w, "idle") /\ "idle" \in Stages /\ "point" \in Stages \ {"idle"}
  BY DEF LogEnds, Stages, Printed
<1>2. QED
  BY <1>1, GoesOnFacts DEF LogEnds, Moves, At, SameReg, headerVars, settingVars

\* lk_log_store, and what it puts in its registers.
LEMMA LogBeginsFacts ==
    ASSUME LogTypes, NEW w \in Writers, LogBegins(w)
    PROVE  /\ Idle(w) /\ logStatus = "ready" /\ (mingled => mingled')
           /\ writer' \in [Writers -> [at : Stages, c : Nat, reg : Nat]]
           /\ writer'[w].at = IF lkFull THEN "renew" ELSE "append"
           /\ \A v \in Writers : v # w => writer'[v] = writer[v]
           /\ lkRenew' = IF lkFull /\ lkRenew >= szLk THEN 0 ELSE lkRenew
           /\ mingled' \in BOOLEAN /\ (mingled' <=> mingled \/ \E v \in Writers \ {w} : ~Idle(v))
           /\ chars' \in Nat
           /\ UNCHANGED <<logStatus, logEnable, szPl, szLk, lkFull, pbuff, logKept>>
           /\ UNCHANGED <<expdb, config, meantSettings, unread>>
<1>1. writer \in [Writers -> [at : Stages, c : Nat, reg : Nat]] /\ chars \in Nat /\ mingled \in BOOLEAN
  BY DEF LogTypes
<1> DEFINE at == IF lkFull THEN "renew" ELSE "append"
           c == IF mingled' THEN Other ELSE chars + 1
           r == [at |-> at, c |-> c, reg |-> 0]
<1>0. at \in Stages /\ c \in Nat
  BY <1>1 DEF Stages, Appending, Renewing, Other
<1> HIDE DEF at, c
<1>2. r \in [at : Stages, c : Nat, reg : Nat] /\ r.at = at
  BY <1>0, <1>1
<1> HIDE DEF r
<1>3. writer' = [writer EXCEPT ![w] = r]
  BY DEF LogBegins, r, at, c
<1>4. /\ writer' \in [Writers -> [at : Stages, c : Nat, reg : Nat]]
      /\ writer'[w] = r
      /\ \A v \in Writers : v # w => writer'[v] = writer[v]
  BY <1>1, <1>2, <1>3
<1>5. mingled' = (mingled \/ \E v \in Writers \ {w} : writer[v].at # "idle")
  BY DEF LogBegins
<1>6. mingled' \in BOOLEAN /\ (mingled' <=> mingled \/ \E v \in Writers \ {w} : ~Idle(v))
  BY <1>1, <1>5 DEF Idle
<1>7. QED
  BY <1>1, <1>2, <1>4, <1>6 DEF LogBegins, Idle, at, settingVars

---------------------------------------------------------------------------

\* What a step of a writer is.
LEMMA LogStepShape ==
    ASSUME LogShape, NEW w \in Writers, LogStep(w)
    PROVE  /\ Moves(w) /\ logStatus = "ready" /\ ~Idle(w)
           /\ LogShape'
<1>1. LogTypes
  BY DEF LogShape
<1>2. /\ Moves(w) /\ writer' \in [Writers -> [at : Stages, c : Nat, reg : Nat]]
      /\ szLk' \in Nat /\ lkRenew' \in Nat /\ lkFull' \in BOOLEAN
      /\ pbuff' \in [0 .. LogStoreSize + Past -> Int] /\ logKept' \in Seq(Nat)
  <2>1. /\ writer[w].c \in Int /\ writer[w].c \in Nat /\ writer[w].reg + 1 \in Nat
        /\ pbuff \in [0 .. LogStoreSize + Past -> Int] /\ logKept \in Seq(Nat)
        /\ szLk \in Nat /\ lkRenew \in Nat /\ lkFull \in BOOLEAN /\ 0 \in Nat
    BY <1>1 DEF LogTypes
  <2>2. Append(logKept, writer[w].c) \in Seq(Nat) /\ <<>> \in Seq(Nat)
    BY <2>1
  <2>3. CASE AppendChar(w)
    <3>1. Moves(w) /\ pbuff' = [pbuff EXCEPT ![OffLk + szLk] = writer[w].c] /\ UNCHANGED <<szLk, lkFull, lkRenew, logKept>>
      BY <1>1, <2>3, AppendCharFacts
    <3>2. QED BY <2>1, <3>1 DEF Moves
  <2>4. CASE LoadSize(w)
    BY <1>1, <2>1, <2>4, LoadSizeFacts DEF Moves
  <2>5. CASE CountChar(w)
    BY <1>1, <2>1, <2>5, CountCharFacts DEF Moves
  <2>6. CASE CheckLimit(w)
    BY <1>1, <2>1, <2>6, CheckLimitFacts DEF Moves
  <2>7. CASE LogDebugEnds(w)
    BY <1>1, <2>1, <2>7, LogDebugEndsFacts DEF Moves
  <2>8. CASE RenewChar(w)
    <3>1. Moves(w) /\ pbuff' = [pbuff EXCEPT ![OffLk + lkRenew] = writer[w].c] /\ UNCHANGED <<szLk, lkFull, lkRenew, logKept>>
      BY <1>1, <2>8, RenewCharFacts
    <3>2. QED BY <2>1, <3>1 DEF Moves
  <2>9. CASE LoadRenew(w)
    BY <1>1, <2>1, <2>9, LoadRenewFacts DEF Moves
  <2>10. CASE CountRenew(w)
    BY <1>1, <2>1, <2>10, CountRenewFacts DEF Moves
  <2>11. CASE LogEnds(w)
    <3>1. Moves(w) /\ logKept' = (IF mingled THEN <<>> ELSE Append(logKept, writer[w].c)) /\ UNCHANGED <<szLk, lkFull, lkRenew, pbuff>>
      BY <1>1, <2>11, LogEndsFacts
    <3>2. logKept' \in Seq(Nat)
      BY <2>2, <3>1
    <3>3. QED BY <2>1, <3>1, <3>2 DEF Moves
  <2>12. QED
    BY <2>3, <2>4, <2>5, <2>6, <2>7, <2>8, <2>9, <2>10, <2>11 DEF LogStep
<1>3. ~Idle(w)
  BY <1>2 DEF Moves, Idle
<1>4. logStatus = "ready"
  BY <1>3 DEF LogShape, LogQuiet
<1>5. LogTypes'
  BY <1>1, <1>2 DEF LogTypes, Moves
<1>6. LogQuiet'
  BY <1>2, <1>4 DEF LogShape, LogQuiet, Moves, OffLk
<1>7. LogAlone'
  <2>1. \A v \in Writers : ~Idle(v)' => ~Idle(v)
    BY <1>2, <1>3 DEF Moves, Idle
  <2>2. QED BY <1>2, <2>1 DEF LogShape, LogAlone, Moves
<1>8. QED
  BY <1>2, <1>3, <1>4, <1>5, <1>6, <1>7 DEF LogShape

\* lk_log_store begins: some print from here on, or one.
LEMMA LogBeginsShape ==
    ASSUME LogShape, NEW w \in Writers, LogBegins(w)
    PROVE  LogShape'
<1>1. LogTypes
  BY DEF LogShape
<1>2. /\ Idle(w) /\ logStatus = "ready"
      /\ writer' \in [Writers -> [at : Stages, c : Nat, reg : Nat]]
      /\ \A v \in Writers : v # w => writer'[v] = writer[v]
      /\ lkRenew' = IF lkFull /\ lkRenew >= szLk THEN 0 ELSE lkRenew
      /\ mingled' \in BOOLEAN /\ (mingled' <=> mingled \/ \E v \in Writers \ {w} : ~Idle(v))
      /\ chars' \in Nat
      /\ UNCHANGED <<logStatus, szPl, szLk, lkFull, pbuff, logKept>>
  BY <1>1, LogBeginsFacts
<1>3. LogTypes'
  BY <1>1, <1>2 DEF LogTypes
<1>4. LogQuiet'
  BY <1>2 DEF LogShape, LogQuiet, OffLk
<1>5. LogAlone'
  <2>1. \A v \in Writers : v # w => (Idle(v)' <=> Idle(v))
    BY <1>2 DEF Idle
  <2>2. ~mingled' => \A v \in Writers : v # w => Idle(v)
    BY <1>2
  <2>3. QED BY <1>2, <2>1, <2>2 DEF LogAlone
<1>6. QED
  BY <1>3, <1>4, <1>5 DEF LogShape

\* log_store_init finds nobody printing and nothing kept.
LEMMA LogStoreInitFacts ==
    ASSUME LogShape, NEW good \in BOOLEAN, LogStoreInit(good)
    PROVE  /\ logStatus # "ready" /\ (\A w \in Writers : Idle(w) /\ Idle(w)')
           /\ ~mingled /\ ~mingled' /\ ~lkFull /\ ~lkFull' /\ logKept' = <<>> /\ szLk' = 0 /\ lkRenew' = 0
           /\ logStatus' = "ready" => OffLk < LogStoreSize
           /\ UNCHANGED <<szPl, pbuff, writer, logEnable>>
           /\ LogShape'
<1>1. /\ logStatus = "not_ready"
      /\ logStatus' = IF ~good THEN "error" ELSE IF OffLk >= LogStoreSize THEN "full" ELSE "ready"
      /\ szLk' = 0
      /\ UNCHANGED <<logEnable, szPl, lkFull, lkRenew, pbuff, writer, chars, logKept, mingled>>
  BY DEF LogStoreInit
<1>2. /\ \A w \in Writers : Idle(w)
      /\ ~mingled /\ ~lkFull /\ logKept = <<>> /\ lkRenew = 0
  BY <1>1 DEF LogShape, LogQuiet
<1>3. OffLk \in Int /\ LogStoreSize \in Int
  BY LogStoreAssumption DEF LogShape, LogTypes, OffLk
<1>4. logStatus' = "ready" => OffLk < LogStoreSize
  BY <1>1, <1>3
<1>5. \A w \in Writers : Idle(w)'
  BY <1>1, <1>2 DEF Idle
<1>6. LogTypes'
  BY <1>1 DEF LogShape, LogTypes
<1>7. LogQuiet'
  BY <1>1, <1>2, <1>4, <1>5 DEF LogQuiet, OffLk
<1>8. LogAlone'
  BY <1>5 DEF LogAlone
<1>9. QED
  BY <1>1, <1>2, <1>4, <1>5, <1>6, <1>7, <1>8 DEF LogShape

---------------------------------------------------------------------------
(* The numbers *)

\* The numbers of the buffer.
LEMMA SizeFacts ==
    ASSUME LogShape
    PROVE  /\ OffLk \in Nat /\ LogStoreSize \in Nat /\ Size \in Int
           /\ logStatus = "ready" => Size >= 1
           /\ OffLk + Size = LogStoreSize
           /\ OffPl <= OffLk
<1>1. OffLk \in Nat /\ LogStoreSize \in Nat /\ OffPl <= OffLk
  BY LogStoreAssumption DEF LogShape, LogTypes, OffLk
<1>2. QED
  BY <1>1 DEF LogShape, LogQuiet, Size

\* The stages are not each other's.
LEMMA StageFacts ==
    /\ "idle" \notin Appending /\ "idle" \notin Renewing
    /\ {"append", "load", "count"} \subseteq Appending
    /\ {"renew", "loadRenew", "countRenew"} \subseteq Renewing
    /\ \A a \in {"limit", "debug", "point"} : a \notin Appending /\ a \notin Renewing
    /\ \A a \in Renewing : a \notin Appending /\ a # "count"
    /\ \A a \in Appending : a \notin Renewing /\ a # "countRenew"
BY DEF Appending, Renewing

---------------------------------------------------------------------------
(* The bytes *)

\* A character put behind the preloader's log, and where there is room for it until two have met.
LEMMA ByteWritten ==
    ASSUME LogShape, LogBytes, NEW n \in Nat, ~mingled => n < Size, NEW c \in Nat,
           pbuff' = [pbuff EXCEPT ![OffLk + n] = c],
           szPl' = szPl, mingled' = mingled
    PROVE  /\ LogBytes'
           /\ ~mingled =>
                /\ pbuff'[OffLk + n] = c
                /\ \A p \in Nat : p # n /\ OffLk + p <= LogStoreSize => pbuff'[OffLk + p] = pbuff[OffLk + p]
<1>1. /\ OffLk \in Nat /\ LogStoreSize \in Nat /\ Size \in Int /\ OffLk + Size = LogStoreSize
      /\ pbuff \in [0 .. LogStoreSize + Past -> Int] /\ OffPl \in Nat /\ mingled \in BOOLEAN
  BY SizeFacts, LogStoreAssumption DEF LogShape, LogTypes
<1>2. OffLk' = OffLk
  BY DEF OffLk
<1>3. ~mingled => OffLk + n \in 0 .. LogStoreSize /\ OffLk + n < LogStoreSize
  BY <1>1
<1>4. /\ ~mingled => pbuff'[OffLk + n] = c
      /\ \A i \in 0 .. LogStoreSize + Past : i # OffLk + n => pbuff'[i] = pbuff[i]
  BY <1>1, <1>3 DEF Past
<1>5. \A i \in OffPl .. OffLk - 1 : i < LogStoreSize => i \in 0 .. LogStoreSize + Past /\ i # OffLk + n
  BY <1>1 DEF Past
<1>6. ~mingled => \A i \in LogStoreSize .. LogStoreSize + Past : i \in 0 .. LogStoreSize + Past /\ i # OffLk + n
  BY <1>1, <1>3 DEF Past
<1>7. LogContained'
  BY <1>2, <1>4, <1>5 DEF LogBytes, LogContained
<1>8. ~mingled => \A i \in LogStoreSize .. LogStoreSize + Past : pbuff'[i] = Other
  BY <1>4, <1>6 DEF LogBytes
<1>9. \A p \in Nat : p # n /\ OffLk + p <= LogStoreSize => pbuff'[OffLk + p] = pbuff[OffLk + p]
  BY <1>1, <1>4 DEF Past
<1>10. QED
  BY <1>4, <1>7, <1>8, <1>9 DEF LogBytes

\* A step that writes no byte.
LEMMA BytesSame ==
    ASSUME LogBytes, pbuff' = pbuff, szPl' = szPl, mingled => mingled'
    PROVE  LogBytes'
BY DEF LogBytes, LogContained, OffLk

\* Every step of lk_log_store leaves the preloader's log, and what is behind the buffer until two
\* have met.
LEMMA BytesStep ==
    ASSUME LogInv, NEW w \in Writers, LogStep(w)
    PROVE  LogBytes'
<1>0. LogShape /\ LogBytes
  BY DEF LogInv
<1>1. Moves(w) /\ logStatus = "ready" /\ ~Idle(w) /\ LogTypes /\ szPl' = szPl /\ mingled' = mingled
  BY <1>0, LogStepShape DEF LogShape, Moves
<1>2. ~mingled => StoryCounts(writer[w].at, writer[w].c, writer[w].reg)
  BY <1>1 DEF LogInv, LogStory, Story
<1>3. writer[w].c \in Nat /\ szLk \in Nat /\ lkRenew \in Nat /\ Size \in Int
  BY <1>0, <1>1, SizeFacts DEF LogTypes
<1>4. CASE AppendChar(w)
  <2>1. writer[w].at = "append" /\ pbuff' = [pbuff EXCEPT ![OffLk + szLk] = writer[w].c]
    BY <1>1, <1>4, AppendCharFacts DEF At
  <2>2. ~mingled => szLk < Size
    BY <1>2, <2>1, StageFacts DEF StoryCounts
  <2>3. QED BY <1>0, <1>1, <1>3, <2>1, <2>2, ByteWritten
<1>5. CASE RenewChar(w)
  <2>1. writer[w].at = "renew" /\ pbuff' = [pbuff EXCEPT ![OffLk + lkRenew] = writer[w].c]
    BY <1>1, <1>5, RenewCharFacts DEF At
  <2>2. ~mingled => lkRenew < szLk /\ szLk <= Size
    BY <1>2, <2>1, StageFacts DEF StoryCounts
  <2>3. ~mingled => lkRenew < Size
    BY <1>3, <2>2
  <2>4. QED BY <1>0, <1>1, <1>3, <2>1, <2>3, ByteWritten
<1>6. CASE LoadSize(w) \/ CountChar(w) \/ CheckLimit(w) \/ LogDebugEnds(w) \/ LoadRenew(w) \/ CountRenew(w) \/ LogEnds(w)
  <2>1. pbuff' = pbuff
    BY <1>1, <1>6, LoadSizeFacts, CountCharFacts, CheckLimitFacts, LogDebugEndsFacts, LoadRenewFacts,
       CountRenewFacts, LogEndsFacts
  <2>2. QED BY <1>0, <1>1, <2>1, BytesSame
<1>7. QED
  BY <1>4, <1>5, <1>6 DEF LogStep

---------------------------------------------------------------------------
(* The story: what the buffer holds of what was printed *)

\* The writer that moves is the only one, until two have met.
LEMMA StoryMoves ==
    ASSUME LogShape, NEW w \in Writers, Moves(w), ~Idle(w),
           ~mingled /\ logStatus = "ready" =>
               IF writer'[w].at = "idle" THEN Story("idle", 0, 0)'
               ELSE Story(writer[w].at, writer[w].c, writer[w].reg)'
    PROVE  LogStory'
<1> SUFFICES ASSUME ~mingled', logStatus' = "ready"
             PROVE  /\ (\A v \in Writers : Idle(v)') => Story("idle", 0, 0)'
                    /\ \A v \in Writers : ~Idle(v)' => Story(writer[v].at, writer[v].c, writer[v].reg)'
  BY DEF LogStory
<1>1. ~mingled /\ logStatus = "ready"
  BY DEF Moves
<1>2. \A v \in Writers : v # w => Idle(v)'
  <2>1. \A v \in Writers : v # w => Idle(v)
    BY <1>1 DEF LogShape, LogAlone
  <2>2. QED BY <2>1 DEF Moves, Idle
<1>3. CASE writer'[w].at = "idle"
  BY <1>1, <1>2, <1>3 DEF Idle
<1>4. CASE writer'[w].at # "idle"
  BY <1>1, <1>2, <1>4 DEF Idle
<1>5. QED BY <1>3, <1>4

\* Before the step the story is that of the writer that moves.
LEMMA StoryOf ==
    ASSUME LogInv, NEW w \in Writers, ~Idle(w), ~mingled, logStatus = "ready"
    PROVE  /\ StoryCounts(writer[w].at, writer[w].c, writer[w].reg)
           /\ StoryBytes(writer[w].at, writer[w].c)
           /\ szLk <= Size /\ Size \in Int /\ Size >= 1 /\ OffLk + Size = LogStoreSize
           /\ OffLk \in Nat /\ LogStoreSize \in Nat
           /\ szLk \in Nat /\ lkRenew \in Nat /\ lkFull \in BOOLEAN /\ logKept \in Seq(Nat)
           /\ writer[w].c \in Nat /\ writer[w].reg \in Nat
           /\ pbuff \in [0 .. LogStoreSize + Past -> Int]
<1>1. LogShape
  BY DEF LogInv
<1>2. QED
  BY <1>1, SizeFacts DEF LogInv, LogShape, LogTypes, LogStory, Story, StoryCounts

\* The bytes as the story has them, when the log is not full.
LEMMA BytesInOrder ==
    ASSUME NEW a, NEW c, ~lkFull, a \notin Renewing
    PROVE  StoryBytes(a, c) <=> \A p \in 0 .. szLk - 1 : pbuff[OffLk + p] = Kept(a, c)[p + 1]
BY DEF StoryBytes, Place, Renewing

\* A character at the end of what was kept.
LEMMA KeptFacts ==
    ASSUME logKept \in Seq(Nat), NEW c \in Nat
    PROVE  /\ Append(logKept, c) \in Seq(Nat)
           /\ Len(logKept) \in Nat
           /\ Len(Append(logKept, c)) = Len(logKept) + 1
           /\ \A i \in 1 .. Len(logKept) : Append(logKept, c)[i] = logKept[i]
           /\ Append(logKept, c)[Len(logKept) + 1] = c
OBVIOUS

\* The byte is there, before it counts.
LEMMA AppendCharStory ==
    ASSUME LogInv, NEW w \in Writers, AppendChar(w), ~mingled, logStatus = "ready", ~Idle(w)
    PROVE  Story(writer[w].at, writer[w].c, writer[w].reg)'
<1>1. /\ StoryCounts("append", writer[w].c, writer[w].reg)
      /\ StoryBytes("append", writer[w].c)
      /\ writer[w].at = "append" /\ writer'[w].at = "load" /\ writer'[w].c = writer[w].c
      /\ pbuff' = [pbuff EXCEPT ![OffLk + szLk] = writer[w].c]
      /\ UNCHANGED <<szLk, lkFull, lkRenew, logKept, szPl, mingled>>
  BY StoryOf, AppendCharFacts DEF LogInv, LogShape, At, Moves
<1>2. szLk \in Nat /\ szLk < Size /\ writer[w].c \in Nat /\ OffLk \in Nat
      /\ OffLk + Size = LogStoreSize /\ LogStoreSize \in Nat /\ Size \in Int
  BY <1>1, StoryOf, StageFacts DEF StoryCounts
<1>3. /\ pbuff'[OffLk + szLk] = writer[w].c
      /\ \A p \in Nat : p # szLk /\ OffLk + p <= LogStoreSize => pbuff'[OffLk + p] = pbuff[OffLk + p]
  BY <1>1, <1>2, ByteWritten DEF LogInv
<1>4. ~lkFull /\ szLk <= Size
  BY <1>1, StageFacts DEF StoryCounts
<1>5. OffLk' = OffLk /\ Size' = Size
  BY <1>1 DEF OffLk, Size
<1>7. StoryCounts(writer[w].at, writer[w].c, writer[w].reg)'
  <2>1. Kept("append", writer[w].c) = logKept /\ Kept(writer[w].at, writer[w].c)' = logKept
    BY <1>1 DEF Kept, Printed
  <2>2. "load" \notin Renewing
    BY StageFacts
  <2>3. QED BY <1>1, <1>2, <1>3, <1>4, <1>5, <2>1, <2>2 DEF StoryCounts
<1>8. StoryBytes(writer[w].at, writer[w].c)'
  <2>1. Kept("append", writer[w].c) = logKept /\ Kept(writer[w].at, writer[w].c)' = logKept
    BY <1>1 DEF Kept, Printed
  <2>2. \A p \in 0 .. szLk - 1 : pbuff[OffLk + p] = logKept[p + 1]
    BY <1>1, <1>4, <2>1, BytesInOrder, StageFacts
  <2>3. \A p \in 0 .. szLk - 1 : pbuff'[OffLk + p] = logKept[p + 1]
    BY <1>2, <1>3, <2>2
  <2>4. QED BY <1>1, <1>4, <1>5, <2>1, <2>3 DEF StoryBytes, Place
<1>9. QED
  BY <1>7, <1>8 DEF Story

\* The register holds sz_lk, and nobody else is there to change it.
LEMMA LoadSizeStory ==
    ASSUME LogInv, NEW w \in Writers, LoadSize(w), ~mingled, logStatus = "ready", ~Idle(w)
    PROVE  Story(writer[w].at, writer[w].c, writer[w].reg)'
<1>1. /\ StoryCounts("load", writer[w].c, writer[w].reg)
      /\ StoryBytes("load", writer[w].c)
      /\ writer[w].at = "load" /\ writer'[w].at = "count" /\ writer'[w].c = writer[w].c
      /\ writer'[w].reg = szLk
      /\ UNCHANGED <<szLk, lkFull, lkRenew, logKept, szPl, mingled, pbuff>>
  BY StoryOf, LoadSizeFacts DEF LogInv, LogShape, At, Moves
<1>2. OffLk' = OffLk /\ Size' = Size
  BY <1>1 DEF OffLk, Size
<1>3. Kept("load", writer[w].c) = logKept /\ Kept(writer[w].at, writer[w].c)' = logKept
  BY <1>1 DEF Kept, Printed
<1>4. "load" \in Appending /\ "count" \in Appending /\ "load" \notin Renewing /\ "count" \notin Renewing
  BY StageFacts
<1>5. StoryCounts(writer[w].at, writer[w].c, writer[w].reg)'
  BY <1>1, <1>2, <1>3, <1>4 DEF StoryCounts
<1>6. StoryBytes(writer[w].at, writer[w].c)'
  BY <1>1, <1>2, <1>3 DEF StoryBytes, Place
<1>7. QED
  BY <1>5, <1>6 DEF Story

\* The character counts.
LEMMA CountCharStory ==
    ASSUME LogInv, NEW w \in Writers, CountChar(w), ~mingled, logStatus = "ready", ~Idle(w)
    PROVE  Story(writer[w].at, writer[w].c, writer[w].reg)'
<1> DEFINE c == writer[w].c
           K == Append(logKept, writer[w].c)
<1>1. /\ StoryCounts("count", c, writer[w].reg)
      /\ StoryBytes("count", c)
      /\ writer[w].at = "count" /\ writer'[w].at = "limit" /\ writer'[w].c = c
      /\ szLk' = writer[w].reg + 1
      /\ UNCHANGED <<lkFull, lkRenew, logKept, szPl, mingled, pbuff>>
  BY StoryOf, CountCharFacts DEF LogInv, LogShape, At, Moves
<1>2. OffLk' = OffLk /\ Size' = Size
  BY <1>1 DEF OffLk, Size
<1>3. Kept("count", c) = logKept /\ Kept(writer[w].at, writer[w].c)' = K
  BY <1>1 DEF Kept, Printed
<1>4. "count" \in Appending /\ "count" \notin Renewing /\ "limit" \notin Renewing /\ "limit" \notin Appending
  BY StageFacts
<1>5. /\ c \in Nat /\ szLk \in Nat /\ logKept \in Seq(Nat) /\ Size \in Int
  BY StoryOf
<1> HIDE DEF c, K
<1>6. /\ Len(logKept) \in Nat /\ Len(K) = Len(logKept) + 1
      /\ \A i \in 1 .. Len(logKept) : K[i] = logKept[i]
      /\ K[Len(logKept) + 1] = c
  BY <1>5, KeptFacts DEF K, c
<1>7. /\ ~lkFull /\ szLk = Len(logKept) /\ szLk < Size /\ szLk' = szLk + 1 /\ pbuff[OffLk + szLk] = c
  BY <1>1, <1>3, <1>4 DEF StoryCounts
<1>8. StoryCounts(writer[w].at, writer[w].c, writer[w].reg)'
  <2>1. szLk' <= Size /\ szLk' = Len(K)
    BY <1>5, <1>6, <1>7
  <2>2. QED BY <1>1, <1>2, <1>3, <1>4, <1>6, <1>7, <2>1 DEF StoryCounts
<1>9. StoryBytes(writer[w].at, writer[w].c)'
  <2>1. \A p \in 0 .. szLk - 1 : pbuff[OffLk + p] = logKept[p + 1]
    BY <1>1, <1>3, <1>4, <1>7, BytesInOrder
  <2>2. ASSUME NEW p \in 0 .. szLk PROVE pbuff[OffLk + p] = K[p + 1]
    <3>1. CASE p = szLk
      BY <3>1, <1>6, <1>7
    <3>2. CASE p # szLk
      <4>1. p \in 0 .. szLk - 1 /\ p + 1 \in 1 .. Len(logKept)
        BY <3>2, <1>5, <1>7
      <4>2. QED BY <4>1, <2>1, <1>6
    <3>3. QED BY <3>1, <3>2
  <2>3. szLk' - 1 = szLk
    BY <1>5, <1>7
  <2>4. QED BY <1>1, <1>2, <1>3, <1>7, <2>2, <2>3 DEF StoryBytes, Place
<1>10. QED
  BY <1>8, <1>9 DEF Story

\* At the last byte the log is full, and its oldest character is the first.
LEMMA CheckLimitStory ==
    ASSUME LogInv, NEW w \in Writers, CheckLimit(w), ~mingled, logStatus = "ready", ~Idle(w)
    PROVE  Story(writer[w].at, writer[w].c, writer[w].reg)'
<1> DEFINE c == writer[w].c
           K == Append(logKept, writer[w].c)
<1>0. writer[w].at = "limit" /\ writer'[w].c = c /\ writer'[w].at \in {"debug", "point"}
      /\ UNCHANGED <<szLk, logKept, szPl, mingled, pbuff>>
  BY CheckLimitFacts DEF LogInv, LogShape, At, Moves
<1>1. StoryCounts("limit", c, writer[w].reg) /\ StoryBytes("limit", c)
  BY <1>0, StoryOf
<1>2. OffLk' = OffLk /\ Size' = Size
  BY <1>0 DEF OffLk, Size
<1>3. Kept("limit", c) = K /\ Kept(writer[w].at, writer[w].c)' = K
  BY <1>0 DEF Kept, Printed
<1>4. \A a \in {"limit", "debug", "point"} : a \notin Renewing /\ a \notin Appending
  BY StageFacts
<1>5. /\ c \in Nat /\ szLk \in Nat /\ logKept \in Seq(Nat) /\ Size \in Int /\ OffLk \in Nat
      /\ szLk <= Size /\ OffLk + Size = LogStoreSize /\ LogStoreSize \in Nat
  BY StoryOf
<1> HIDE DEF c, K
<1>6. K \in Seq(Nat) /\ Len(K) \in Nat
  BY <1>5, KeptFacts DEF K, c
<1>7. ~lkFull /\ szLk = Len(K)
  BY <1>1, <1>3, <1>4 DEF StoryCounts
<1>8. \A p \in 0 .. szLk - 1 : pbuff[OffLk + p] = K[p + 1]
  BY <1>1, <1>3, <1>4, <1>7, BytesInOrder
<1>9. CASE OffLk + szLk >= LogStoreSize
  <2>1. writer'[w].at = "debug" /\ lkFull' = TRUE /\ lkRenew' = 0
    BY <1>9, CheckLimitFacts DEF LogInv, LogShape, At
  <2>2. szLk = Size
    BY <1>5, <1>9
  <2>3. StoryCounts(writer[w].at, writer[w].c, writer[w].reg)'
    BY <1>0, <1>2, <1>3, <1>4, <1>5, <1>6, <1>7, <2>1, <2>2 DEF StoryCounts
  <2>4. \A p \in 0 .. szLk - 1 : Place(p, Len(K))' = p + 1
    <3>1. \A p \in 0 .. szLk - 1 : ~(p < lkRenew') /\ Len(K) - szLk - lkRenew' + p + 1 = p + 1
      BY <1>5, <1>6, <1>7, <2>1
    <3>2. K' = K
      BY <1>0 DEF K, c
    <3>3. QED BY <1>0, <2>1, <3>1, <3>2 DEF Place
  <2>5. StoryBytes(writer[w].at, writer[w].c)'
    <3>1. ASSUME NEW p \in 0 .. szLk - 1
          PROVE  pbuff'[OffLk' + p] = K[Place(p, Len(K))']
      BY <1>0, <1>2, <1>8, <2>4
    <3>2. K' = K
      BY <1>0 DEF K, c
    <3>3. QED BY <1>0, <1>2, <1>3, <3>1, <3>2 DEF StoryBytes
  <2>6. QED BY <2>3, <2>5 DEF Story
<1>10. CASE ~(OffLk + szLk >= LogStoreSize)
  <2>1. writer'[w].at = "point" /\ lkFull' = lkFull
    BY <1>10, CheckLimitFacts DEF LogInv, LogShape, At
  <2>2. szLk # Size
    BY <1>5, <1>10
  <2>3. StoryCounts(writer[w].at, writer[w].c, writer[w].reg)'
    BY <1>0, <1>2, <1>3, <1>4, <1>5, <1>6, <1>7, <2>1, <2>2 DEF StoryCounts
  <2>4. StoryBytes(writer[w].at, writer[w].c)'
    BY <1>0, <1>2, <1>3, <1>7, <1>8, <2>1 DEF StoryBytes, Place
  <2>5. QED BY <2>3, <2>4 DEF Story
<1>11. QED BY <1>9, <1>10

\* The characters of LOG_DEBUG are not kept.
LEMMA LogDebugEndsStory ==
    ASSUME LogInv, NEW w \in Writers, LogDebugEnds(w), ~mingled, logStatus = "ready", ~Idle(w)
    PROVE  Story(writer[w].at, writer[w].c, writer[w].reg)'
<1>1. /\ StoryCounts("debug", writer[w].c, writer[w].reg)
      /\ StoryBytes("debug", writer[w].c)
      /\ writer[w].at = "debug" /\ writer'[w].at = "point" /\ writer'[w].c = writer[w].c
      /\ UNCHANGED <<szLk, lkFull, lkRenew, logKept, szPl, mingled, pbuff>>
  BY StoryOf, LogDebugEndsFacts DEF LogInv, LogShape, At, Moves
<1>2. OffLk' = OffLk /\ Size' = Size
  BY <1>1 DEF OffLk, Size
<1>3. Kept(writer[w].at, writer[w].c)' = Kept("debug", writer[w].c)
  BY <1>1 DEF Kept, Printed
<1>4. \A a \in {"limit", "debug", "point"} : a \notin Renewing /\ a \notin Appending
  BY StageFacts
<1>5. StoryCounts(writer[w].at, writer[w].c, writer[w].reg)'
  BY <1>1, <1>2, <1>3, <1>4 DEF StoryCounts
<1>6. StoryBytes(writer[w].at, writer[w].c)'
  BY <1>1, <1>2, <1>3 DEF StoryBytes, Place
<1>7. QED
  BY <1>5, <1>6 DEF Story

\* The oldest character is gone, before the next to be replaced is another.
LEMMA RenewCharStory ==
    ASSUME LogInv, NEW w \in Writers, RenewChar(w), ~mingled, logStatus = "ready", ~Idle(w)
    PROVE  Story(writer[w].at, writer[w].c, writer[w].reg)'
<1>1. /\ StoryCounts("renew", writer[w].c, writer[w].reg)
      /\ StoryBytes("renew", writer[w].c)
      /\ writer[w].at = "renew" /\ writer'[w].at = "loadRenew" /\ writer'[w].c = writer[w].c
      /\ pbuff' = [pbuff EXCEPT ![OffLk + lkRenew] = writer[w].c]
      /\ UNCHANGED <<szLk, lkFull, lkRenew, logKept, szPl, mingled>>
  BY StoryOf, RenewCharFacts DEF LogInv, LogShape, At, Moves
<1>2. lkRenew \in Nat /\ lkRenew < Size /\ writer[w].c \in Nat /\ OffLk \in Nat
      /\ OffLk + Size = LogStoreSize /\ LogStoreSize \in Nat /\ Size \in Int /\ szLk \in Nat
  BY <1>1, StoryOf, StageFacts DEF StoryCounts
<1>3. /\ pbuff'[OffLk + lkRenew] = writer[w].c
      /\ \A p \in Nat : p # lkRenew /\ OffLk + p <= LogStoreSize => pbuff'[OffLk + p] = pbuff[OffLk + p]
  BY <1>1, <1>2, ByteWritten DEF LogInv
<1>4. lkFull /\ szLk = Size
  BY <1>1, StageFacts DEF StoryCounts
<1>5. OffLk' = OffLk /\ Size' = Size
  BY <1>1 DEF OffLk, Size
<1>6. Kept("renew", writer[w].c) = logKept /\ Kept(writer[w].at, writer[w].c)' = logKept
  BY <1>1 DEF Kept, Printed
<1>7. /\ "renew" \in Renewing /\ "loadRenew" \in Renewing
      /\ "renew" \notin Appending /\ "loadRenew" \notin Appending
  BY StageFacts
<1>8. StoryCounts(writer[w].at, writer[w].c, writer[w].reg)'
  BY <1>1, <1>3, <1>5, <1>6, <1>7 DEF StoryCounts
<1>9. StoryBytes(writer[w].at, writer[w].c)'
  <2>1. \A p \in 0 .. szLk - 1 : pbuff[OffLk + p] = logKept[Place(p, Len(logKept))]
    BY <1>1, <1>6 DEF StoryBytes
  <2>2. \A p \in 0 .. szLk - 1 : Place(p, Len(logKept))' = Place(p, Len(logKept))
    BY <1>1 DEF Place
  <2>3. \A p \in 0 .. szLk - 1 : p \in Nat /\ OffLk + p <= LogStoreSize
    BY <1>2, <1>4
  <2>4. \A p \in 0 .. szLk - 1 : p = lkRenew \/ pbuff'[OffLk + p] = logKept[Place(p, Len(logKept))]
    BY <1>3, <2>1, <2>3
  <2>5. QED BY <1>1, <1>5, <1>6, <2>2, <2>4 DEF StoryBytes
<1>10. QED
  BY <1>8, <1>9 DEF Story

\* The register holds lk_renew.
LEMMA LoadRenewStory ==
    ASSUME LogInv, NEW w \in Writers, LoadRenew(w), ~mingled, logStatus = "ready", ~Idle(w)
    PROVE  Story(writer[w].at, writer[w].c, writer[w].reg)'
<1>1. /\ StoryCounts("loadRenew", writer[w].c, writer[w].reg)
      /\ StoryBytes("loadRenew", writer[w].c)
      /\ writer[w].at = "loadRenew" /\ writer'[w].at = "countRenew" /\ writer'[w].c = writer[w].c
      /\ writer'[w].reg = lkRenew
      /\ UNCHANGED <<szLk, lkFull, lkRenew, logKept, szPl, mingled, pbuff>>
  BY StoryOf, LoadRenewFacts DEF LogInv, LogShape, At, Moves
<1>2. OffLk' = OffLk /\ Size' = Size
  BY <1>1 DEF OffLk, Size
<1>3. Kept("loadRenew", writer[w].c) = logKept /\ Kept(writer[w].at, writer[w].c)' = logKept
  BY <1>1 DEF Kept, Printed
<1>4. /\ "loadRenew" \in Renewing /\ "countRenew" \in Renewing
      /\ "loadRenew" \notin Appending /\ "countRenew" \notin Appending
  BY StageFacts
<1>5. StoryCounts(writer[w].at, writer[w].c, writer[w].reg)'
  BY <1>1, <1>2, <1>3, <1>4 DEF StoryCounts
<1>6. StoryBytes(writer[w].at, writer[w].c)'
  BY <1>1, <1>2, <1>3 DEF StoryBytes, Place
<1>7. QED
  BY <1>5, <1>6 DEF Story

\* The character is the newest, and the one behind it the oldest.
LEMMA CountRenewStory ==
    ASSUME LogInv, NEW w \in Writers, CountRenew(w), ~mingled, logStatus = "ready", ~Idle(w)
    PROVE  Story(writer[w].at, writer[w].c, writer[w].reg)'
<1> DEFINE c == writer[w].c
           K == Append(logKept, writer[w].c)
<1>1. /\ StoryCounts("countRenew", c, writer[w].reg)
      /\ StoryBytes("countRenew", c)
      /\ writer[w].at = "countRenew" /\ writer'[w].at = "point" /\ writer'[w].c = c
      /\ lkRenew' = writer[w].reg + 1
      /\ UNCHANGED <<szLk, lkFull, logKept, szPl, mingled, pbuff>>
  BY StoryOf, CountRenewFacts DEF LogInv, LogShape, At, Moves
<1>2. OffLk' = OffLk /\ Size' = Size
  BY <1>1 DEF OffLk, Size
<1>3. Kept("countRenew", c) = logKept /\ Kept(writer[w].at, writer[w].c)' = K
  BY <1>1 DEF Kept, Printed
<1>4. "countRenew" \in Renewing /\ "countRenew" \notin Appending /\ "point" \notin Renewing /\ "point" \notin Appending
  BY StageFacts
<1>5. /\ c \in Nat /\ szLk \in Nat /\ lkRenew \in Nat /\ logKept \in Seq(Nat) /\ OffLk \in Nat
  BY StoryOf
<1> HIDE DEF c, K
<1>6. /\ Len(logKept) \in Nat /\ Len(K) = Len(logKept) + 1
      /\ \A i \in 1 .. Len(logKept) : K[i] = logKept[i]
      /\ K[Len(logKept) + 1] = c
  BY <1>5, KeptFacts DEF K, c
<1>7. /\ lkFull /\ szLk = Size /\ lkRenew < szLk /\ szLk <= Len(logKept)
      /\ lkRenew' = lkRenew + 1 /\ pbuff[OffLk + lkRenew] = c
  BY <1>1, <1>3, <1>4 DEF StoryCounts
<1>8. StoryCounts(writer[w].at, writer[w].c, writer[w].reg)'
  BY <1>1, <1>2, <1>3, <1>4, <1>5, <1>6, <1>7 DEF StoryCounts
<1>9. StoryBytes(writer[w].at, writer[w].c)'
  <2>1. \A p \in 0 .. szLk - 1 : p # lkRenew => pbuff[OffLk + p] = logKept[Place(p, Len(logKept))]
    BY <1>1, <1>3 DEF StoryBytes
  <2> DEFINE q(p) == IF p < lkRenew + 1 THEN Len(K) - (lkRenew + 1) + p + 1 ELSE Len(K) - szLk - (lkRenew + 1) + p + 1
  <2>2. ASSUME NEW p \in 0 .. szLk - 1 PROVE pbuff[OffLk + p] = K[q(p)]
    <3>1. CASE p = lkRenew
      <4>1. q(p) = Len(logKept) + 1
        BY <3>1, <1>5, <1>6
      <4>2. QED BY <4>1, <3>1, <1>6, <1>7
    <3>2. CASE p # lkRenew
      <4>1. q(p) = Place(p, Len(logKept)) /\ q(p) \in 1 .. Len(logKept)
        <5>1. CASE p < lkRenew
          BY <5>1, <1>5, <1>6, <1>7 DEF Place
        <5>2. CASE p > lkRenew
          BY <5>2, <1>5, <1>6, <1>7 DEF Place
        <5>3. QED BY <5>1, <5>2, <3>2, <1>5
      <4>2. QED BY <4>1, <3>2, <2>1, <1>6
    <3>3. QED BY <3>1, <3>2
  <2>3. K' = K
    BY <1>1 DEF K, c
  <2>4. \A p \in 0 .. szLk - 1 : Place(p, Len(K))' = q(p)
    BY <1>1, <1>7, <2>3 DEF Place
  <2> HIDE DEF q
  <2>5. QED BY <1>1, <1>2, <1>3, <2>2, <2>3, <2>4 DEF StoryBytes
<1>10. QED
  BY <1>8, <1>9 DEF Story

\* The character is part of what was printed.
LEMMA LogEndsStory ==
    ASSUME LogInv, NEW w \in Writers, LogEnds(w), ~mingled, logStatus = "ready", ~Idle(w)
    PROVE  writer'[w].at = "idle" /\ Story("idle", 0, 0)'
<1>1. /\ StoryCounts("point", writer[w].c, writer[w].reg)
      /\ StoryBytes("point", writer[w].c)
      /\ writer[w].at = "point" /\ writer'[w].at = "idle" /\ writer'[w].c = writer[w].c
      /\ logKept' = Append(logKept, writer[w].c)
      /\ UNCHANGED <<szLk, lkFull, lkRenew, szPl, mingled, pbuff>>
  BY StoryOf, LogEndsFacts DEF LogInv, LogShape, At, Moves
<1>2. OffLk' = OffLk /\ Size' = Size
  BY <1>1 DEF OffLk, Size
<1>3. Kept("idle", 0)' = Kept("point", writer[w].c)
  BY <1>1 DEF Kept, Printed
<1>4. \A a \in {"idle", "point"} : a \notin Renewing /\ a \notin Appending
  BY StageFacts
<1>5. StoryCounts("idle", 0, 0)'
  BY <1>1, <1>2, <1>3, <1>4 DEF StoryCounts
<1>6. StoryBytes("idle", 0)'
  BY <1>1, <1>2, <1>3 DEF StoryBytes, Place
<1>7. QED
  BY <1>1, <1>5, <1>6 DEF Story

\* Every step of lk_log_store keeps the story.
LEMMA StoryStep ==
    ASSUME LogInv, NEW w \in Writers, LogStep(w)
    PROVE  LogStory'
<1>1. LogShape /\ Moves(w) /\ ~Idle(w) /\ logStatus = "ready" /\ LogTypes
  BY LogStepShape DEF LogInv, LogShape
<1>2. SUFFICES ASSUME ~mingled
               PROVE  IF writer'[w].at = "idle" THEN Story("idle", 0, 0)'
                      ELSE Story(writer[w].at, writer[w].c, writer[w].reg)'
  BY <1>1, StoryMoves
<1>3. CASE LogEnds(w)
  BY <1>1, <1>2, <1>3, LogEndsStory
<1>4. CASE ~LogEnds(w)
  <2>1. writer'[w].at # "idle"
    BY <1>1, <1>4, AppendCharFacts, LoadSizeFacts, CountCharFacts, CheckLimitFacts, LogDebugEndsFacts,
       RenewCharFacts, LoadRenewFacts, CountRenewFacts DEF LogStep, At
  <2>2. Story(writer[w].at, writer[w].c, writer[w].reg)'
    BY <1>1, <1>2, <1>4, AppendCharStory, LoadSizeStory, CountCharStory, CheckLimitStory, LogDebugEndsStory,
       RenewCharStory, LoadRenewStory, CountRenewStory DEF LogStep
  <2>3. QED BY <2>1, <2>2
<1>5. QED BY <1>3, <1>4

\* Who begins takes up the story where the last one has left it; at the end of the buffer it goes
\* on at its beginning.
LEMMA StoryBegins ==
    ASSUME LogInv, NEW w \in Writers, LogBegins(w)
    PROVE  LogStory'
<1>1. LogShape /\ LogTypes /\ szLk \in Nat /\ lkRenew \in Nat
  BY DEF LogInv, LogShape, LogTypes
<1>2. /\ Idle(w) /\ logStatus = "ready" /\ (mingled => mingled')
      /\ writer'[w].at = (IF lkFull THEN "renew" ELSE "append")
      /\ \A v \in Writers : v # w => writer'[v] = writer[v]
      /\ lkRenew' = (IF lkFull /\ lkRenew >= szLk THEN 0 ELSE lkRenew)
      /\ mingled' \in BOOLEAN /\ (mingled' <=> mingled \/ \E v \in Writers \ {w} : ~Idle(v))
      /\ UNCHANGED <<logStatus, szPl, szLk, lkFull, pbuff, logKept>>
  BY <1>1, LogBeginsFacts
<1>3. SUFFICES ASSUME ~mingled'
               PROVE  Story(writer[w].at, writer[w].c, writer[w].reg)'
  <2>1. ~Idle(w)'
    BY <1>2 DEF Idle
  <2>2. ~mingled' => \A v \in Writers : v # w => Idle(v)'
    BY <1>2 DEF Idle
  <2>3. QED BY <2>1, <2>2 DEF LogStory
<1>4. \A v \in Writers : Idle(v)
  BY <1>2, <1>3
<1>5. StoryCounts("idle", 0, 0) /\ StoryBytes("idle", 0)
  BY <1>2, <1>3, <1>4 DEF LogInv, LogStory, Story
<1>6. OffLk' = OffLk /\ Size' = Size
  BY <1>2 DEF OffLk, Size
<1>7. /\ Kept("idle", 0) = logKept /\ Kept(writer[w].at, writer[w].c)' = logKept
      /\ writer'[w].at \notin {"loadRenew", "countRenew", "load", "count", "limit", "idle", "debug", "point"}
  BY <1>2 DEF Kept, Printed
<1>8. Size \in Int /\ Size >= 1
  BY <1>1, <1>2, SizeFacts
<1>9. Len(logKept) \in Nat
  BY <1>1 DEF LogTypes
<1>10. StoryCounts(writer[w].at, writer[w].c, writer[w].reg)'
  <2>1. CASE lkFull
    <3>1. writer'[w].at = "renew" /\ szLk = Size /\ lkRenew' < szLk
      BY <1>1, <1>2, <1>5, <1>8, <2>1 DEF StoryCounts
    <3>2. QED BY <1>1, <1>2, <1>5, <1>6, <1>7, <2>1, <3>1, StageFacts DEF StoryCounts
  <2>2. CASE ~lkFull
    <3>1. szLk < Size
      BY <1>1, <1>5, <1>8, <2>2 DEF StoryCounts
    <3>2. writer'[w].at = "append"
      BY <1>2, <2>2
    <3>3. QED BY <1>2, <1>5, <1>6, <1>7, <2>2, <3>1, <3>2, StageFacts DEF StoryCounts
  <2>3. QED BY <2>1, <2>2
<1>11. StoryBytes(writer[w].at, writer[w].c)'
  <2>1. \A p \in 0 .. szLk - 1 : pbuff[OffLk + p] = logKept[Place(p, Len(logKept))]
    BY <1>5, <1>7 DEF StoryBytes
  <2>2. \A p \in 0 .. szLk - 1 : Place(p, Len(logKept))' = Place(p, Len(logKept))
    <3>1. CASE lkFull /\ lkRenew >= szLk
      <4>1. lkRenew = szLk /\ lkRenew' = 0
        BY <1>1, <1>2, <1>5, <3>1 DEF StoryCounts
      <4>2. QED BY <1>1, <1>2, <1>9, <3>1, <4>1 DEF Place
    <3>2. CASE ~(lkFull /\ lkRenew >= szLk)
      BY <1>2, <3>2 DEF Place
    <3>3. QED BY <3>1, <3>2
  <2>3. QED BY <1>2, <1>6, <1>7, <2>1, <2>2 DEF StoryBytes
<1>12. QED
  BY <1>10, <1>11 DEF Story

\* log_store_init begins an empty log.
LEMMA LogStoreInitKeeps ==
    ASSUME LogInv, NEW good \in BOOLEAN, LogStoreInit(good)
    PROVE  LogInv'
<1>1. LogShape /\ LogBytes
  BY DEF LogInv
<1>2. /\ logStatus # "ready" /\ (\A w \in Writers : Idle(w) /\ Idle(w)')
      /\ ~mingled /\ ~mingled' /\ ~lkFull /\ ~lkFull' /\ logKept' = <<>> /\ szLk' = 0 /\ lkRenew' = 0
      /\ logStatus' = "ready" => OffLk < LogStoreSize
      /\ UNCHANGED <<szPl, pbuff, writer, logEnable>>
      /\ LogShape'
  BY <1>1, LogStoreInitFacts
<1>3. LogBytes'
  BY <1>1, <1>2, BytesSame
<1>4. OffLk' = OffLk /\ Size' = Size /\ OffLk \in Nat /\ LogStoreSize \in Nat /\ Size \in Int
      /\ OffLk + Size = LogStoreSize
  BY <1>1, <1>2, SizeFacts DEF OffLk, Size
<1>5. LogResumes'
  BY <1>2 DEF LogStoreInit, LogResumes
<1>6. LogStory'
  <2> SUFFICES ASSUME logStatus' = "ready" PROVE Story("idle", 0, 0)'
    BY <1>2 DEF LogStory, Idle
  <2>1. Size >= 1
    BY <1>2, <1>4
  <2>2. Kept("idle", 0)' = <<>>
    BY <1>2 DEF Kept, Printed
  <2>3. StoryCounts("idle", 0, 0)'
    BY <1>2, <1>4, <2>1, <2>2, StageFacts DEF StoryCounts
  <2>4. StoryBytes("idle", 0)'
    BY <1>2 DEF StoryBytes
  <2>5. QED BY <2>3, <2>4 DEF Story
<1>7. QED
  BY <1>2, <1>3, <1>5, <1>6 DEF LogInv

---------------------------------------------------------------------------
(* The switch *)

\* A print that fills the log switches it off, and on when it has said so.
LEMMA ResumesStep ==
    ASSUME LogInv, NEW w \in Writers, LogStep(w)
    PROVE  LogResumes'
<1>1. /\ LogTypes /\ LogResumes /\ Moves(w)
      /\ config' = config /\ \A v \in Writers : v # w => writer'[v] = writer[v]
  BY LogStepShape DEF LogInv, LogShape, Moves
<1>2. CASE CheckLimit(w)
  <2>1. CASE OffLk + szLk >= LogStoreSize
    <3>1. writer'[w].at = "debug"
      BY <1>1, <1>2, <2>1, CheckLimitFacts DEF At
    <3>2. QED BY <3>1 DEF LogResumes
  <2>2. CASE ~(OffLk + szLk >= LogStoreSize)
    <3>1. writer[w].at = "limit" /\ logEnable' = logEnable
      BY <1>2, <2>2 DEF CheckLimit
    <3>2. QED BY <1>1, <3>1 DEF LogResumes
  <2>3. QED BY <2>1, <2>2
<1>3. CASE LogDebugEnds(w)
  BY <1>3 DEF LogDebugEnds, LogResumes
<1>4. CASE AppendChar(w) \/ LoadSize(w) \/ CountChar(w) \/ RenewChar(w) \/ LoadRenew(w) \/ CountRenew(w) \/ LogEnds(w)
  <2>1. writer[w].at # "debug" /\ logEnable' = logEnable
    BY <1>4 DEF AppendChar, LoadSize, CountChar, RenewChar, LoadRenew, CountRenew, LogEnds
  <2>2. QED BY <1>1, <2>1 DEF LogResumes
<1>5. QED
  BY <1>2, <1>3, <1>4 DEF LogStep

\* What the operations on the settings leave alone.
Beside ==
    UNCHANGED <<logStatus, szPl, chars, mingled, szLk, lkFull, lkRenew, pbuff, writer, logKept>>

\* Every one of their steps switches the log on, or is one of those that will.
LEMMA ConfigBeside ==
    ASSUME config \in ConfigTypes,
           \/ ConfigStep
           \/ \E w \in Writers, sets \in Changes : ConfigBegins(w, sets)
    PROVE  Beside /\ LogResumes'
<1>1. ASSUME NEW w \in Writers, NEW sets \in Changes, ConfigBegins(w, sets)
      PROVE  Beside /\ LogResumes'
  <2>1. config'.busy = TRUE
    BY <1>1 DEF ConfigBegins
  <2>2. QED BY <1>1, <2>1 DEF ConfigBegins, LogResumes, Beside, bufferVars, headerVars
<1>2. CASE TransferBegins
  <2>1. Beside
    BY <1>2 DEF TransferBegins, Beside, bufferVars, headerVars
  <2>2. config'.busy = TRUE
    BY <1>2 DEF TransferBegins, ConfigTypes
  <2>3. QED BY <2>1, <2>2, <1>2 DEF LogResumes
<1>3. ASSUME NEW a \in BOOLEAN, NEW b \in BOOLEAN, ConfigFound(a) \/ ReadEnds(a, b) \/ SignEnds(a) \/ WriteEnds(a)
      PROVE  Beside /\ LogResumes'
  <2>1. logEnable' = TRUE
    BY <1>3 DEF ConfigFound, ReadEnds, SignEnds, WriteEnds
  <2>2. Beside
    BY <1>3 DEF ConfigFound, ReadEnds, SignEnds, WriteEnds, Beside, bufferVars, headerVars
  <2>3. QED BY <2>1, <2>2 DEF LogResumes
<1>4. QED
  BY <1>1, <1>2, <1>3 DEF ConfigStep

---------------------------------------------------------------------------
(* The settings *)

\* A block that is signed is no unsigned one, and with no settings at all they are the same.
LEMMA SignedFacts ==
    /\ NoSettings \in Settings
    /\ NoConfig.header = NoSettings /\ NoConfig.sets = Nothing /\ NoConfig.at = "none"
    /\ \A block \in Settings : Signed(block) = block
    /\ Signed(Unsigned) = NoSettings
<1>1. NoSettings \in Settings
  BY DEF NoSettings, Settings
<1>2. ASSUME NEW block \in Settings PROVE Signed(block) = block
  <2>1. CASE block # Unsigned
    BY <2>1 DEF Signed
  <2>2. CASE block = Unsigned
    <3>1. \A s \in LogSettings : block[s] = "unsigned" /\ block[s] \in {"none", "on", "off"}
      BY <2>2 DEF Settings, Unsigned
    <3>2. LogSettings = {}
      BY <3>1
    <3>3. block = NoSettings
      BY <3>2 DEF Settings, NoSettings
    <3>4. QED BY <3>3 DEF Signed
  <2>3. QED BY <2>1, <2>2
<1>3. QED
  BY <1>1, <1>2 DEF Signed, NoConfig

\* The step and the header of an operation that goes on.
LEMMA ConfigGoesFacts ==
    ASSUME config \in ConfigTypes, NEW at \in ConfigStages, NEW header \in Settings, ConfigGoes(at, header)
    PROVE  /\ config' \in ConfigTypes /\ config'.at = at
           /\ at # "none" => config'.header = header
<1>1. CASE at = "none"
  <2>1. config' = NoConfig
    BY <1>1 DEF ConfigGoes
  <2>2. NoConfig \in ConfigTypes
    BY SignedFacts DEF NoConfig, ConfigTypes, ConfigStages, Changes
  <2>3. QED BY <1>1, <2>1, <2>2 DEF NoConfig
<1>2. CASE at # "none"
  <2> DEFINE r == [by |-> config.by, at |-> at, busy |-> FALSE, header |-> header, sets |-> config.sets]
  <2>1. config' = r
    BY <1>2 DEF ConfigGoes
  <2>2. config.by \in Writers \cup {"nobody"} /\ config.sets \in Changes
    BY DEF ConfigTypes
  <2>3. r \in ConfigTypes /\ r.at = at /\ r.header = header
    BY <2>2 DEF ConfigTypes
  <2>4. QED BY <2>1, <2>3
<1>3. QED BY <1>1, <1>2

\* Nothing is in the header before it is read.
LEMMA ConfigBeginsKeeps ==
    ASSUME LogSettingsInv, NEW w \in Writers, NEW sets \in Changes, ConfigBegins(w, sets)
    PROVE  LogSettingsInv'
<1> DEFINE r == [by |-> w, at |-> "find", busy |-> TRUE, header |-> NoSettings, sets |-> sets]
<1>1. r \in ConfigTypes /\ r.at = "find"
  BY SignedFacts DEF ConfigTypes, ConfigStages
<1>2. config' = r /\ UNCHANGED <<expdb, meantSettings, unread>>
  BY DEF ConfigBegins
<1>3. QED
  BY <1>1, <1>2 DEF LogSettingsInv, Signed

\* The partition is found, or the operation is at its end.
LEMMA ConfigFoundKeeps ==
    ASSUME LogSettingsInv, NEW there \in BOOLEAN, ConfigFound(there)
    PROVE  LogSettingsInv'
<1>1. PICK at \in {"read", "none"} : ConfigGoes(at, NoSettings)
  BY DEF ConfigFound
<1>2. config' \in ConfigTypes /\ config'.at = at
  BY <1>1, ConfigGoesFacts, SignedFacts DEF LogSettingsInv, ConfigStages
<1>3. UNCHANGED <<expdb, meantSettings, unread>>
  BY DEF ConfigFound
<1>4. QED
  BY <1>1, <1>2, <1>3 DEF LogSettingsInv, Signed

\* A transfer begins with the header as it is.
LEMMA TransferBeginsKeeps ==
    ASSUME LogSettingsInv, TransferBegins
    PROVE  LogSettingsInv'
<1>1. config \in ConfigTypes /\ config' = [config EXCEPT !.busy = TRUE]
  BY DEF TransferBegins, LogSettingsInv
<1>2. config' \in ConfigTypes /\ config'.at = config.at /\ config'.header = config.header
  BY <1>1 DEF ConfigTypes
<1>3. UNCHANGED <<expdb, meantSettings, unread>>
  BY DEF TransferBegins
<1>4. QED
  BY <1>2, <1>3 DEF LogSettingsInv, Signed

\* The header is the one of the block, if that could be read.
LEMMA ReadEndsKeeps ==
    ASSUME LogSettingsInv, NEW readable \in BOOLEAN, NEW inRange \in BOOLEAN, ReadEnds(readable, inRange)
    PROVE  LogSettingsInv'
<1> DEFINE signed == readable /\ expdb # Unsigned
<1>1. PICK header : header = IF signed THEN expdb ELSE NoSettings
  OBVIOUS
<1>2. PICK at : at = IF signed /\ inRange THEN AfterSign ELSE "sign"
  OBVIOUS
<1>3. /\ ConfigGoes(at, header) /\ unread' = (unread \/ ~readable)
      /\ expdb' = expdb /\ meantSettings' = meantSettings
  BY <1>1, <1>2 DEF ReadEnds
<1>4. at \in ConfigStages
  BY <1>2 DEF AfterSign, ConfigStages
<1>5. header \in Settings /\ (readable => header = Signed(expdb))
  BY <1>1, SignedFacts DEF LogSettingsInv, Signed
<1>6. config' \in ConfigTypes /\ config'.at = at /\ (at # "none" => config'.header = header)
  BY <1>3, <1>4, <1>5, ConfigGoesFacts DEF LogSettingsInv
<1>7. Signed(expdb)' = Signed(expdb)
  BY <1>3 DEF Signed
<1>8. QED
  BY <1>3, <1>5, <1>6, <1>7 DEF LogSettingsInv

\* A block that is read and written back has the same settings.
LEMMA SignEndsKeeps ==
    ASSUME LogSettingsInv, NEW written \in BOOLEAN, SignEnds(written)
    PROVE  LogSettingsInv'
<1>1. PICK header \in Settings : header = config.header
  BY DEF LogSettingsInv, ConfigTypes
<1>2. PICK at \in ConfigStages : at = AfterSign
  BY DEF AfterSign, ConfigStages
<1>3. /\ ConfigGoes(at, header) /\ expdb' = (IF written THEN header ELSE expdb)
      /\ unread' = unread /\ meantSettings' = meantSettings /\ config.at = "sign"
  BY <1>1, <1>2 DEF SignEnds, ConfigIs
<1>4. config' \in ConfigTypes /\ config'.at = at /\ (at # "none" => config'.header = header)
  BY <1>3, ConfigGoesFacts DEF LogSettingsInv
<1>5. unread \/ header = Signed(expdb)
  BY <1>1, <1>3 DEF LogSettingsInv
<1>6. expdb' \in Settings \cup {Unsigned}
  BY <1>3 DEF LogSettingsInv
<1>7. unread \/ Signed(expdb)' = Signed(expdb)
  <2>1. CASE written
    <3>1. Signed(expdb)' = header
      BY <1>3, <2>1, SignedFacts DEF Signed
    <3>2. QED BY <3>1, <1>5
  <2>2. CASE ~written
    BY <1>3, <2>2 DEF Signed
  <2>3. QED BY <2>1, <2>2
<1>8. QED
  BY <1>1, <1>3, <1>4, <1>5, <1>6, <1>7 DEF LogSettingsInv

\* set_emmc_config changes the one setting.
LEMMA WriteEndsKeeps ==
    ASSUME LogSettingsInv, NEW written \in BOOLEAN, WriteEnds(written)
    PROVE  LogSettingsInv'
<1>1. PICK header \in Settings : header = config.header
  BY DEF LogSettingsInv, ConfigTypes
<1>2. PICK s, v : s = config.sets.setting /\ v = config.sets.value
  OBVIOUS
<1>3. config.sets \in Changes
  BY DEF LogSettingsInv, ConfigTypes
<1>4. v \in {"none", "on", "off"}
  BY <1>2, <1>3 DEF Changes, Nothing
<1>5. PICK new \in Settings : new = [header EXCEPT ![s] = v]
  BY <1>4 DEF Settings
<1>6. /\ ConfigGoes("none", NoSettings) /\ expdb' = (IF written THEN new ELSE expdb)
      /\ meantSettings' = (IF written THEN [meantSettings EXCEPT ![s] = v] ELSE meantSettings)
      /\ unread' = unread /\ config.at = "write"
  BY <1>1, <1>2, <1>5 DEF WriteEnds, ConfigIs
<1>7. config' \in ConfigTypes /\ config'.at = "none"
  BY <1>6, ConfigGoesFacts, SignedFacts DEF LogSettingsInv, ConfigStages
<1>8. unread \/ (header = Signed(expdb) /\ meantSettings = header)
  BY <1>1, <1>6 DEF LogSettingsInv
<1>9. unread \/ meantSettings' = Signed(expdb)'
  <2>1. CASE written
    <3>1. Signed(expdb)' = new
      BY <1>6, <2>1, SignedFacts DEF Signed
    <3>2. QED BY <3>1, <1>5, <1>6, <1>8, <2>1
  <2>2. CASE ~written
    BY <1>6, <1>8, <2>2 DEF Signed
  <2>3. QED BY <2>1, <2>2
<1>10. expdb' \in Settings \cup {Unsigned}
  BY <1>6 DEF LogSettingsInv
<1>11. QED
  BY <1>6, <1>7, <1>9, <1>10 DEF LogSettingsInv

\* Every step of an operation keeps the settings.
LEMMA ConfigStepKeeps ==
    ASSUME LogSettingsInv, ConfigStep
    PROVE  LogSettingsInv'
<1>1. \/ \E there \in BOOLEAN : ConfigFound(there)
      \/ TransferBegins
      \/ \E readable, inRange \in BOOLEAN : ReadEnds(readable, inRange)
      \/ \E written \in BOOLEAN : SignEnds(written)
      \/ \E written \in BOOLEAN : WriteEnds(written)
  BY DEF ConfigStep
<1>2. QED
  BY <1>1, ConfigFoundKeeps, TransferBeginsKeeps, ReadEndsKeeps, SignEndsKeeps, WriteEndsKeeps

---------------------------------------------------------------------------
(* The theorems *)

\* The preloader has left its log, and nothing behind the buffer.
LEMMA LogInitHolds == LogInit => LogInv /\ LogSettingsInv
<1> SUFFICES ASSUME LogInit PROVE LogInv /\ LogSettingsInv
  OBVIOUS
<1>1. /\ szPl \in Nat /\ OffPl \in Nat /\ LogStoreSize \in Nat /\ OffLk = OffPl + szPl
  BY LogStoreAssumption DEF LogInit, OffLk
<1>2. /\ pbuff \in [0 .. LogStoreSize + Past -> Int]
      /\ \A i \in 0 .. LogStoreSize + Past :
           pbuff[i] = IF i \in OffPl .. OffPl + szPl - 1 /\ i < LogStoreSize THEN Pl ELSE Other
  BY DEF LogInit, Pl, Other
<1>3. writer \in [Writers -> [at : Stages, c : Nat, reg : Nat]] /\ \A w \in Writers : Idle(w)
  <2>1. [at |-> "idle", c |-> 0, reg |-> 0] \in [at : Stages, c : Nat, reg : Nat]
    BY DEF Stages
  <2>2. QED BY <2>1 DEF LogInit, Idle
<1>4. LogShape
  <2>1. logKept \in Seq(Nat)
    BY DEF LogInit
  <2>2. LogTypes
    BY <1>1, <1>2, <1>3, <2>1 DEF LogInit, LogTypes
  <2>3. LogQuiet /\ LogAlone
    BY <1>3 DEF LogInit, LogQuiet, LogAlone
  <2>4. QED BY <2>2, <2>3 DEF LogShape
<1>5. LogStory /\ LogResumes
  BY DEF LogInit, LogStory, LogResumes
<1>6. LogBytes
  <2>1. \A i \in OffPl .. OffLk - 1 : i < LogStoreSize => pbuff[i] = Pl
    BY <1>1, <1>2 DEF Past
  <2>2. \A i \in LogStoreSize .. LogStoreSize + Past : pbuff[i] = Other
    BY <1>1, <1>2 DEF Past
  <2>3. QED BY <1>1, <2>1, <2>2 DEF LogBytes, LogContained, Past
<1>7. LogSettingsInv
  <2>1. NoConfig \in ConfigTypes
    BY SignedFacts DEF NoConfig, ConfigTypes, ConfigStages, Changes
  <2>2. QED BY <2>1, SignedFacts DEF LogInit, LogSettingsInv
<1>8. QED BY <1>4, <1>5, <1>6, <1>7 DEF LogInv

\* What changes nothing of the log keeps its invariant, if the log will be on again.
LEMMA BesideKeeps ==
    ASSUME LogInv, Beside, LogResumes'
    PROVE  LogInv'
<1>0. UNCHANGED <<logStatus, szPl, chars, mingled, szLk, lkFull, lkRenew, pbuff, writer, logKept>>
  BY DEF Beside
<1>1. LogShape'
  BY <1>0 DEF LogInv, LogShape, LogTypes, LogQuiet, LogAlone, Idle, OffLk
<1>2. LogStory'
  <2>1. Size' = Size /\ OffLk' = OffLk /\ \A w \in Writers : Idle(w)' = Idle(w)
    BY <1>0 DEF Size, OffLk, Idle
  <2>2. ASSUME NEW a, NEW c, NEW reg, Story(a, c, reg) PROVE Story(a, c, reg)'
    <3>1. Kept(a, c)' = Kept(a, c)
      BY <1>0 DEF Kept
    <3>2. \A p \in 0 .. szLk - 1 : Place(p, Len(Kept(a, c)))' = Place(p, Len(Kept(a, c)))
      BY <1>0, <3>1 DEF Place
    <3>3. StoryCounts(a, c, reg)'
      BY <1>0, <2>1, <2>2, <3>1 DEF Story, StoryCounts
    <3>4. StoryBytes(a, c)'
      BY <1>0, <2>1, <2>2, <3>1, <3>2 DEF Story, StoryBytes
    <3>5. QED BY <3>3, <3>4 DEF Story
  <2>3. QED BY <1>0, <2>1, <2>2 DEF LogInv, LogStory
<1>3. LogBytes'
  BY <1>0, BytesSame DEF LogInv
<1>4. QED
  BY <1>1, <1>2, <1>3 DEF LogInv

\* Every step keeps the invariant.
LEMMA LogNextKeeps ==
    ASSUME LogInv, LogSettingsInv, [LogNext]_logVars
    PROVE  LogInv' /\ LogSettingsInv'
<1>0. LogShape /\ LogBytes /\ LogResumes /\ LogTypes
  BY DEF LogInv, LogShape
<1>1. ASSUME NEW good \in BOOLEAN, LogStoreInit(good)
      PROVE  LogInv' /\ LogSettingsInv'
  <2>1. LogSettingsInv'
    BY <1>1 DEF LogStoreInit, settingVars, LogSettingsInv, Signed
  <2>2. QED BY <1>1, <2>1, LogStoreInitKeeps
<1>2. ASSUME NEW w \in Writers, LogBegins(w)
      PROVE  LogInv' /\ LogSettingsInv'
  <2>0. /\ Idle(w) /\ writer'[w].at # "debug" /\ \A v \in Writers : v # w => writer'[v] = writer[v]
        /\ mingled => mingled'
        /\ UNCHANGED <<logEnable, szPl, pbuff, expdb, config, meantSettings, unread>>
    BY <1>0, <1>2, LogBeginsFacts
  <2>1. LogSettingsInv'
    BY <2>0 DEF LogSettingsInv, Signed
  <2>2. LogShape'
    BY <1>0, <1>2, LogBeginsShape
  <2>3. LogBytes'
    BY <1>0, <2>0, BytesSame
  <2>4. LogResumes'
    BY <1>0, <2>0 DEF LogResumes, Idle
  <2>5. QED BY <1>2, <2>1, <2>2, <2>3, <2>4, StoryBegins DEF LogInv
<1>3. ASSUME NEW w \in Writers, LogStep(w)
      PROVE  LogInv' /\ LogSettingsInv'
  <2>1. LogShape' /\ Moves(w)
    BY <1>0, <1>3, LogStepShape
  <2>2. LogSettingsInv'
    BY <2>1 DEF Moves, LogSettingsInv, Signed
  <2>3. LogBytes' /\ LogResumes' /\ LogStory'
    BY <1>3, BytesStep, ResumesStep, StoryStep
  <2>4. QED BY <2>1, <2>2, <2>3 DEF LogInv
<1>4. ASSUME NEW w \in Writers, NEW sets \in Changes, ConfigBegins(w, sets)
      PROVE  LogInv' /\ LogSettingsInv'
  <2>1. Beside /\ LogResumes'
    BY <1>4, ConfigBeside DEF LogSettingsInv
  <2>2. QED BY <1>4, <2>1, BesideKeeps, ConfigBeginsKeeps
<1>5. CASE ConfigStep
  <2>1. Beside /\ LogResumes'
    BY <1>5, ConfigBeside DEF LogSettingsInv
  <2>2. QED BY <1>5, <2>1, BesideKeeps, ConfigStepKeeps
<1>6. CASE UNCHANGED logVars
  <2>1. LogSettingsInv'
    BY <1>6 DEF logVars, LogSettingsInv, Signed
  <2>2. Beside /\ LogResumes'
    BY <1>0, <1>6 DEF logVars, Beside, LogResumes
  <2>3. QED BY <2>1, <2>2, BesideKeeps
<1>7. CASE LogNext
  BY <1>1, <1>2, <1>3, <1>4, <1>5, <1>7 DEF LogNext
<1>8. QED BY <1>6, <1>7

\* An index of the circular buffer.
LEMMA Wraps ==
    ASSUME NEW m \in Nat, NEW r \in 0 .. m, NEW k \in 1 .. m
    PROVE  (r + k - 1) % m = IF r + k - 1 < m THEN r + k - 1 ELSE r + k - 1 - m
OBVIOUS

\* What the invariant says of the log when nobody prints.
LEMMA StoryIsInOrder ==
    ASSUME LogInv, LogSettingsInv
    PROVE  LogSound
<1>1. LogShape /\ LogBytes /\ LogTypes
  BY DEF LogInv, LogShape
<1>2. LogContained /\ LogResumes /\ SettingsLast
  BY <1>1 DEF LogInv, LogBytes, LogSettingsInv, SettingsLast, Signed
<1>3. InOrderLog
  <2> SUFFICES ASSUME ~mingled, logStatus = "ready" PROVE InOrderLog
    BY DEF InOrderLog
  <2>1. /\ OffLk \in Nat /\ LogStoreSize \in Nat /\ Size \in Int /\ OffLk + Size = LogStoreSize
        /\ szLk \in Nat /\ lkRenew \in Nat /\ lkFull \in BOOLEAN /\ Len(logKept) \in Nat
    BY <1>1, SizeFacts DEF LogTypes
  <2>2. \A i \in LogStoreSize .. LogStoreSize + Past : pbuff[i] = Other
    BY <1>1 DEF LogBytes
  <2>3. ASSUME \A w \in Writers : Idle(w)
        PROVE  /\ lkFull <=> OffLk + szLk = LogStoreSize
               /\ szLk = IF lkFull THEN LogStoreSize - OffLk ELSE Len(logKept)
               /\ \A k \in 1 .. szLk : LogByte(k) = logKept[Len(logKept) - szLk + k]
    <3>1. StoryCounts("idle", 0, 0) /\ StoryBytes("idle", 0) /\ Kept("idle", 0) = logKept
      BY <2>3 DEF LogInv, LogStory, Story, Kept, Printed
    <3>2. /\ lkFull <=> szLk = Size
          /\ lkFull => szLk = Size /\ lkRenew <= szLk
          /\ ~lkFull => szLk = Len(logKept)
      BY <3>1 DEF StoryCounts
    <3>3. \A p \in 0 .. szLk - 1 : pbuff[OffLk + p] = logKept[Place(p, Len(logKept))]
      BY <3>1 DEF StoryBytes
    <3>4. ASSUME NEW k \in 1 .. szLk
          PROVE  LogByte(k) = logKept[Len(logKept) - szLk + k]
      <4>1. CASE lkFull
        <5>1. PICK p \in Int : p = (lkRenew + k - 1) - (IF lkRenew + k - 1 < szLk THEN 0 ELSE szLk)
          <6>1. lkRenew + k - 1 \in Int /\ (IF lkRenew + k - 1 < szLk THEN 0 ELSE szLk) \in Int
            BY <2>1
          <6>2. QED BY <6>1
        <5>2. (lkRenew + k - 1) % szLk = p
          BY <2>1, <3>2, <4>1, <5>1, Wraps
        <5>3. p \in 0 .. szLk - 1 /\ Place(p, Len(logKept)) = Len(logKept) - szLk + k
          BY <2>1, <3>2, <4>1, <5>1 DEF Place
        <5>4. LogByte(k) = pbuff[OffLk + p]
          BY <4>1, <5>2 DEF LogByte
        <5>5. QED BY <3>3, <5>3, <5>4
      <4>2. CASE ~lkFull
        <5>1. k - 1 \in 0 .. szLk - 1 /\ Place(k - 1, Len(logKept)) = Len(logKept) - szLk + k
          BY <2>1, <3>2, <4>2 DEF Place
        <5>2. LogByte(k) = pbuff[OffLk + (k - 1)]
          BY <4>2 DEF LogByte
        <5>3. QED BY <3>3, <5>1, <5>2
      <4>3. QED BY <4>1, <4>2
    <3>5. QED BY <2>1, <3>2, <3>4
  <2>4. QED BY <2>2, <2>3 DEF InOrderLog, Idle
<1>4. QED
  BY <1>2, <1>3 DEF LogSound

\* The invariant of the log and of its settings, for any writers, any size of the buffer and of
\* the preloader's log, and any number of characters.
THEOREM LogInvHolds == LogSpec => [](LogInv /\ LogSettingsInv)
<1>1. LogInit => LogInv /\ LogSettingsInv
  BY LogInitHolds
<1>2. LogInv /\ LogSettingsInv /\ [LogNext]_logVars => LogInv' /\ LogSettingsInv'
  BY LogNextKeeps
<1>3. QED
  BY <1>1, <1>2, PTL DEF LogSpec

\* The log and its settings survive what the boot loader does with them: as long as no two print
\* at once the buffer holds the last characters of what was printed while the log was on, in order
\* and across every wrap; the preloader's log stays even then (behind the buffer any number of
\* bytes may be written: log_store_lk.c:172-178, which has no lock); the operations on the settings
\* leave the log on (log_store_lk.c:205, 259); and a setting lasts (log_store_lk.c:276).
THEOREM LogKept == LogSpec => []LogSound
<1>1. LogInv /\ LogSettingsInv => LogSound
  BY StoryIsInOrder
<1>2. QED
  BY <1>1, LogInvHolds, PTL

=============================================================================
