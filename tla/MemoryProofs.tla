---------------------------- MODULE MemoryProofs ----------------------------
(***************************************************************************)
(* Who has the memory.  The heap: its bytes are shared out among the free  *)
(* chunks and the blocks, each of them once, for any size of it and any    *)
(* sizes and alignments asked for.  The map of the DRAM: the free blocks   *)
(* and the records of what is reserved share out the pages, for any ranks  *)
(* and any number of reservations, and each of these is as high as can be. *)
(***************************************************************************)
EXTENDS Heap, Mblock, SequenceTheorems, FiniteSetTheorems, WellFoundedInduction, TLAPS

\* Every set of naturals that is not empty has a least one.
LEMMA LeastOf ==
    ASSUME NEW S, S \subseteq Nat, S # {}
    PROVE  \E n \in S : \A k \in S : n <= k
<1> DEFINE R == {ss \in Nat \X Nat : ss[1] < ss[2]}
<1>1. IsWellFoundedOn(R, Nat)
  BY NatLessThanWellFounded DEF OpToRel
<1>2. \E n \in S : \A k \in S : ~ (<<k, n>> \in R)
  <2> HIDE DEF R
  <2> QED BY <1>1, WFMin
<1>3. PICK n \in S : \A k \in S : ~ (<<k, n>> \in R)
  BY <1>2
<1>4. \A k \in S : k < n => <<k, n>> \in R
  OBVIOUS
<1>5. \A k \in S : ~ (k < n)
  <2> HIDE DEF R
  <2> QED BY <1>3, <1>4
<1>6. QED
  BY <1>5

---------------------------------------------------------------------------
(* The heap *)

\* What a chunk of the list is.
HeapChunk == [at : Nat, len : Nat \ {0}]

\* In the order of the addresses, and no two touch.
InOrder(list) == \A i, j \in DOMAIN list : i < j => list[i].at + list[i].len < list[j].at

\* The free list as HeapTiled wants it; a chunk is found by its address, which is aligned.
ListOk(list) ==
    /\ list \in Seq(HeapChunk)
    /\ \A i \in DOMAIN list : list[i].at % Pointer = 0
    /\ InOrder(list)

\* The bytes of the chunks on a list.
FreeBytes(list) == UNION {Span(list[i]) : i \in DOMAIN list}

\* What an allocation is.
HeapBlock == [ptr : Nat, asked : Nat, align : Nat, at : Nat, len : Nat]

\* What BlocksFit says of a block.
Fits(b) ==
    /\ b.at + AllocStruct <= b.ptr
    /\ b.ptr + b.asked <= b.at + b.len
    /\ b.align # 0 => b.ptr % b.align = 0
    /\ b.len >= FreeChunk /\ b.at % Pointer = 0

\* A list and the blocks taken of it share out the bytes of a heap.
SharedOut(list, taken, heap) ==
    /\ \A b \in taken : b \in HeapBlock /\ Fits(b)
    /\ \A b, c \in taken : b # c => Span(b) \cap Span(c) = {}
    /\ \A b \in taken : Span(b) \cap FreeBytes(list) = {}
    /\ heap = FreeBytes(list) \cup UNION {Span(b) : b \in taken}

\* The inductive invariant: HeapSound, with the types, and with the chunks on the list
\* aligned.
HeapInv ==
    /\ ListOk(freeList)
    /\ SharedOut(freeList, blocks, HeapBase .. HeapBase + HeapLen - 1)

---------------------------------------------------------------------------

\* A product divides without a rest.
LEMMA Multiple ==
    ASSUME NEW q \in Int, NEW m \in Nat \ {0}
    PROVE  (q * m) % m = 0
OBVIOUS

\* What division by a number is.
LEMMA Divides ==
    ASSUME NEW n \in Nat, NEW m \in Nat \ {0}
    PROVE  n \div m \in Nat /\ n = m * (n \div m) + (n % m) /\ n % m \in 0 .. m - 1
<1>1. n % m \in 0 .. m - 1
  OBVIOUS
<1>2. n = m * (n \div m) + (n % m)
  OBVIOUS
<1>3. n \div m \in Nat
  OBVIOUS
<1>4. QED
  BY <1>1, <1>2, <1>3

\* ROUNDUP: the next multiple, less than one step away.
LEMMA RoundUpFacts ==
    ASSUME NEW n \in Nat, NEW m \in Nat \ {0}
    PROVE  /\ RoundUp(n, m) \in Nat /\ n <= RoundUp(n, m) /\ RoundUp(n, m) <= n + m - 1
           /\ RoundUp(n, m) % m = 0
<1>1. PICK s \in Nat : s = n + m - 1
  OBVIOUS
<1>2. PICK q \in Nat : q = s \div m
  BY Divides
<1>3. s % m \in 0 .. m - 1 /\ s = m * q + (s % m)
  BY <1>2, Divides
<1>4. PICK r \in 0 .. m - 1 : r = s % m
  BY <1>3
<1>5. RoundUp(n, m) = q * m
  BY <1>1, <1>2 DEF RoundUp
<1>6. q * m \in Nat /\ m * q = q * m
  OBVIOUS
<1>7. PICK p \in Nat : p = q * m
  BY <1>6
<1>8. s = p + r
  <2>1. s = q * m + (s % m)
    BY <1>3, <1>6
  <2>2. QED BY <2>1, <1>4, <1>7
<1>9. n <= p /\ p <= n + m - 1
  BY <1>1, <1>4, <1>8
<1>10. QED
  BY <1>5, <1>7, <1>9, Multiple

\* A multiple of a multiple.
LEMMA MultipleOf ==
    ASSUME NEW n \in Nat, NEW m \in Nat \ {0}, NEW a \in Nat \ {0}, n % m = 0, m % a = 0
    PROVE  n % a = 0
<1>1. PICK q \in Nat : q = n \div m /\ n = m * q
  BY Divides
<1>2. PICK h \in Nat : h = m \div a /\ m = a * h
  BY Divides
<1>3. n = (q * h) * a /\ q * h \in Int
  BY <1>1, <1>2
<1>4. QED
  BY <1>3, Multiple

\* Two multiples make a multiple.
LEMMA SumOfMultiples ==
    ASSUME NEW n \in Nat, NEW k \in Nat, NEW m \in Nat \ {0}, n % m = 0, k % m = 0
    PROVE  (n + k) % m = 0
<1>1. PICK q \in Nat : q = n \div m /\ n = m * q
  BY Divides
<1>2. PICK h \in Nat : h = k \div m /\ k = m * h
  BY Divides
<1>3. n + k = (q + h) * m /\ q + h \in Int
  BY <1>1, <1>2
<1>4. QED
  BY <1>3, Multiple
---------------------------------------------------------------------------
(* The free list *)

\* A chunk in the place of those between the first a of a list and those from b on.
Splice(q, a, m, b) == SubSeq(q, 1, a) \o <<m>> \o SubSeq(q, b, Len(q))

\* The same without the chunk.
Cut(q, a, b) == SubSeq(q, 1, a) \o SubSeq(q, b, Len(q))

\* The part of a list from b on.
LEMMA RestFacts ==
    ASSUME NEW S, NEW q \in Seq(S), NEW b \in 1 .. Len(q) + 1
    PROVE  /\ SubSeq(q, b, Len(q)) \in Seq(S)
           /\ Len(SubSeq(q, b, Len(q))) = Len(q) - b + 1
           /\ \A i \in 1 .. Len(q) - b + 1 : SubSeq(q, b, Len(q))[i] = q[b + i - 1]
<1>1. b \in Int /\ 1 <= b /\ b <= Len(q) + 1 /\ Len(q) \in Nat
  OBVIOUS
<1>2. QED
  BY <1>1

\* The part of a list up to a.
LEMMA StartFacts ==
    ASSUME NEW S, NEW q \in Seq(S), NEW a \in 0 .. Len(q)
    PROVE  /\ SubSeq(q, 1, a) \in Seq(S)
           /\ Len(SubSeq(q, 1, a)) = a
           /\ \A i \in 1 .. a : SubSeq(q, 1, a)[i] = q[i]
<1>1. a \in Int /\ 0 <= a /\ a <= Len(q) /\ Len(q) \in Nat
  OBVIOUS
<1>2. QED
  BY <1>1

\* What is on a list out of which a part was cut.
LEMMA CutFacts ==
    ASSUME NEW S, NEW q \in Seq(S), NEW a \in 0 .. Len(q), NEW b \in a + 1 .. Len(q) + 1
    PROVE  /\ Cut(q, a, b) \in Seq(S)
           /\ Len(Cut(q, a, b)) = a + (Len(q) - b + 1)
           /\ \A i \in 1 .. a : Cut(q, a, b)[i] = q[i]
           /\ \A i \in a + 1 .. a + (Len(q) - b + 1) : Cut(q, a, b)[i] = q[i - a + b - 1]
<1> DEFINE s == SubSeq(q, 1, a)
           r == SubSeq(q, b, Len(q))
           c == Cut(q, a, b)
<1>1. PICK n \in Nat : n = Len(q)
  OBVIOUS
<1>2. a \in Nat /\ a <= n /\ b \in Nat /\ a + 1 <= b /\ b <= n + 1 /\ b \in 1 .. Len(q) + 1
  BY <1>1
<1>3. s \in Seq(S) /\ Len(s) = a /\ \A i \in 1 .. a : s[i] = q[i]
  BY StartFacts
<1>4. r \in Seq(S) /\ Len(r) = n - b + 1 /\ \A i \in 1 .. n - b + 1 : r[i] = q[b + i - 1]
  BY <1>1, <1>2, RestFacts
<1>5. c = s \o r
  BY DEF Cut
<1> HIDE DEF s, r, c
<1>6. /\ c \in Seq(S) /\ Len(c) = Len(s) + Len(r)
      /\ \A i \in 1 .. Len(s) + Len(r) : c[i] = IF i <= Len(s) THEN s[i] ELSE r[i - Len(s)]
  BY <1>3, <1>4, <1>5, ConcatProperties
<1>7. ASSUME NEW i \in 1 .. a PROVE c[i] = q[i]
  <2>1. i \in 1 .. Len(s) + Len(r) /\ i <= Len(s)
    BY <1>2, <1>3, <1>4
  <2>2. QED BY <2>1, <1>3, <1>6
<1>8. ASSUME NEW i \in a + 1 .. a + (n - b + 1) PROVE c[i] = q[i - a + b - 1]
  <2>1. i \in 1 .. Len(s) + Len(r) /\ ~(i <= Len(s)) /\ i - a \in 1 .. n - b + 1 /\ b + (i - a) - 1 = i - a + b - 1
    BY <1>2, <1>3, <1>4
  <2>2. c[i] = r[i - a]
    BY <2>1, <1>3, <1>6
  <2>3. r[i - a] = q[b + (i - a) - 1]
    BY <2>1, <1>4
  <2>4. QED BY <2>1, <2>2, <2>3
<1>9. QED
  BY <1>1, <1>3, <1>4, <1>6, <1>7, <1>8 DEF c

\* What is on a list into which a chunk was put.
LEMMA SpliceFacts ==
    ASSUME NEW S, NEW q \in Seq(S), NEW a \in 0 .. Len(q), NEW b \in a + 1 .. Len(q) + 1, NEW m \in S
    PROVE  /\ Splice(q, a, m, b) \in Seq(S)
           /\ Len(Splice(q, a, m, b)) = a + 1 + (Len(q) - b + 1)
           /\ \A i \in 1 .. a : Splice(q, a, m, b)[i] = q[i]
           /\ Splice(q, a, m, b)[a + 1] = m
           /\ \A i \in a + 2 .. a + 1 + (Len(q) - b + 1) : Splice(q, a, m, b)[i] = q[i - a + b - 2]
<1> DEFINE s == SubSeq(q, 1, a)
           t == s \o <<m>>
           r == SubSeq(q, b, Len(q))
           c == Splice(q, a, m, b)
<1>1. PICK n \in Nat : n = Len(q)
  OBVIOUS
<1>2. a \in Nat /\ a <= n /\ b \in Nat /\ a + 1 <= b /\ b <= n + 1 /\ b \in 1 .. Len(q) + 1
  BY <1>1
<1>3. s \in Seq(S) /\ Len(s) = a /\ \A i \in 1 .. a : s[i] = q[i]
  BY StartFacts
<1>4. r \in Seq(S) /\ Len(r) = n - b + 1 /\ \A i \in 1 .. n - b + 1 : r[i] = q[b + i - 1]
  BY <1>1, <1>2, RestFacts
<1>5. c = t \o r
  BY DEF Splice
<1> HIDE DEF s, r, c
<1>6. t \in Seq(S) /\ Len(t) = a + 1 /\ t[a + 1] = m /\ \A i \in 1 .. a : t[i] = q[i]
  <2>1. t = Append(s, m)
    BY <1>3
  <2>2. QED BY <2>1, <1>2, <1>3
<1> HIDE DEF t
<1>7. /\ c \in Seq(S) /\ Len(c) = Len(t) + Len(r)
      /\ \A i \in 1 .. Len(t) + Len(r) : c[i] = IF i <= Len(t) THEN t[i] ELSE r[i - Len(t)]
  BY <1>4, <1>5, <1>6, ConcatProperties
<1>8. ASSUME NEW i \in 1 .. a + 1 PROVE c[i] = t[i]
  <2>1. i \in 1 .. Len(t) + Len(r) /\ i <= Len(t)
    BY <1>2, <1>4, <1>6
  <2>2. QED BY <2>1, <1>7
<1>9. ASSUME NEW i \in a + 2 .. a + 1 + (n - b + 1) PROVE c[i] = q[i - a + b - 2]
  <2>1. i \in 1 .. Len(t) + Len(r) /\ ~(i <= Len(t)) /\ i - (a + 1) \in 1 .. n - b + 1
        /\ b + (i - (a + 1)) - 1 = i - a + b - 2
    BY <1>2, <1>4, <1>6
  <2>2. c[i] = r[i - (a + 1)]
    BY <2>1, <1>6, <1>7
  <2>3. r[i - (a + 1)] = q[b + (i - (a + 1)) - 1]
    BY <2>1, <1>4
  <2>4. QED BY <2>1, <2>2, <2>3
<1>10. \A i \in 1 .. a : c[i] = q[i]
  BY <1>2, <1>6, <1>8
<1>11. c[a + 1] = m
  BY <1>2, <1>6, <1>8
<1>12. QED
  BY <1>1, <1>4, <1>6, <1>7, <1>9, <1>10, <1>11 DEF c

\* The chunks that stay are in order as they were, and it is enough that the new one is between.
LEMMA SpliceKeeps ==
    ASSUME NEW q, ListOk(q), NEW a \in 0 .. Len(q), NEW b \in a + 1 .. Len(q) + 1, NEW m \in HeapChunk,
           m.at % Pointer = 0,
           \A i \in 1 .. a : q[i].at + q[i].len < m.at,
           \A i \in b .. Len(q) : m.at + m.len < q[i].at
    PROVE  /\ ListOk(Splice(q, a, m, b))
           /\ FreeBytes(Splice(q, a, m, b)) = Span(m) \cup UNION {Span(q[i]) : i \in 1 .. a \cup b .. Len(q)}
<1> DEFINE c == Splice(q, a, m, b)
           from(i) == IF i <= a THEN i ELSE i - a + b - 2
<1>1. q \in Seq(HeapChunk)
  BY DEF ListOk
<1>2. PICK n \in Nat : n = Len(q)
  BY <1>1
<1>3. a \in Nat /\ a <= n /\ b \in Nat /\ a + 1 <= b /\ b <= n + 1
  BY <1>2
<1>4. /\ c \in Seq(HeapChunk) /\ Len(c) = a + 1 + (n - b + 1)
      /\ \A i \in 1 .. a : c[i] = q[i]
      /\ c[a + 1] = m
      /\ \A i \in a + 2 .. a + 1 + (n - b + 1) : c[i] = q[i - a + b - 2]
  <2>1. /\ c \in Seq(HeapChunk) /\ Len(c) = a + 1 + (Len(q) - b + 1)
        /\ \A i \in 1 .. a : c[i] = q[i]
        /\ c[a + 1] = m
        /\ \A i \in a + 2 .. a + 1 + (Len(q) - b + 1) : c[i] = q[i - a + b - 2]
    BY <1>1, SpliceFacts
  <2> HIDE DEF c
  <2>2. QED BY <1>2, <2>1
<1> HIDE DEF c
<1>5. PICK k \in Nat : k = Len(c) /\ k = a + n - b + 2 /\ a + 1 \in 1 .. k
  BY <1>3, <1>4
<1>6. DOMAIN c = 1 .. k /\ DOMAIN q = 1 .. n
  BY <1>1, <1>2, <1>4, <1>5
<1>7. ASSUME NEW i \in 1 .. k, i # a + 1
      PROVE  c[i] = q[from(i)] /\ from(i) \in 1 .. a \cup b .. n /\ from(i) \in 1 .. n
             /\ (i <= a => from(i) \in 1 .. a) /\ (i > a => from(i) \in b .. n)
  <2>1. CASE i <= a
    BY <2>1, <1>3, <1>4
  <2>2. CASE i > a
    <3>1. i \in a + 2 .. a + 1 + (n - b + 1)
      BY <2>2, <1>3, <1>5, <1>7
    <3>2. QED BY <3>1, <2>2, <1>3, <1>4, <1>5
  <2>3. QED BY <2>1, <2>2, <1>3
<1>8. \A i, j \in 1 .. k : i < j /\ i # a + 1 /\ j # a + 1 => from(i) < from(j)
  BY <1>3, <1>5
<1>9. ASSUME NEW j \in 1 .. a \cup b .. n PROVE \E i \in 1 .. k : i # a + 1 /\ from(i) = j
  <2>1. CASE j <= a
    <3>1. j \in 1 .. k /\ j # a + 1 /\ from(j) = j
      BY <2>1, <1>3, <1>5
    <3>2. QED BY <3>1
  <2>2. CASE j > a
    <3>1. j \in b .. n
      BY <2>2, <1>3
    <3>2. j - b + a + 2 \in 1 .. k /\ j - b + a + 2 # a + 1 /\ from(j - b + a + 2) = j
      BY <3>1, <1>3, <1>5
    <3>3. QED BY <3>2
  <2>3. QED BY <2>1, <2>2, <1>3
<1> HIDE DEF from
<1>10. \A i \in 1 .. n : q[i] \in HeapChunk /\ q[i].at % Pointer = 0
  BY <1>1, <1>6 DEF ListOk
<1>11. \A i, j \in 1 .. n : i < j => q[i].at + q[i].len < q[j].at
  BY <1>6 DEF ListOk, InOrder
<1>12. ASSUME NEW i \in 1 .. k, NEW j \in 1 .. k, i < j PROVE c[i].at + c[i].len < c[j].at
  <2>1. CASE i = a + 1
    BY <2>1, <1>12, <1>2, <1>3, <1>4, <1>7
  <2>2. CASE j = a + 1
    BY <2>2, <1>12, <1>2, <1>3, <1>4, <1>7
  <2>3. CASE i # a + 1 /\ j # a + 1
    BY <2>3, <1>12, <1>7, <1>8, <1>11
  <2>4. QED BY <2>1, <2>2, <2>3
<1>13. ASSUME NEW i \in 1 .. k PROVE c[i].at % Pointer = 0
  <2>1. CASE i = a + 1
    BY <2>1, <1>4
  <2>2. CASE i # a + 1
    <3>1. c[i] = q[from(i)] /\ from(i) \in 1 .. n
      BY <2>2, <1>7
    <3>2. QED BY <3>1, <1>10
  <2>3. QED BY <2>1, <2>2
<1>14. ListOk(c)
  BY <1>4, <1>6, <1>12, <1>13 DEF ListOk, InOrder
<1>15. ASSUME NEW x
       PROVE  x \in FreeBytes(c) <=> x \in Span(m) \cup UNION {Span(q[i]) : i \in 1 .. a \cup b .. n}
  <2>1. ASSUME x \in FreeBytes(c) PROVE x \in Span(m) \cup UNION {Span(q[i]) : i \in 1 .. a \cup b .. n}
    <3>1. PICK i \in 1 .. k : x \in Span(c[i])
      BY <2>1, <1>6 DEF FreeBytes
    <3>2. CASE i = a + 1
      BY <3>1, <3>2, <1>4
    <3>3. CASE i # a + 1
      <4>1. c[i] = q[from(i)] /\ from(i) \in 1 .. a \cup b .. n
        BY <3>3, <1>7
      <4>2. QED BY <3>1, <4>1
    <3>4. QED BY <3>2, <3>3
  <2>2. ASSUME x \in Span(m) PROVE x \in FreeBytes(c)
    <3>1. x \in Span(c[a + 1]) /\ a + 1 \in DOMAIN c
      BY <2>2, <1>4, <1>5, <1>6
    <3>2. QED BY <3>1 DEF FreeBytes
  <2>3. ASSUME NEW j \in 1 .. a \cup b .. n, x \in Span(q[j]) PROVE x \in FreeBytes(c)
    <3>1. PICK i \in 1 .. k : i # a + 1 /\ from(i) = j
      BY <1>9
    <3>2. c[i] = q[j] /\ i \in DOMAIN c
      BY <3>1, <1>6, <1>7
    <3>3. QED BY <2>3, <3>2 DEF FreeBytes
  <2>4. QED BY <2>1, <2>2, <2>3
<1>16. QED
  BY <1>2, <1>14, <1>15 DEF c

\* A list out of which a part was cut is in order, and has lost the bytes of that part.
LEMMA CutKeeps ==
    ASSUME NEW q, ListOk(q), NEW a \in 0 .. Len(q), NEW b \in a + 1 .. Len(q) + 1
    PROVE  /\ ListOk(Cut(q, a, b))
           /\ FreeBytes(Cut(q, a, b)) = UNION {Span(q[i]) : i \in 1 .. a \cup b .. Len(q)}
<1> DEFINE c == Cut(q, a, b)
           from(i) == IF i <= a THEN i ELSE i - a + b - 1
<1>1. q \in Seq(HeapChunk)
  BY DEF ListOk
<1>2. PICK n \in Nat : n = Len(q)
  BY <1>1
<1>3. a \in Nat /\ a <= n /\ b \in Nat /\ a + 1 <= b /\ b <= n + 1
  BY <1>2
<1>4. /\ c \in Seq(HeapChunk) /\ Len(c) = a + (n - b + 1)
      /\ \A i \in 1 .. a : c[i] = q[i]
      /\ \A i \in a + 1 .. a + (n - b + 1) : c[i] = q[i - a + b - 1]
  BY <1>1, <1>2, CutFacts
<1> HIDE DEF c
<1>5. PICK k \in Nat : k = Len(c) /\ k = a + n - b + 1
  BY <1>3, <1>4
<1>6. DOMAIN c = 1 .. k /\ DOMAIN q = 1 .. n
  BY <1>1, <1>2, <1>4, <1>5
<1>7. ASSUME NEW i \in 1 .. k
      PROVE  c[i] = q[from(i)] /\ from(i) \in 1 .. a \cup b .. n /\ from(i) \in 1 .. n
  <2>1. CASE i <= a
    BY <2>1, <1>3, <1>4
  <2>2. CASE i > a
    <3>1. i \in a + 1 .. a + (n - b + 1)
      BY <2>2, <1>3, <1>5
    <3>2. QED BY <3>1, <2>2, <1>3, <1>4, <1>5
  <2>3. QED BY <2>1, <2>2, <1>3
<1>8. \A i, j \in 1 .. k : i < j => from(i) < from(j)
  BY <1>3, <1>5
<1>9. ASSUME NEW j \in 1 .. a \cup b .. n PROVE \E i \in 1 .. k : from(i) = j
  <2>1. CASE j <= a
    <3>1. j \in 1 .. k /\ from(j) = j
      BY <2>1, <1>3, <1>5
    <3>2. QED BY <3>1
  <2>2. CASE j > a
    <3>1. j \in b .. n
      BY <2>2, <1>3
    <3>2. j - b + a + 1 \in 1 .. k /\ from(j - b + a + 1) = j
      BY <3>1, <1>3, <1>5
    <3>3. QED BY <3>2
  <2>3. QED BY <2>1, <2>2, <1>3
<1> HIDE DEF from
<1>10. \A i \in 1 .. n : q[i] \in HeapChunk /\ q[i].at % Pointer = 0
  BY <1>1, <1>6 DEF ListOk
<1>11. \A i, j \in 1 .. n : i < j => q[i].at + q[i].len < q[j].at
  BY <1>6 DEF ListOk, InOrder
<1>12. \A i, j \in 1 .. k : i < j => c[i].at + c[i].len < c[j].at
  BY <1>7, <1>8, <1>11
<1>13. \A i \in 1 .. k : c[i].at % Pointer = 0
  BY <1>7, <1>10
<1>14. ListOk(c)
  BY <1>4, <1>6, <1>12, <1>13 DEF ListOk, InOrder
<1>15. ASSUME NEW x
       PROVE  x \in FreeBytes(c) <=> x \in UNION {Span(q[i]) : i \in 1 .. a \cup b .. n}
  <2>1. ASSUME x \in FreeBytes(c) PROVE x \in UNION {Span(q[i]) : i \in 1 .. a \cup b .. n}
    <3>1. PICK i \in 1 .. k : x \in Span(c[i])
      BY <2>1, <1>6 DEF FreeBytes
    <3>2. c[i] = q[from(i)] /\ from(i) \in 1 .. a \cup b .. n
      BY <1>7
    <3>3. QED BY <3>1, <3>2
  <2>2. ASSUME NEW j \in 1 .. a \cup b .. n, x \in Span(q[j]) PROVE x \in FreeBytes(c)
    <3>1. PICK i \in 1 .. k : from(i) = j
      BY <1>9
    <3>2. c[i] = q[j] /\ i \in DOMAIN c
      BY <3>1, <1>6, <1>7
    <3>3. QED BY <2>2, <3>2 DEF FreeBytes
  <2>3. QED BY <2>1, <2>2
<1>16. QED
  BY <1>2, <1>14, <1>15 DEF c

\* Which chunks a new one comes behind.
LEMMA BehindFacts ==
    ASSUME NEW q \in Seq(HeapChunk), NEW at \in Nat
    PROVE  \E k \in 0 .. Len(q) :
             /\ k = Cardinality({i \in DOMAIN q : \A j \in 1 .. i : q[j].at <= at})
             /\ \A i \in 1 .. k : q[i].at <= at
             /\ k < Len(q) => q[k + 1].at > at
<1> DEFINE L(i) == ~(q[i].at <= at)
           n == Len(q)
           P == {i \in DOMAIN q : \A j \in 1 .. i : ~L(j)}
<1>1. n \in Nat /\ DOMAIN q = 1 .. n /\ \A i \in 1 .. n : q[i] \in HeapChunk
  OBVIOUS
<1>2. P = {i \in DOMAIN q : \A j \in 1 .. i : q[j].at <= at}
  OBVIOUS
<1>3. \A i \in 1 .. n : L(i) <=> q[i].at > at
  BY <1>1 DEF HeapChunk
<1> HIDE DEF L, n
<1>4. PICK k \in 0 .. n : P = 1 .. k /\ (k < n => L(k + 1))
  <2>1. CASE \E i \in 1 .. n : L(i)
    <3> DEFINE S == {i \in 1 .. n : L(i)}
    <3>1. S # {} /\ S \subseteq Nat
      BY <2>1
    <3>2. PICK m \in S : \A i \in S : m <= i
      <4> HIDE DEF S
      <4>1. QED BY <3>1, LeastOf
    <3>3. P = 1 .. (m - 1)
      BY <3>2, <1>1
    <3>4. m - 1 \in 0 .. n /\ L((m - 1) + 1)
      BY <3>2, <1>1
    <3>5. QED BY <3>3, <3>4
  <2>2. CASE ~ \E i \in 1 .. n : L(i)
    <3>1. P = 1 .. n
      BY <2>2, <1>1
    <3>2. QED BY <3>1, <1>1
  <2>3. QED BY <2>1, <2>2
<1>5. Cardinality(P) = k
  <2>1. Cardinality(1 .. k) = k
    BY <1>1, <1>4, FS_Interval
  <2>2. QED BY <1>4, <2>1
<1>6. \A i \in 1 .. k : ~L(i)
  <2>1. \A i \in 1 .. k : i \in P /\ i \in 1 .. i
    BY <1>4
  <2>2. QED BY <2>1
<1>7. k < n => q[k + 1].at > at
  BY <1>1, <1>3, <1>4
<1>8. \A i \in 1 .. k : q[i].at <= at
  BY <1>6 DEF L
<1> HIDE DEF P
<1>9. QED
  BY <1>2, <1>5, <1>7, <1>8 DEF n

\* heap_insert_free_chunk, of a chunk that is on no list.
LEMMA InsertChunkFacts ==
    ASSUME NEW q, ListOk(q), NEW c \in HeapChunk, c.at % Pointer = 0, Span(c) \cap FreeBytes(q) = {}
    PROVE  /\ ListOk(InsertFreeChunk(q, c))
           /\ FreeBytes(InsertFreeChunk(q, c)) = FreeBytes(q) \cup Span(c)
<1>1. q \in Seq(HeapChunk) /\ c.at \in Nat /\ c.len \in Nat /\ c.len >= 1
  BY DEF ListOk, HeapChunk
<1>2. PICK k \in 0 .. Len(q) :
             /\ k = Cardinality({i \in DOMAIN q : \A j \in 1 .. i : q[j].at <= c.at})
             /\ \A i \in 1 .. k : q[i].at <= c.at
             /\ k < Len(q) => q[k + 1].at > c.at
  BY <1>1, BehindFacts
<1>3. PICK n \in Nat : n = Len(q)
  BY <1>1
<1>4. /\ k \in Nat /\ k <= n /\ DOMAIN q = 1 .. n
      /\ \A i \in 1 .. n : q[i].at \in Nat /\ q[i].len \in Nat /\ q[i].len >= 1
      /\ \A i \in 1 .. n : q[i].at % Pointer = 0
  <2>1. k \in Nat /\ k <= n /\ DOMAIN q = 1 .. n
    BY <1>1, <1>3
  <2>2. \A i \in 1 .. n : q[i] \in HeapChunk
    BY <1>1, <2>1
  <2>3. \A i \in 1 .. n : q[i].at \in Nat /\ q[i].len \in Nat /\ q[i].len >= 1
    BY <2>2 DEF HeapChunk
  <2>4. QED BY <2>1, <2>3 DEF ListOk
<1>5. \A i, j \in 1 .. n : i < j => q[i].at + q[i].len < q[j].at
  BY <1>4 DEF ListOk, InOrder
<1>6. \A i \in 1 .. n : \A x \in Int : ~(c.at <= x /\ x < c.at + c.len /\ q[i].at <= x /\ x < q[i].at + q[i].len)
  <2> SUFFICES ASSUME NEW i \in 1 .. n, NEW x \in Int,
                      c.at <= x, x < c.at + c.len, q[i].at <= x, x < q[i].at + q[i].len
               PROVE  FALSE
    OBVIOUS
  <2>1. x \in Span(c) /\ x \in Span(q[i])
    <3>1. c.at \in Nat /\ c.len \in Nat /\ q[i].at \in Nat /\ q[i].len \in Nat
      BY <1>1, <1>4
    <3>2. x \in Span(c)
      BY <3>1 DEF Span
    <3>3. x \in Span(q[i])
      <4>1. PICK s \in Nat, z \in Nat : s = q[i].at /\ z = q[i].len
        BY <3>1
      <4>2. s <= x /\ x < s + z
        BY <4>1
      <4>3. x \in s .. s + z - 1
        BY <4>2
      <4>4. QED BY <4>1, <4>3 DEF Span
    <3>4. QED BY <3>2, <3>3
  <2>2. x \in FreeBytes(q)
    BY <2>1, <1>4 DEF FreeBytes
  <2>3. QED BY <2>1, <2>2
<1>7. \A i \in 1 .. k : q[i].at + q[i].len <= c.at
  <2> SUFFICES ASSUME NEW i \in 1 .. k PROVE q[i].at + q[i].len <= c.at
    OBVIOUS
  <2>1. i \in 1 .. n /\ q[i].at <= c.at
    BY <1>2, <1>4
  <2>2. ~(c.at < q[i].at + q[i].len)
    BY <2>1, <1>1, <1>6
  <2>3. QED BY <2>1, <2>2, <1>1, <1>4
<1>8. \A i \in k + 1 .. n : c.at + c.len <= q[i].at
  <2> SUFFICES ASSUME NEW i \in k + 1 .. n PROVE c.at + c.len <= q[i].at
    OBVIOUS
  <2>1. i \in 1 .. n /\ k + 1 \in 1 .. n /\ (i = k + 1 \/ k + 1 < i) /\ q[k + 1].at > c.at
    BY <1>2, <1>3, <1>4
  <2>2. q[i].at > c.at
    <3>1. CASE i = k + 1
      BY <3>1, <2>1
    <3>2. CASE k + 1 < i
      <4>1. q[k + 1].at + q[k + 1].len < q[i].at
        BY <3>2, <2>1, <1>5
      <4>2. QED BY <4>1, <2>1, <1>1, <1>4
    <3>3. QED BY <2>1, <3>1, <3>2
  <2>3. PICK x \in Nat, l \in Nat : x = q[i].at /\ l = q[i].len /\ l >= 1
    BY <2>1, <1>4
  <2>4. ~(c.at <= x /\ x < c.at + c.len /\ x <= x /\ x < x + l)
    BY <2>1, <2>3, <1>6
  <2>5. c.at + c.len <= x
    <3>1. x < x + l /\ x <= x
      BY <2>3
    <3>2. c.at <= x
      BY <2>2, <2>3, <1>1
    <3>3. QED BY <2>4, <3>1, <3>2, <1>1
  <2>6. QED BY <2>3, <2>5
<1> DEFINE joinsLast == k > 0 /\ q[k].at + q[k].len = c.at
           grown == IF joinsLast THEN Chunk(q[k].at, q[k].len + c.len) ELSE c
           joinsNext == k < Len(q) /\ grown.at + grown.len = q[k + 1].at
           m == IF joinsNext THEN Chunk(grown.at, grown.len + q[k + 1].len) ELSE grown
           a == IF joinsLast THEN k - 1 ELSE k
           b == IF joinsNext THEN k + 2 ELSE k + 1
<1>9. InsertFreeChunk(q, c) = Splice(q, a, m, b)
  BY <1>2 DEF InsertFreeChunk, Splice
<1>10. /\ grown \in HeapChunk /\ grown.at % Pointer = 0
       /\ grown.at + grown.len = c.at + c.len
       /\ grown.at = IF joinsLast THEN q[k].at ELSE c.at
  <2>1. CASE joinsLast
    <3>1. k \in 1 .. n
      BY <2>1, <1>4
    <3>2. grown = Chunk(q[k].at, q[k].len + c.len)
      BY <2>1
    <3>3. grown.at = q[k].at /\ grown.len = q[k].len + c.len
      BY <3>2 DEF Chunk
    <3>4. grown \in HeapChunk
      BY <3>1, <3>2, <1>1, <1>4 DEF Chunk, HeapChunk
    <3> HIDE DEF grown
    <3>5. q[k].at + (q[k].len + c.len) = (q[k].at + q[k].len) + c.len
      BY <3>1, <1>1, <1>4
    <3>6. grown.at + grown.len = c.at + c.len
      BY <2>1, <3>3, <3>5
    <3>7. QED BY <2>1, <3>1, <3>3, <3>4, <3>6, <1>4
  <2>2. CASE ~joinsLast
    BY <2>2
  <2>3. QED BY <2>1, <2>2
<1>11. joinsNext <=> k < n /\ c.at + c.len = q[k + 1].at
  BY <1>3, <1>10
<1>12. /\ m \in HeapChunk /\ m.at % Pointer = 0 /\ m.at = grown.at
       /\ m.at + m.len = IF joinsNext THEN q[k + 1].at + q[k + 1].len ELSE c.at + c.len
  <2>1. CASE joinsNext
    <3>1. k + 1 \in 1 .. n
      BY <2>1, <1>3, <1>4
    <3>2. m = Chunk(grown.at, grown.len + q[k + 1].len)
      BY <2>1
    <3>3. m.at = grown.at /\ m.len = grown.len + q[k + 1].len
      BY <3>2 DEF Chunk
    <3>4. grown.at \in Nat /\ grown.len \in Nat /\ grown.len >= 1
      BY <1>10 DEF HeapChunk
    <3> HIDE DEF grown
    <3>5. m \in HeapChunk
      BY <3>1, <3>2, <3>4, <1>4 DEF Chunk, HeapChunk
    <3> HIDE DEF m
    <3>6. m.at + m.len = (grown.at + grown.len) + q[k + 1].len
      BY <3>1, <3>3, <3>4, <1>4
    <3>7. m.at + m.len = q[k + 1].at + q[k + 1].len
      BY <2>1, <3>6
    <3>8. QED BY <2>1, <3>3, <3>5, <3>7, <1>10
  <2>2. CASE ~joinsNext
    BY <2>2, <1>10
  <2>3. QED BY <2>1, <2>2
<1>13. a \in 0 .. Len(q) /\ b \in a + 1 .. Len(q) + 1 /\ a \in Nat /\ b \in Nat
  BY <1>3, <1>4
<1>14. joinsLast => k \in 1 .. n /\ q[k].at + q[k].len = c.at
  BY <1>4
<1>15. joinsNext => k + 1 \in 1 .. n
  BY <1>3, <1>4
<1> HIDE DEF grown, m, joinsNext
<1>16. ASSUME NEW i \in 1 .. a PROVE q[i].at + q[i].len < m.at
  <2>1. i \in 1 .. k /\ i \in 1 .. n /\ q[i].at + q[i].len <= c.at
    BY <1>4, <1>7
  <2>2. CASE joinsLast
    <3>1. i < k /\ k \in 1 .. n
      BY <2>2, <1>4, <1>14
    <3>2. q[i].at + q[i].len < q[k].at
      BY <2>1, <3>1, <1>5
    <3>3. QED BY <2>2, <3>2, <1>10, <1>12
  <2>3. CASE ~joinsLast
    <3>1. m.at = c.at
      BY <2>3, <1>10, <1>12
    <3>2. q[i].at + q[i].len # c.at
      <4>1. CASE i = k
        BY <4>1, <2>1, <2>3, <1>4
      <4>2. CASE i # k
        <5>1. i < k /\ k \in 1 .. n /\ k \in 1 .. k
          BY <4>2, <2>1, <1>4
        <5>2. q[i].at + q[i].len < q[k].at /\ q[k].at <= c.at
          BY <5>1, <2>1, <1>2, <1>5
        <5>3. QED BY <5>1, <5>2, <2>1, <1>1, <1>4
      <4>3. QED BY <4>1, <4>2
    <3>3. q[i].at + q[i].len \in Nat
      BY <2>1, <1>4
    <3>4. QED BY <2>1, <3>1, <3>2, <3>3, <1>1
  <2>4. QED BY <2>2, <2>3
<1>17. ASSUME NEW i \in b .. Len(q) PROVE m.at + m.len < q[i].at
  <2>1. i \in k + 1 .. n /\ i \in 1 .. n /\ c.at + c.len <= q[i].at
    <3>1. i \in k + 1 .. n /\ i \in 1 .. n
      BY <1>3, <1>4
    <3>2. QED BY <3>1, <1>8
  <2>2. CASE joinsNext
    <3>1. k + 1 < i /\ k + 1 \in 1 .. n
      BY <2>2, <1>3, <1>4, <1>15
    <3>2. q[k + 1].at + q[k + 1].len < q[i].at
      BY <2>1, <3>1, <1>5
    <3>3. QED BY <2>2, <3>2, <1>12
  <2>3. CASE ~joinsNext
    <3>1. m.at + m.len = c.at + c.len
      BY <2>3, <1>12
    <3>2. c.at + c.len # q[i].at
      <4>1. CASE i = k + 1
        BY <4>1, <2>1, <2>3, <1>4, <1>11
      <4>2. CASE i # k + 1
        <5>1. k + 1 < i /\ k + 1 \in 1 .. n /\ k + 1 \in k + 1 .. n
          BY <4>2, <2>1, <1>4
        <5>2. q[k + 1].at + q[k + 1].len < q[i].at /\ c.at + c.len <= q[k + 1].at
          BY <5>1, <2>1, <1>5, <1>8
        <5>3. QED BY <5>1, <5>2, <2>1, <1>1, <1>4
      <4>3. QED BY <4>1, <4>2
    <3>3. c.at + c.len \in Nat /\ q[i].at \in Nat
      BY <2>1, <1>1, <1>4
    <3>4. QED BY <2>1, <3>1, <3>2, <3>3
  <2>4. QED BY <2>2, <2>3
<1> HIDE DEF a, b, joinsLast
<1>18. /\ ListOk(Splice(q, a, m, b))
       /\ FreeBytes(Splice(q, a, m, b)) = Span(m) \cup UNION {Span(q[i]) : i \in 1 .. a \cup b .. Len(q)}
  BY <1>12, <1>13, <1>16, <1>17, SpliceKeeps
<1>19. Span(m) \cup UNION {Span(q[i]) : i \in 1 .. a \cup b .. n} = FreeBytes(q) \cup Span(c)
  <2>0. m.at \in Nat /\ m.len \in Nat
    BY <1>12 DEF HeapChunk
  <2>1. ASSUME NEW x \in Span(m) PROVE x \in FreeBytes(q) \cup Span(c)
    <3>1. x \in Int /\ m.at <= x /\ x < m.at + m.len
      BY <2>0, <2>1 DEF Span
    <3>2. CASE x < c.at
      <4>1. joinsLast
        BY <3>1, <3>2, <1>1, <1>10, <1>12
      <4>2. k \in 1 .. n /\ q[k].at + q[k].len = c.at /\ m.at = q[k].at
        BY <4>1, <1>10, <1>12, <1>14
      <4>3. x \in Span(q[k])
        BY <3>1, <3>2, <4>2, <1>4 DEF Span
      <4>4. QED BY <4>2, <4>3, <1>4 DEF FreeBytes
    <3>3. CASE x >= c.at + c.len
      <4>1. joinsNext
        BY <3>1, <3>3, <1>1, <1>12
      <4>2. k + 1 \in 1 .. n /\ c.at + c.len = q[k + 1].at /\ m.at + m.len = q[k + 1].at + q[k + 1].len
        BY <4>1, <1>11, <1>12, <1>15
      <4>3. x \in Span(q[k + 1])
        BY <3>1, <3>3, <4>2, <1>4 DEF Span
      <4>4. QED BY <4>2, <4>3, <1>4 DEF FreeBytes
    <3>4. CASE c.at <= x /\ x < c.at + c.len
      BY <3>1, <3>4, <1>1 DEF Span
    <3>5. QED BY <3>1, <3>2, <3>3, <3>4, <1>1
  <2>2. ASSUME NEW i \in 1 .. a \cup b .. n, NEW x \in Span(q[i]) PROVE x \in FreeBytes(q)
    <3>1. i \in 1 .. n
      BY <1>3, <1>13
    <3>2. QED BY <2>2, <3>1, <1>4 DEF FreeBytes
  <2>3. ASSUME NEW x \in Span(c) PROVE x \in Span(m)
    <3>1. x \in Int /\ c.at <= x /\ x < c.at + c.len
      BY <1>1 DEF Span
    <3>2. m.at <= c.at
      <4>1. CASE joinsLast
        BY <4>1, <1>1, <1>4, <1>10, <1>12, <1>14
      <4>2. CASE ~joinsLast
        BY <4>2, <1>1, <1>10, <1>12
      <4>3. QED BY <4>1, <4>2
    <3>3. c.at + c.len <= m.at + m.len
      <4>1. CASE joinsNext
        BY <4>1, <1>1, <1>4, <1>11, <1>12, <1>15
      <4>2. CASE ~joinsNext
        BY <4>2, <1>1, <1>12
      <4>3. QED BY <4>1, <4>2
    <3>4. c.at \in Nat /\ c.len \in Nat
      BY <1>1
    <3>5. m.at <= x /\ x < m.at + m.len
      BY <2>0, <3>1, <3>2, <3>3, <3>4
    <3>6. QED BY <2>0, <3>1, <3>5 DEF Span
  <2>4. ASSUME NEW i \in 1 .. n, NEW x \in Span(q[i])
        PROVE  x \in Span(m) \/ i \in 1 .. a \cup b .. n
    <3>0. x \in Int /\ q[i].at <= x /\ x < q[i].at + q[i].len
      BY <1>4 DEF Span
    <3>1. CASE i = k /\ joinsLast
      <4>1. m.at = q[k].at /\ q[k].at + q[k].len = c.at
        BY <3>1, <1>10, <1>12, <1>14
      <4>2. c.at <= m.at + m.len
        <5>1. CASE joinsNext
          BY <5>1, <1>1, <1>4, <1>11, <1>12, <1>15
        <5>2. CASE ~joinsNext
          BY <5>2, <1>1, <1>12
        <5>3. QED BY <5>1, <5>2
      <4>3. x < q[k].at + q[k].len /\ q[k].at <= x
        BY <3>0, <3>1
      <4>4. c.at \in Nat
        BY <1>1
      <4>5. m.at <= x /\ x < m.at + m.len
        BY <2>0, <3>0, <4>1, <4>2, <4>3, <4>4
      <4>6. QED BY <2>0, <3>0, <4>5 DEF Span
    <3>2. CASE i = k + 1 /\ joinsNext
      <4>1. m.at + m.len = q[k + 1].at + q[k + 1].len /\ c.at + c.len = q[k + 1].at
        BY <3>2, <1>11, <1>12
      <4>2. m.at <= c.at
        <5>1. CASE joinsLast
          BY <5>1, <1>1, <1>4, <1>10, <1>12, <1>14
        <5>2. CASE ~joinsLast
          BY <5>2, <1>1, <1>10, <1>12
        <5>3. QED BY <5>1, <5>2
      <4>3. m.at <= x /\ x < m.at + m.len
        <5>1. x < m.at + m.len /\ c.at + c.len <= x
          BY <3>0, <3>2, <4>1
        <5>2. QED BY <2>0, <3>0, <4>2, <5>1, <1>1
      <4>4. QED BY <2>0, <3>0, <4>3 DEF Span
    <3>3. CASE ~(i = k /\ joinsLast) /\ ~(i = k + 1 /\ joinsNext)
      BY <3>3, <1>4 DEF a, b
    <3>4. QED BY <3>1, <3>2, <3>3
  <2>5. ASSUME NEW x \in FreeBytes(q) PROVE x \in Span(m) \cup UNION {Span(q[i]) : i \in 1 .. a \cup b .. n}
    <3>1. PICK i \in 1 .. n : x \in Span(q[i])
      BY <1>4 DEF FreeBytes
    <3>2. QED BY <3>1, <2>4
  <2>6. ASSUME NEW x \in UNION {Span(q[i]) : i \in 1 .. a \cup b .. n} PROVE x \in FreeBytes(q)
    BY <2>2
  <2>7. QED BY <2>1, <2>3, <2>5, <2>6
<1>20. QED
  BY <1>3, <1>9, <1>18, <1>19

---------------------------------------------------------------------------
(* heap_alloc *)

\* The numbers of the heap.
LEMMA HeapNumbers ==
    /\ HeapBase \in Nat /\ HeapLen \in Nat \ {0}
    /\ Pointer \in Nat \ {0} /\ AllocStruct \in Nat \ {0} /\ FreeChunk \in Nat \ {0}
    /\ MinAlign \in Nat \ {0} /\ MinAlign % Pointer = 0 /\ HeapBase % Pointer = 0
    /\ \A a \in Alignments \ {0} : /\ a \in Nat \ {0} /\ (a < MinAlign => MinAlign % a = 0)
                                  /\ (a >= MinAlign => a % Pointer = 0)
<1>1. \A n \in {HeapBase, HeapLen, AllocStruct, FreeChunk, MinAlign} : n % Pointer = 0
  BY HeapAssumption
<1>2. MinAlign % Pointer = 0 /\ HeapBase % Pointer = 0 /\ MinAlign \in Nat \ {0} /\ Pointer \in Nat \ {0}
  BY <1>1, HeapAssumption
<1>3. ASSUME NEW a \in Alignments \ {0}
      PROVE  /\ a \in Nat \ {0} /\ (a < MinAlign => MinAlign % a = 0)
             /\ (a >= MinAlign => a % Pointer = 0)
  <2>1. a \in Nat \ {0}
    BY HeapAssumption
  <2>2. a < MinAlign => MinAlign % a = 0
    BY HeapAssumption
  <2>3. ASSUME a >= MinAlign PROVE a % Pointer = 0
    <3>1. ~(a < MinAlign)
      BY <1>2, <2>1, <2>3
    <3>2. a % MinAlign = 0
      BY <3>1, HeapAssumption
    <3>3. QED BY <1>2, <2>1, <3>2, MultipleOf
  <2>4. QED BY <2>1, <2>2, <2>3
<1>4. QED
  BY <1>2, <1>3, HeapAssumption

\* The alignment is a multiple of the one that was asked for.
LEMMA AlignmentFacts ==
    ASSUME NEW align \in Alignments \cup {0}
    PROVE  /\ align \in Nat /\ Alignment(align) \in Nat /\ Alignment(align) % Pointer = 0
           /\ align = 0 => Alignment(align) = 0
           /\ align # 0 => Alignment(align) \in Nat \ {0} /\ Alignment(align) % align = 0
<1>1. CASE align = 0
  <2>1. (0 * Pointer) % Pointer = 0 /\ 0 * Pointer = 0
    BY Multiple, HeapNumbers
  <2>2. QED BY <1>1, <2>1 DEF Alignment
<1>2. CASE align # 0
  <2>1. /\ align \in Nat \ {0} /\ MinAlign \in Nat /\ (align < MinAlign => MinAlign % align = 0)
        /\ (align >= MinAlign => align % Pointer = 0)
    BY <1>2, HeapNumbers
  <2>2. (1 * align) % align = 0 /\ 1 * align = align
    BY <2>1, Multiple
  <2>3. CASE align > MinAlign
    BY <1>2, <2>1, <2>2, <2>3 DEF Alignment, Larger
  <2>4. CASE ~(align > MinAlign)
    <3>1. Alignment(align) = MinAlign
      BY <1>2, <2>4 DEF Alignment, Larger
    <3>2. MinAlign % align = 0
      <4>1. CASE align = MinAlign
        BY <4>1, <2>2
      <4>2. CASE align # MinAlign
        BY <4>2, <2>1, <2>4, HeapNumbers
      <4>3. QED BY <4>1, <4>2
    <3>3. QED BY <1>2, <2>1, <3>1, <3>2, HeapNumbers
  <2>5. QED BY <2>3, <2>4
<1>3. QED BY <1>1, <1>2

\* The length heap_alloc looks for has room for the header, the bytes and the alignment.
LEMMA NeededFacts ==
    ASSUME NEW size \in Nat, NEW align \in Alignments \cup {0}
    PROVE  /\ Needed(size, align) \in Nat /\ Needed(size, align) % Pointer = 0
           /\ Needed(size, align) >= FreeChunk
           /\ Needed(size, align) >= size + AllocStruct + Alignment(align)
<1>1. PICK l \in Nat : l = Larger(size + AllocStruct, FreeChunk) /\ l >= size + AllocStruct /\ l >= FreeChunk
  BY HeapNumbers DEF Larger
<1>2. PICK r \in Nat : r = RoundUp(l, Pointer) /\ l <= r /\ r % Pointer = 0
  BY HeapNumbers, RoundUpFacts
<1>3. PICK a \in Nat : a = Alignment(align) /\ a % Pointer = 0
  BY AlignmentFacts
<1>4. Needed(size, align) = r + a
  BY <1>1, <1>2, <1>3 DEF Needed
<1>5. (r + a) % Pointer = 0
  BY <1>2, <1>3, HeapNumbers, SumOfMultiples
<1>6. QED
  BY <1>1, <1>2, <1>3, <1>4, <1>5, HeapNumbers

\* The first chunk long enough.
LEMMA FirstFitFacts ==
    ASSUME NEW list \in Seq(HeapChunk), NEW size, NEW align, Fitting(list, size, align) # {}
    PROVE  /\ FirstFit(list, size, align) \in 1 .. Len(list)
           /\ list[FirstFit(list, size, align)].len >= Needed(size, align)
<1> DEFINE F == Fitting(list, size, align)
<1>1. F \subseteq Nat /\ F # {} /\ F \subseteq 1 .. Len(list)
  BY DEF Fitting
<1> HIDE DEF F
<1>2. \E i \in F : \A j \in F : i <= j
  BY <1>1, LeastOf
<1>3. (CHOOSE i \in F : \A j \in F : i <= j) \in F
  BY <1>2
<1>4. FirstFit(list, size, align) \in F
  BY <1>3 DEF F, FirstFit
<1>5. QED
  BY <1>1, <1>4 DEF F, Fitting

\* What lies between two chunks of a list is on neither.
LEMMA SpansApart ==
    ASSUME NEW q, ListOk(q), NEW i \in DOMAIN q, NEW j \in DOMAIN q, i # j
    PROVE  Span(q[i]) \cap Span(q[j]) = {}
<1>1. q[i].at \in Nat /\ q[i].len \in Nat /\ q[j].at \in Nat /\ q[j].len \in Nat /\ i \in Nat /\ j \in Nat
  <2>1. q \in Seq(HeapChunk)
    BY DEF ListOk
  <2>2. q[i] \in HeapChunk /\ q[j] \in HeapChunk /\ i \in Nat /\ j \in Nat
    BY <2>1
  <2>3. QED BY <2>2 DEF HeapChunk
<1>2. i < j \/ j < i
  BY <1>1
<1>3. q[i].at + q[i].len < q[j].at \/ q[j].at + q[j].len < q[i].at
  BY <1>2 DEF ListOk, InOrder
<1>4. QED
  BY <1>1, <1>3 DEF Span

\* The block heap_alloc makes is taken out of one chunk, and what is left of it stays on the list.
LEMMA BlockFacts ==
    ASSUME NEW q, ListOk(q), NEW size \in Nat, NEW align \in Alignments \cup {0}, Fitting(q, size, align) # {}
    PROVE  /\ BlockOf(q, size, align) \in HeapBlock
           /\ Fits(BlockOf(q, size, align))
           /\ ListOk(ListAfter(q, size, align))
           /\ Span(BlockOf(q, size, align)) \subseteq FreeBytes(q)
           /\ FreeBytes(ListAfter(q, size, align)) = FreeBytes(q) \ Span(BlockOf(q, size, align))
<1>1. PICK i \in 1 .. Len(q) : i = FirstFit(q, size, align) /\ q[i].len >= Needed(size, align)
  BY FirstFitFacts DEF ListOk
<1>2. /\ q \in Seq(HeapChunk) /\ i \in DOMAIN q /\ q[i] \in HeapChunk /\ q[i].at % Pointer = 0
      /\ q[i] = [at |-> q[i].at, len |-> q[i].len]
  <2>1. q \in Seq(HeapChunk) /\ i \in DOMAIN q
    BY DEF ListOk
  <2>2. q[i] \in HeapChunk
    BY <2>1
  <2>3. QED BY <2>1, <2>2 DEF ListOk, HeapChunk
<1>3. PICK at \in Nat, len \in Nat : at = q[i].at /\ len = q[i].len /\ len >= 1
  BY <1>2 DEF HeapChunk
<1>4. PICK need \in Nat : /\ need = Needed(size, align) /\ need % Pointer = 0 /\ need >= FreeChunk
                          /\ need >= size + AllocStruct + Alignment(align)
  BY NeededFacts
<1>5. PICK got \in Nat : /\ got = IF Splits(q[i], need) THEN need ELSE len
  BY <1>3, <1>4
<1>6. need <= len /\ need <= got /\ got <= len
  BY <1>1, <1>3, <1>4, <1>5
<1>7. PICK ptr \in Nat : /\ ptr = IF align = 0 THEN at + AllocStruct ELSE RoundUp(at + AllocStruct, Alignment(align))
                         /\ at + AllocStruct <= ptr /\ ptr + size <= at + need
                         /\ align # 0 => ptr % align = 0
  <2>1. PICK start \in Nat : start = at + AllocStruct
    BY HeapNumbers
  <2>2. CASE align = 0
    <3>1. start + size <= at + need
      BY <2>1, <2>2, <1>4, HeapNumbers, AlignmentFacts
    <3>2. QED BY <2>1, <2>2, <3>1
  <2>3. CASE align # 0
    <3>1. PICK a \in Nat \ {0} : a = Alignment(align) /\ a % align = 0
      BY <2>3, AlignmentFacts
    <3>2. PICK p \in Nat : p = RoundUp(start, a) /\ start <= p /\ p <= start + a - 1 /\ p % a = 0
      BY RoundUpFacts
    <3>3. p % align = 0
      BY <2>3, <3>1, <3>2, MultipleOf, AlignmentFacts
    <3>4. p + size <= at + need
      <4>1. PICK s \in Nat : s = AllocStruct
        BY HeapNumbers
      <4>2. need >= size + s + a
        BY <1>4, <3>1, <4>1
      <4>3. p <= at + s + a - 1
        BY <2>1, <3>2, <4>1
      <4>4. QED BY <4>2, <4>3
    <3>5. QED BY <2>1, <2>3, <3>1, <3>2, <3>3, <3>4
  <2>4. QED BY <2>2, <2>3
<1> DEFINE b == BlockOf(q, size, align)
<1>8. b = [ptr |-> ptr, asked |-> size, align |-> align, at |-> at, len |-> got]
  BY <1>1, <1>3, <1>4, <1>5, <1>7 DEF BlockOf
<1> HIDE DEF b
<1>9. b \in HeapBlock
  BY <1>8, AlignmentFacts DEF HeapBlock
<1>10. Fits(b)
  <2>1. at % Pointer = 0 /\ got >= FreeChunk /\ ptr + size <= at + got
    <3>1. at % Pointer = 0
      BY <1>2, <1>3
    <3>2. FreeChunk \in Nat /\ need >= FreeChunk /\ need <= got
      BY <1>4, <1>6, HeapNumbers
    <3>3. got >= FreeChunk
      BY <3>2
    <3>4. ptr + size <= at + need /\ need <= got
      BY <1>6, <1>7
    <3>5. ptr + size <= at + got
      BY <3>4
    <3>6. QED BY <3>1, <3>3, <3>5
  <2>2. QED BY <1>7, <1>8, <2>1 DEF Fits
<1>11. /\ Span(b) = at .. at + got - 1
       /\ Span(q[i]) = at .. at + len - 1
  BY <1>3, <1>8 DEF Span
<1>12. Span(b) \subseteq FreeBytes(q)
  <2>1. Span(b) \subseteq Span(q[i])
    BY <1>6, <1>11
  <2>2. QED BY <1>2, <2>1 DEF FreeBytes
<1>13. \A x : x \in FreeBytes(q) \ Span(b) <=>
               \/ x \in Span(q[i]) /\ x \notin Span(b)
               \/ \E j \in DOMAIN q : j # i /\ x \in Span(q[j])
  <2>1. Span(b) \subseteq Span(q[i])
    BY <1>6, <1>11
  <2>2. \A j \in DOMAIN q : j # i => Span(q[j]) \cap Span(q[i]) = {}
    BY <1>2, SpansApart
  <2>3. QED BY <1>2, <2>1, <2>2 DEF FreeBytes
<1>14. CASE Splits(q[i], need)
  <2> DEFINE m == Chunk(at + need, len - need)
             l == ListAfter(q, size, align)
  <2>1. got = need /\ len > need /\ HeapChunk # {}
    <3>1. got = need /\ HeapChunk # {}
      BY <1>2, <1>5, <1>14
    <3>2. len > need + FreeChunk /\ FreeChunk \in Nat
      BY <1>3, <1>14, HeapNumbers DEF Splits
    <3>3. len > need
      BY <3>2
    <3>4. QED BY <3>1, <3>3
  <2>2. m \in HeapChunk /\ m.at = at + need /\ m.len = len - need /\ m.at + m.len = at + len
    <3>1. m.at = at + need /\ m.len = len - need
      BY DEF Chunk
    <3>2. len - need \in Nat \ {0} /\ at + need \in Nat /\ (at + need) + (len - need) = at + len
      BY <2>1
    <3>3. QED BY <3>1, <3>2 DEF Chunk, HeapChunk
  <2>3. l = [q EXCEPT ![i] = m]
    BY <1>1, <1>3, <1>4, <1>14 DEF ListAfter, ReplaceAt
  <2>4. m.at % Pointer = 0
    <3>1. at \in Nat /\ need \in Nat /\ Pointer \in Nat \ {0} /\ at % Pointer = 0 /\ need % Pointer = 0
      BY <1>2, <1>3, <1>4, HeapNumbers
    <3>2. (at + need) % Pointer = 0
      BY <3>1, SumOfMultiples
    <3>3. m.at = at + need
      BY <2>2
    <3>4. QED BY <3>2, <3>3
  <2>5. Span(m) = at + need .. at + len - 1
    BY <2>2 DEF Span
  <2> HIDE DEF m, l
  <2>6. l \in Seq(HeapChunk) /\ DOMAIN l = DOMAIN q /\ l[i] = m /\ \A j \in DOMAIN q : j # i => l[j] = q[j]
    BY <1>2, <2>2, <2>3
  <2>7. InOrder(l)
    <3> SUFFICES ASSUME NEW j \in DOMAIN q, NEW k \in DOMAIN q, j < k
                 PROVE  l[j].at + l[j].len < l[k].at
      BY <2>6 DEF InOrder
    <3>1. q[j].at + q[j].len < q[k].at
      BY DEF ListOk, InOrder
    <3>2. CASE j = i
      <4>1. j # k /\ l[j] = m /\ l[k] = q[k]
        BY <3>2, <2>6, <1>2
      <4>2. QED BY <3>1, <3>2, <4>1, <2>2, <1>3
    <3>3. CASE j # i /\ k = i
      <4>1. l[j] = q[j] /\ l[k] = m
        BY <3>3, <2>6
      <4>2. q[j].at \in Nat /\ q[j].len \in Nat
        <5>1. q[j] \in HeapChunk
          BY <1>2
        <5>2. QED BY <5>1 DEF HeapChunk
      <4>3. q[j].at + q[j].len < at
        BY <3>1, <3>3, <1>3
      <4>4. QED BY <4>1, <4>2, <4>3, <2>2
    <3>4. CASE j # i /\ k # i
      BY <3>1, <3>4, <2>6
    <3>5. QED BY <3>2, <3>3, <3>4
  <2>8. ListOk(l)
    BY <2>4, <2>6, <2>7, <1>2 DEF ListOk
  <2>9. \A x : x \in Span(m) <=> x \in Span(q[i]) /\ x \notin Span(b)
    BY <1>11, <2>1, <2>5
  <2>10. FreeBytes(l) = FreeBytes(q) \ Span(b)
    <3>1. \A x : x \in FreeBytes(l) <=> x \in Span(m) \/ \E j \in DOMAIN q : j # i /\ x \in Span(q[j])
      BY <1>2, <2>6 DEF FreeBytes
    <3>2. QED BY <3>1, <2>9, <1>13
  <2>11. QED BY <1>9, <1>10, <1>12, <2>8, <2>10 DEF b, l
<1>15. CASE ~Splits(q[i], need)
  <2> DEFINE l == ListAfter(q, size, align)
  <2>1. got = len /\ Span(b) = Span(q[i])
    BY <1>5, <1>11, <1>15
  <2>2. PICK n \in Nat : n = Len(q) /\ DOMAIN q = 1 .. n /\ i <= n /\ i >= 1 /\ i \in Nat
    BY <1>2
  <2>3. l = Cut(q, i - 1, i + 1)
    BY <1>1, <1>4, <1>15 DEF ListAfter, RemoveAt, Cut
  <2>4. i - 1 \in 0 .. Len(q) /\ i + 1 \in (i - 1) + 1 .. Len(q) + 1
    BY <2>2
  <2> HIDE DEF l
  <2>5. /\ ListOk(l)
        /\ FreeBytes(l) = UNION {Span(q[j]) : j \in 1 .. (i - 1) \cup (i + 1) .. Len(q)}
    BY <2>3, <2>4, CutKeeps
  <2>6. \A j : j \in 1 .. (i - 1) \cup (i + 1) .. Len(q) <=> j \in DOMAIN q /\ j # i
    BY <2>2
  <2>7. FreeBytes(l) = FreeBytes(q) \ Span(b)
    <3>1. \A x : x \in FreeBytes(l) <=> \E j \in DOMAIN q : j # i /\ x \in Span(q[j])
      BY <2>5, <2>6
    <3>2. QED BY <3>1, <2>1, <1>13
  <2>8. QED BY <1>9, <1>10, <1>12, <2>5, <2>7 DEF b, l
<1>16. QED BY <1>14, <1>15

---------------------------------------------------------------------------
(* The steps of the heap, and the theorem *)

\* A block's chunk is one the list can take.
LEMMA BlockIsChunk ==
    ASSUME NEW b \in HeapBlock, Fits(b)
    PROVE  /\ Chunk(b.at, b.len) \in HeapChunk /\ Chunk(b.at, b.len).at % Pointer = 0
           /\ Span(Chunk(b.at, b.len)) = Span(b) /\ Span(b) # {}
<1>1. b.at \in Nat /\ b.len \in Nat /\ b.len >= FreeChunk /\ b.at % Pointer = 0
  BY DEF HeapBlock, Fits
<1>2. b.len # 0
  BY <1>1, HeapNumbers
<1>3. b.at \in b.at .. b.at + b.len - 1
  BY <1>1, <1>2
<1>4. QED
  BY <1>1, <1>2, <1>3 DEF Chunk, HeapChunk, Span

\* heap_init puts the heap on the list in one chunk.
LEMMA HeapInitHolds == HeapInit => HeapInv
<1> SUFFICES ASSUME HeapInit PROVE HeapInv
  OBVIOUS
<1>1. /\ freeList = <<Chunk(HeapBase, HeapLen)>> /\ blocks = {}
      /\ Chunk(HeapBase, HeapLen) \in HeapChunk
      /\ Chunk(HeapBase, HeapLen).at = HeapBase /\ Chunk(HeapBase, HeapLen).len = HeapLen
  BY HeapNumbers DEF HeapInit, Chunk, HeapChunk
<1>2. freeList \in Seq(HeapChunk) /\ DOMAIN freeList = {1} /\ freeList[1] = Chunk(HeapBase, HeapLen)
  BY <1>1
<1>3. ListOk(freeList)
  BY <1>1, <1>2, HeapNumbers DEF ListOk, InOrder
<1>4. FreeBytes(freeList) = HeapBase .. HeapBase + HeapLen - 1
  BY <1>1, <1>2 DEF FreeBytes, Span
<1>5. QED
  BY <1>1, <1>3, <1>4 DEF HeapInv, SharedOut

\* A block that is made of the list.
LEMMA TakeKeeps ==
    ASSUME NEW list, NEW taken, NEW b, NEW after, NEW heap,
           SharedOut(list, taken, heap),
           b \in HeapBlock, Fits(b), Span(b) \subseteq FreeBytes(list),
           FreeBytes(after) = FreeBytes(list) \ Span(b)
    PROVE  SharedOut(after, taken \cup {b}, heap)
<1>1. \A c \in taken : Span(c) \cap Span(b) = {}
  BY DEF SharedOut
<1>2. \A c, d \in taken \cup {b} : c # d => Span(c) \cap Span(d) = {}
  BY <1>1 DEF SharedOut
<1>3. \A c \in taken \cup {b} : Span(c) \cap FreeBytes(after) = {}
  BY DEF SharedOut
<1>4. ASSUME NEW x PROVE x \in heap <=> x \in FreeBytes(after) \cup UNION {Span(c) : c \in taken \cup {b}}
  BY DEF SharedOut
<1>5. heap = FreeBytes(after) \cup UNION {Span(c) : c \in taken \cup {b}}
  BY <1>4
<1>6. \A c \in taken \cup {b} : c \in HeapBlock /\ Fits(c)
  BY DEF SharedOut
<1>7. QED
  BY <1>2, <1>3, <1>5, <1>6 DEF SharedOut

\* A block that goes back to the list.
LEMMA GiveKeeps ==
    ASSUME NEW list, NEW taken, NEW b \in taken, NEW after, NEW heap,
           SharedOut(list, taken, heap),
           FreeBytes(after) = FreeBytes(list) \cup Span(b)
    PROVE  SharedOut(after, taken \ {b}, heap)
<1>1. \A c \in taken \ {b} : Span(c) \cap Span(b) = {}
  BY DEF SharedOut
<1>2. ASSUME NEW x PROVE x \in heap <=> x \in FreeBytes(after) \cup UNION {Span(c) : c \in taken \ {b}}
  BY DEF SharedOut
<1>3. heap = FreeBytes(after) \cup UNION {Span(c) : c \in taken \ {b}}
  BY <1>2
<1>4. \A c \in taken \ {b} : Span(c) \cap FreeBytes(after) = {}
  BY <1>1 DEF SharedOut
<1>5. /\ \A c \in taken \ {b} : c \in HeapBlock /\ Fits(c)
      /\ \A c, d \in taken \ {b} : c # d => Span(c) \cap Span(d) = {}
  BY DEF SharedOut
<1>6. QED
  BY <1>3, <1>4, <1>5 DEF SharedOut

\* heap_free
LEMMA HeapFreeKeeps ==
    ASSUME HeapInv, NEW b \in blocks, HeapFree(b)
    PROVE  HeapInv'
<1>1. b \in HeapBlock /\ Fits(b) /\ ListOk(freeList)
  BY DEF HeapInv, SharedOut
<1>2. PICK c \in HeapChunk : c = Chunk(b.at, b.len) /\ c.at % Pointer = 0 /\ Span(c) = Span(b)
  BY <1>1, BlockIsChunk
<1>3. Span(c) \cap FreeBytes(freeList) = {}
  BY <1>2 DEF HeapInv, SharedOut
<1>4. freeList' = InsertFreeChunk(freeList, c) /\ blocks' = blocks \ {b}
  BY <1>2 DEF HeapFree
<1>5. PICK after, heap : after = InsertFreeChunk(freeList, c) /\ heap = HeapBase .. HeapBase + HeapLen - 1
  OBVIOUS
<1>6. ListOk(after) /\ FreeBytes(after) = FreeBytes(freeList) \cup Span(b)
  BY <1>1, <1>2, <1>3, <1>5, InsertChunkFacts
<1>7. SharedOut(freeList, blocks, heap)
  BY <1>5 DEF HeapInv
<1>8. SharedOut(after, blocks \ {b}, heap)
  BY <1>6, <1>7, GiveKeeps
<1>9. QED
  BY <1>4, <1>5, <1>6, <1>8 DEF HeapInv

\* heap_alloc
LEMMA HeapAllocKeeps ==
    ASSUME HeapInv, NEW size \in Sizes, NEW align \in Alignments, HeapAlloc(size, align)
    PROVE  HeapInv'
<1>1. size \in Nat /\ align \in Alignments \cup {0} /\ Fitting(freeList, size, align) # {} /\ ListOk(freeList)
  BY HeapAssumption DEF HeapAlloc, HeapInv
<1>2. PICK b, after, heap : /\ b = BlockOf(freeList, size, align) /\ after = ListAfter(freeList, size, align)
                            /\ heap = HeapBase .. HeapBase + HeapLen - 1
  OBVIOUS
<1>3. /\ b \in HeapBlock /\ Fits(b) /\ ListOk(after)
      /\ Span(b) \subseteq FreeBytes(freeList) /\ FreeBytes(after) = FreeBytes(freeList) \ Span(b)
  BY <1>1, <1>2, BlockFacts
<1>4. freeList' = after /\ blocks' = blocks \cup {b}
  BY <1>2 DEF HeapAlloc
<1>5. SharedOut(freeList, blocks, heap)
  BY <1>2 DEF HeapInv
<1>6. SharedOut(after, blocks \cup {b}, heap)
  BY <1>3, <1>5, TakeKeeps
<1>7. QED
  BY <1>2, <1>3, <1>4, <1>6 DEF HeapInv

\* heap_realloc: of the new block first, while the old one is still taken.
LEMMA HeapReallocKeeps ==
    ASSUME HeapInv, NEW b \in blocks, NEW size \in Sizes, HeapRealloc(b, size)
    PROVE  HeapInv'
<1>1. CASE size = 0 /\ HeapFree(b)
  BY <1>1, HeapFreeKeeps
<1>2. ASSUME size # 0, Fitting(freeList, size, 0) # {},
             blocks' = (blocks \ {b}) \cup {BlockOf(freeList, size, 0)},
             freeList' = InsertFreeChunk(ListAfter(freeList, size, 0), Chunk(b.at, b.len))
      PROVE  HeapInv'
  <2>1. size \in Nat /\ 0 \in Alignments \cup {0} /\ ListOk(freeList) /\ b \in HeapBlock /\ Fits(b)
    BY HeapAssumption DEF HeapInv, SharedOut
  <2>2. PICK new, list, heap : /\ new = BlockOf(freeList, size, 0) /\ list = ListAfter(freeList, size, 0)
                               /\ heap = HeapBase .. HeapBase + HeapLen - 1
    OBVIOUS
  <2>3. /\ new \in HeapBlock /\ Fits(new) /\ ListOk(list)
        /\ Span(new) \subseteq FreeBytes(freeList) /\ FreeBytes(list) = FreeBytes(freeList) \ Span(new)
    BY <1>2, <2>1, <2>2, BlockFacts
  <2>4. SharedOut(freeList, blocks, heap)
    BY <2>2 DEF HeapInv
  <2>5. PICK all : all = blocks \cup {new}
    OBVIOUS
  <2>6. SharedOut(list, all, heap) /\ b \in all
    BY <2>3, <2>4, <2>5, TakeKeeps
  <2>7. PICK c \in HeapChunk : /\ c = Chunk(b.at, b.len) /\ c.at % Pointer = 0 /\ Span(c) = Span(b)
                               /\ Span(b) # {}
    BY <2>1, BlockIsChunk
  <2>8. Span(c) \cap FreeBytes(list) = {}
    BY <2>6, <2>7 DEF SharedOut
  <2>9. PICK after : after = InsertFreeChunk(list, c)
    OBVIOUS
  <2>10. ListOk(after) /\ FreeBytes(after) = FreeBytes(list) \cup Span(b)
    BY <2>3, <2>7, <2>8, <2>9, InsertChunkFacts
  <2>11. SharedOut(after, all \ {b}, heap)
    BY <2>6, <2>10, GiveKeeps
  <2>12. b # new
    <3>1. Span(b) \cap FreeBytes(freeList) = {}
      BY DEF HeapInv, SharedOut
    <3>2. QED BY <2>3, <2>7, <3>1
  <2>13. blocks' = all \ {b} /\ freeList' = after
    BY <1>2, <2>2, <2>5, <2>7, <2>9, <2>12
  <2>14. QED
    BY <2>2, <2>10, <2>11, <2>13 DEF HeapInv
<1>3. QED
  BY <1>1, <1>2 DEF HeapRealloc

\* Every operation keeps the invariant.
LEMMA HeapStep == HeapInv /\ [HeapNext]_heapVars => HeapInv'
<1> SUFFICES ASSUME HeapInv, [HeapNext]_heapVars PROVE HeapInv'
  OBVIOUS
<1>1. CASE UNCHANGED heapVars
  BY <1>1 DEF heapVars, HeapInv
<1>2. CASE HeapNext
  BY <1>2, HeapAllocKeeps, HeapFreeKeeps, HeapReallocKeeps DEF HeapNext
<1>3. QED BY <1>1, <1>2

\* The invariant of the heap, for any size and place of it and any sizes and alignments asked for.
THEOREM HeapInvHolds == HeapSpec => []HeapInv
<1>1. QED
  BY HeapInitHolds, HeapStep, PTL DEF HeapSpec

\* Through any order of allocations and frees the free chunks and the blocks are the heap, every
\* byte of it once, with no two free chunks side by side; and what a block was asked to hold lies in
\* its chunk, aligned, behind its header (lib/heap/heap.c).
THEOREM HeapKept == HeapSpec => []HeapSound
<1>1. HeapInv => HeapSound
  <2> SUFFICES ASSUME HeapInv PROVE HeapSound
    OBVIOUS
  <2>1. BlocksFit
    BY DEF HeapInv, SharedOut, BlocksFit, Fits
  <2>2. HeapTiled
    <3>1. \A i, j \in DOMAIN freeList : i < j => freeList[i].at + freeList[i].len < freeList[j].at
      BY DEF HeapInv, ListOk, InOrder
    <3>2. \A b \in blocks, i \in DOMAIN freeList : Span(b) \cap Span(freeList[i]) = {}
      BY DEF HeapInv, SharedOut, FreeBytes
    <3>3. \A b \in blocks, c \in blocks : b # c => Span(b) \cap Span(c) = {}
      BY DEF HeapInv, SharedOut
    <3>4. FreeBytes(freeList) \cup UNION {Span(b) : b \in blocks}
              = UNION ({Span(b) : b \in blocks} \cup {Span(freeList[i]) : i \in DOMAIN freeList})
      BY DEF FreeBytes
    <3>5. QED BY <3>1, <3>2, <3>3, <3>4 DEF HeapInv, SharedOut, HeapTiled
  <2>3. QED BY <2>1, <2>2 DEF HeapSound
<1>2. QED
  BY <1>1, HeapInvHolds, PTL

---------------------------------------------------------------------------
(* The map of the DRAM *)

\* What a block and a record are.
MapBlock == [start : Nat, size : Nat, rank : DOMAIN RankInfo]
MapArea == [start : Nat, size : Nat]

\* The pages of a range of a list or array.
PagesAt(f, i) == Pages(f[i])

\* The first n of the ranges have no page in common.
Apart(f, n) == \A i, j \in 1 .. n : i # j => PagesAt(f, i) \cap PagesAt(f, j) = {}

\* Their pages.
PagesOf(f, n) == UNION {PagesAt(f, i) : i \in 1 .. n}

\* Every block lies in its rank.
InRanks(list) == \A i \in 1 .. Len(list) : Within(list[i], RankInfo[list[i].rank])

\* The protected memory is the first record, no two records share a page, and there is nothing
\* behind the last.
RecordsOk(array, num) ==
    /\ array \in [1 .. ReservedMax -> MapArea] /\ num \in 1 .. ReservedMax
    /\ array[1] = Protected
    /\ \A i \in num + 1 .. ReservedMax : array[i] = Empty
    /\ Apart(array, num)

\* A list of blocks, each in its rank, no two of which share a page.
BlocksOk(list) == list \in Seq(MapBlock) /\ InRanks(list) /\ Apart(list, Len(list))

\* The inductive invariant: MapTiled, with the types, and with the protected memory in its
\* place.
MapInv ==
    /\ BlocksOk(mblock) /\ RecordsOk(reserved, reservedNum)
    /\ PagesOf(mblock, Len(mblock)) \cap PagesOf(reserved, reservedNum) = {}
    /\ Dram = PagesOf(mblock, Len(mblock)) \cup PagesOf(reserved, reservedNum)

---------------------------------------------------------------------------
(* Ranges of pages *)

\* What the constants are.
LEMMA DramFacts ==
    /\ RankInfo \in Seq([start : Nat \ {0}, size : Nat \ {0}])
    /\ Len(RankInfo) \in Nat /\ DOMAIN RankInfo = 1 .. Len(RankInfo)
    /\ \A k \in DOMAIN RankInfo : /\ RankInfo[k] \in MapArea /\ RankInfo[k].start \in Nat \ {0}
                                  /\ RankInfo[k].size \in Nat \ {0}
    /\ Protected \in MapArea /\ Protected.size # 0 /\ InRank(Protected)
    /\ ReservedMax \in Nat \ {0}
<1>1. RankInfo \in Seq([start : Nat \ {0}, size : Nat \ {0}])
  BY DramAssumption
<1>2. Len(RankInfo) \in Nat /\ DOMAIN RankInfo = 1 .. Len(RankInfo)
  BY <1>1
<1>3. ASSUME NEW k \in DOMAIN RankInfo
      PROVE  /\ RankInfo[k] \in MapArea /\ RankInfo[k].start \in Nat \ {0} /\ RankInfo[k].size \in Nat \ {0}
  <2>1. RankInfo[k] \in [start : Nat \ {0}, size : Nat \ {0}]
    BY <1>1, <1>2, ElementOfSeq
  <2>2. QED BY <2>1 DEF MapArea
<1>4. Protected \in MapArea /\ Protected.size # 0
  BY DramAssumption DEF MapArea
<1>5. InRank(Protected) /\ ReservedMax \in Nat \ {0}
  BY DramAssumption DEF InRank
<1>6. QED
  BY <1>1, <1>2, <1>3, <1>4, <1>5

\* The rank of a range that lies in one.
LEMMA RankFacts ==
    ASSUME NEW r, InRank(r)
    PROVE  RankOf(r) \in DOMAIN RankInfo /\ Within(r, RankInfo[RankOf(r)])
BY DEF RankOf, InRank

\* The ranges g are the ranges f, but for one.
SameBut(f, g, t, n) == \A k \in 1 .. n : k # t => PagesAt(g, k) = PagesAt(f, k)

\* One of the ranges is another one now.
LEMMA ReplaceFacts ==
    ASSUME NEW f, NEW g, NEW n \in Nat, NEW t \in 1 .. n, Apart(f, n),
           SameBut(f, g, t, n),
           PagesAt(g, t) \cap (PagesOf(f, n) \ PagesAt(f, t)) = {}
    PROVE  /\ Apart(g, n)
           /\ PagesOf(g, n) = (PagesOf(f, n) \ PagesAt(f, t)) \cup PagesAt(g, t)
<1>1. \A k \in 1 .. n : k # t => PagesAt(g, k) = PagesAt(f, k)
  BY DEF SameBut
<1>2. \A k \in 1 .. n : k # t => PagesAt(f, k) \cap PagesAt(f, t) = {}
  BY DEF Apart
<1>3. \A k \in 1 .. n : k # t => PagesAt(f, k) \subseteq PagesOf(f, n) \ PagesAt(f, t)
  BY <1>2 DEF PagesOf
<1>4. Apart(g, n)
  <2> SUFFICES ASSUME NEW i \in 1 .. n, NEW j \in 1 .. n, i # j
               PROVE  PagesAt(g, i) \cap PagesAt(g, j) = {}
    BY DEF Apart
  <2>1. CASE i = t
    BY <2>1, <1>1, <1>3
  <2>2. CASE j = t
    BY <2>2, <1>1, <1>3
  <2>3. CASE i # t /\ j # t
    BY <2>3, <1>1 DEF Apart
  <2>4. QED BY <2>1, <2>2, <2>3
<1>5. ASSUME NEW x PROVE x \in PagesOf(g, n) <=> x \in (PagesOf(f, n) \ PagesAt(f, t)) \cup PagesAt(g, t)
  <2>1. x \in PagesOf(g, n) <=> \E k \in 1 .. n : x \in PagesAt(g, k)
    BY DEF PagesOf
  <2>2. x \in PagesOf(f, n) <=> \E k \in 1 .. n : x \in PagesAt(f, k)
    BY DEF PagesOf
  <2>3. QED BY <2>1, <2>2, <1>1, <1>2
<1>6. QED
  BY <1>4, <1>5

\* The ranges g are the ranges f, and one more at place p.
OneMore(f, g, p, m) ==
    /\ \A k \in 1 .. p - 1 : PagesAt(g, k) = PagesAt(f, k)
    /\ \A k \in p + 1 .. m : PagesAt(g, k) = PagesAt(f, k - 1)

\* One range more.
LEMMA MapInsertFacts ==
    ASSUME NEW f, NEW g, NEW n \in Nat, NEW m, m = n + 1, NEW p \in 1 .. m, Apart(f, n),
           OneMore(f, g, p, m), PagesAt(g, p) \cap PagesOf(f, n) = {}
    PROVE  /\ Apart(g, m)
           /\ PagesOf(g, m) = PagesOf(f, n) \cup PagesAt(g, p)
<1> DEFINE old(k) == IF k < p THEN k ELSE k - 1
<1>1. ASSUME NEW k \in 1 .. m, k # p PROVE old(k) \in 1 .. n /\ PagesAt(g, k) = PagesAt(f, old(k))
  <2>1. CASE k < p
    BY <2>1 DEF OneMore
  <2>2. CASE k > p
    <3>1. k \in p + 1 .. m /\ k - 1 \in 1 .. n
      BY <2>2
    <3>2. PagesAt(g, k) = PagesAt(f, k - 1)
      BY <3>1 DEF OneMore
    <3>3. QED BY <2>2, <3>1, <3>2
  <2>3. QED BY <1>1, <2>1, <2>2
<1>2. \A k, j \in 1 .. m : k # p /\ j # p /\ k # j => old(k) # old(j)
  OBVIOUS
<1>3. \A i \in 1 .. n : \E k \in 1 .. m : k # p /\ old(k) = i
  <2> SUFFICES ASSUME NEW i \in 1 .. n PROVE \E k \in 1 .. m : k # p /\ old(k) = i
    OBVIOUS
  <2>1. CASE i < p
    BY <2>1
  <2>2. CASE ~(i < p)
    <3>1. i + 1 \in 1 .. m /\ i + 1 # p /\ old(i + 1) = i
      BY <2>2
    <3>2. QED BY <3>1
  <2>3. QED BY <2>1, <2>2
<1> HIDE DEF old
<1>4. \A i \in 1 .. n : PagesAt(f, i) \subseteq PagesOf(f, n)
  BY DEF PagesOf
<1>5. Apart(g, m)
  <2> SUFFICES ASSUME NEW i \in 1 .. m, NEW j \in 1 .. m, i # j
               PROVE  PagesAt(g, i) \cap PagesAt(g, j) = {}
    BY DEF Apart
  <2>1. CASE i = p
    <3>1. PagesAt(g, j) \subseteq PagesOf(f, n)
      BY <2>1, <1>1, <1>4
    <3>2. QED BY <2>1, <3>1
  <2>2. CASE j = p
    <3>1. PagesAt(g, i) \subseteq PagesOf(f, n)
      BY <2>2, <1>1, <1>4
    <3>2. QED BY <2>2, <3>1
  <2>3. CASE i # p /\ j # p
    <3>1. old(i) \in 1 .. n /\ old(j) \in 1 .. n /\ old(i) # old(j)
      BY <2>3, <1>1, <1>2
    <3>2. PagesAt(f, old(i)) \cap PagesAt(f, old(j)) = {}
      BY <3>1 DEF Apart
    <3>3. QED BY <2>3, <3>2, <1>1
  <2>4. QED BY <2>1, <2>2, <2>3
<1>6. ASSUME NEW x PROVE x \in PagesOf(g, m) <=> x \in PagesOf(f, n) \cup PagesAt(g, p)
  <2>1. x \in PagesOf(g, m) <=> \E k \in 1 .. m : x \in PagesAt(g, k)
    BY DEF PagesOf
  <2>2. x \in PagesOf(f, n) <=> \E k \in 1 .. n : x \in PagesAt(f, k)
    BY DEF PagesOf
  <2>3. ASSUME x \in PagesOf(f, n) PROVE \E k \in 1 .. m : x \in PagesAt(g, k)
    <3>1. PICK i \in 1 .. n : x \in PagesAt(f, i)
      BY <2>2, <2>3
    <3>2. PICK k \in 1 .. m : k # p /\ old(k) = i
      BY <1>3
    <3>3. QED BY <3>1, <3>2, <1>1
  <2>4. ASSUME NEW k \in 1 .. m, x \in PagesAt(g, k) PROVE x \in PagesOf(f, n) \cup PagesAt(g, p)
    <3>1. CASE k = p
      BY <3>1, <2>4
    <3>2. CASE k # p
      BY <3>2, <2>4, <1>1, <1>4
    <3>3. QED BY <3>1, <3>2
  <2>5. p \in 1 .. m
    OBVIOUS
  <2>6. QED BY <2>1, <2>3, <2>4, <2>5
<1>7. QED
  BY <1>5, <1>6

\* One range less.
LEMMA DropFacts ==
    ASSUME NEW f, NEW g, NEW n \in Nat, NEW m, m = n + 1, NEW p \in 1 .. m, Apart(g, m),
           OneMore(f, g, p, m)
    PROVE  Apart(f, n) /\ PagesOf(f, n) = PagesOf(g, m) \ PagesAt(g, p)
<1> DEFINE new(k) == IF k < p THEN k ELSE k + 1
<1>1. ASSUME NEW k \in 1 .. n PROVE new(k) \in 1 .. m /\ new(k) # p /\ PagesAt(f, k) = PagesAt(g, new(k))
  <2>1. CASE k < p
    BY <2>1 DEF OneMore
  <2>2. CASE ~(k < p)
    <3>1. PICK j \in p + 1 .. m : j = k + 1 /\ j - 1 = k
      BY <2>2
    <3>2. PagesAt(g, j) = PagesAt(f, j - 1)
      BY DEF OneMore
    <3>3. QED BY <2>2, <3>1, <3>2
  <2>3. QED BY <2>1, <2>2
<1>2. \A k, j \in 1 .. n : k # j => new(k) # new(j)
  OBVIOUS
<1>3. \A i \in 1 .. m : i # p => \E k \in 1 .. n : new(k) = i
  <2> SUFFICES ASSUME NEW i \in 1 .. m, i # p PROVE \E k \in 1 .. n : new(k) = i
    OBVIOUS
  <2>1. CASE i < p
    BY <2>1
  <2>2. CASE ~(i < p)
    <3>1. i - 1 \in 1 .. n /\ new(i - 1) = i
      BY <2>2
    <3>2. QED BY <3>1
  <2>3. QED BY <2>1, <2>2
<1> HIDE DEF new
<1>4. Apart(f, n)
  <2> SUFFICES ASSUME NEW i \in 1 .. n, NEW j \in 1 .. n, i # j
               PROVE  PagesAt(f, i) \cap PagesAt(f, j) = {}
    BY DEF Apart
  <2>1. new(i) \in 1 .. m /\ new(j) \in 1 .. m /\ new(i) # new(j)
    BY <1>1, <1>2
  <2>2. PagesAt(g, new(i)) \cap PagesAt(g, new(j)) = {}
    BY <2>1 DEF Apart
  <2>3. QED BY <2>2, <1>1
<1>5. ASSUME NEW x PROVE x \in PagesOf(f, n) <=> x \in PagesOf(g, m) \ PagesAt(g, p)
  <2>1. x \in PagesOf(g, m) <=> \E k \in 1 .. m : x \in PagesAt(g, k)
    BY DEF PagesOf
  <2>2. x \in PagesOf(f, n) <=> \E k \in 1 .. n : x \in PagesAt(f, k)
    BY DEF PagesOf
  <2>3. \A k \in 1 .. m : k # p => PagesAt(g, k) \cap PagesAt(g, p) = {}
    BY DEF Apart
  <2>4. ASSUME NEW k \in 1 .. n, x \in PagesAt(f, k) PROVE x \in PagesOf(g, m) \ PagesAt(g, p)
    <3>1. new(k) \in 1 .. m /\ new(k) # p /\ x \in PagesAt(g, new(k))
      BY <2>4, <1>1
    <3>2. QED BY <3>1, <2>1, <2>3
  <2>5. ASSUME NEW i \in 1 .. m, x \in PagesAt(g, i), x \notin PagesAt(g, p) PROVE \E k \in 1 .. n : x \in PagesAt(f, k)
    <3>1. PICK k \in 1 .. n : new(k) = i
      BY <2>5, <1>3
    <3>2. QED BY <3>1, <2>5, <1>1
  <2>6. QED BY <2>1, <2>2, <2>4, <2>5
<1>6. QED
  BY <1>4, <1>5

---------------------------------------------------------------------------
(* The list of blocks *)

\* The list q with x and y in the place of block t.
Doubled(q, t, x, y) == SubSeq(q, 1, t - 1) \o <<x, y>> \o SubSeq(q, t + 1, Len(q))

\* c is that list.
IsDoubled(c, S, q, t, x, y) ==
    /\ c \in Seq(S) /\ Len(c) = Len(q) + 1
    /\ \A k \in 1 .. t - 1 : c[k] = q[k]
    /\ c[t] = x /\ c[t + 1] = y
    /\ \A k \in t + 2 .. Len(q) + 1 : c[k] = q[k - 1]

\* Two blocks in the place of one.
LEMMA TwoForOne ==
    ASSUME NEW S, NEW q \in Seq(S), NEW t \in 1 .. Len(q), NEW x \in S, NEW y \in S
    PROVE  IsDoubled(Doubled(q, t, x, y), S, q, t, x, y)
<1> DEFINE c == Doubled(q, t, x, y)
           s == SubSeq(q, 1, t - 1)
           v == <<x, y>>
           u == s \o v
           r == SubSeq(q, t + 1, Len(q))
<1>1. PICK n \in Nat : n = Len(q)
  OBVIOUS
<1>2. t \in Nat /\ t >= 1 /\ t <= n /\ t - 1 \in 0 .. Len(q) /\ t + 1 \in 1 .. Len(q) + 1
  BY <1>1
<1>3. s \in Seq(S) /\ Len(s) = t - 1 /\ \A i \in 1 .. t - 1 : s[i] = q[i]
  BY <1>2, StartFacts
<1>4. r \in Seq(S) /\ Len(r) = n - t /\ \A i \in 1 .. n - t : r[i] = q[t + i]
  <2>1. r \in Seq(S) /\ Len(r) = Len(q) - (t + 1) + 1 /\ \A i \in 1 .. Len(q) - (t + 1) + 1 : r[i] = q[(t + 1) + i - 1]
    BY <1>2, RestFacts
  <2>2. Len(q) - (t + 1) + 1 = n - t /\ \A i \in 1 .. n - t : (t + 1) + i - 1 = t + i
    BY <1>1, <1>2
  <2> HIDE DEF r
  <2>3. QED BY <2>1, <2>2
<1>5. v \in Seq(S) /\ Len(v) = 2 /\ v[1] = x /\ v[2] = y
  OBVIOUS
<1>6. c = u \o r
  BY DEF Doubled
<1> HIDE DEF s, r, v, c
<1>7. u \in Seq(S) /\ Len(u) = t + 1 /\ (\A i \in 1 .. t - 1 : u[i] = q[i]) /\ u[t] = x /\ u[t + 1] = y
  <2>1. u \in Seq(S) /\ Len(u) = Len(s) + Len(v)
        /\ \A i \in 1 .. Len(s) + Len(v) : u[i] = IF i <= Len(s) THEN s[i] ELSE v[i - Len(s)]
    BY <1>3, <1>5, ConcatProperties
  <2> HIDE DEF u
  <2>2. Len(s) + Len(v) = t + 1
    BY <1>2, <1>3, <1>5
  <2>3. ASSUME NEW i \in 1 .. t - 1 PROVE u[i] = q[i]
    <3>1. i \in 1 .. t + 1 /\ i <= t - 1
      BY <1>2
    <3>2. QED BY <3>1, <2>1, <2>2, <1>3
  <2>4. u[t] = x
    <3>1. t \in 1 .. t + 1 /\ ~(t <= t - 1) /\ t - (t - 1) = 1
      BY <1>2
    <3>2. QED BY <3>1, <2>1, <2>2, <1>3, <1>5
  <2>5. u[t + 1] = y
    <3>1. t + 1 \in 1 .. t + 1 /\ ~(t + 1 <= t - 1) /\ (t + 1) - (t - 1) = 2
      BY <1>2
    <3>2. QED BY <3>1, <2>1, <2>2, <1>3, <1>5
  <2>6. QED BY <2>1, <2>2, <2>3, <2>4, <2>5
<1> HIDE DEF u
<1>8. /\ c \in Seq(S) /\ Len(c) = Len(u) + Len(r)
      /\ \A i \in 1 .. Len(u) + Len(r) : c[i] = IF i <= Len(u) THEN u[i] ELSE r[i - Len(u)]
  <2>1. u \in Seq(S) /\ r \in Seq(S)
    BY <1>4, <1>7
  <2>2. QED BY <2>1, <1>6, ConcatProperties
<1>9. Len(u) + Len(r) = n + 1
  BY <1>1, <1>2, <1>4, <1>7
<1>10. \A k \in 1 .. t + 1 : c[k] = u[k]
  <2> SUFFICES ASSUME NEW k \in 1 .. t + 1 PROVE c[k] = u[k]
    OBVIOUS
  <2>1. k \in 1 .. n + 1 /\ k <= t + 1
    BY <1>1, <1>2
  <2>2. QED BY <2>1, <1>7, <1>8, <1>9
<1>11. ASSUME NEW k \in t + 2 .. n + 1 PROVE c[k] = q[k - 1]
  <2>1. k \in 1 .. n + 1 /\ ~(k <= t + 1) /\ k - (t + 1) \in 1 .. n - t /\ t + (k - (t + 1)) = k - 1
    BY <1>1, <1>2
  <2>2. c[k] = r[k - (t + 1)]
    BY <2>1, <1>7, <1>8, <1>9
  <2>3. r[k - (t + 1)] = q[t + (k - (t + 1))]
    BY <2>1, <1>4
  <2>4. QED BY <2>1, <2>2, <2>3
<1>12. (\A k \in 1 .. t - 1 : c[k] = q[k]) /\ c[t] = x /\ c[t + 1] = y
  <2>1. \A k \in 1 .. t - 1 : k \in 1 .. t + 1
    BY <1>2
  <2>2. t \in 1 .. t + 1 /\ t + 1 \in 1 .. t + 1
    BY <1>2
  <2>3. QED BY <2>1, <2>2, <1>7, <1>10
<1>13. QED
  BY <1>1, <1>8, <1>9, <1>11, <1>12 DEF c, IsDoubled

\* What a block is without an area in it: a block, or two.
LEMMA RemainsFacts ==
    ASSUME NEW b \in MapBlock, NEW taken \in MapArea, Within(taken, b)
    PROVE  \/ \E x \in MapBlock : /\ Remains(b, taken) = <<x>>
                                  /\ x.rank = b.rank /\ Within(x, b)
                                  /\ Pages(x) = Pages(b) \ Pages(taken)
           \/ \E x, y \in MapBlock : /\ Remains(b, taken) = <<x, y>>
                                     /\ x.rank = b.rank /\ Within(x, b)
                                     /\ y.rank = b.rank /\ Within(y, b)
                                     /\ Pages(x) \cap Pages(y) = {}
                                     /\ Pages(x) \cup Pages(y) = Pages(b) \ Pages(taken)
<1>1. PICK s \in Nat, n \in Nat, k \in DOMAIN RankInfo : s = b.start /\ n = b.size /\ k = b.rank
  BY DEF MapBlock
<1>2. PICK ts \in Nat, tn \in Nat : ts = taken.start /\ tn = taken.size
  BY DEF MapArea
<1>3. s <= ts /\ ts + tn <= s + n /\ End(taken) = ts + tn /\ End(b) = s + n
  BY <1>1, <1>2 DEF Within, End
<1>4. Pages(b) = s .. s + n - 1 /\ Pages(taken) = ts .. ts + tn - 1
  <2>1. Pages(b) = s .. s + n - 1
    BY <1>1, <1>3 DEF Pages
  <2>2. Pages(taken) = ts .. ts + tn - 1
    BY <1>2, <1>3 DEF Pages
  <2>3. QED BY <2>1, <2>2
<1>5. CASE ts = s
  <2> DEFINE x == Block(ts + tn, n - tn, k)
  <2>1. Remains(b, taken) = <<x>>
    BY <1>1, <1>2, <1>3, <1>5 DEF Remains
  <2>2. x.start = ts + tn /\ x.size = n - tn /\ x.rank = k
    BY DEF Block
  <2>3. n - tn \in Nat /\ ts + tn \in Nat /\ (ts + tn) + (n - tn) = s + n
    BY <1>3, <1>5
  <2>4. x \in MapBlock
    BY <2>3 DEF Block, MapBlock
  <2> HIDE DEF x
  <2>5. Within(x, b) /\ Pages(x) = ts + tn .. s + n - 1
    <3>1. End(x) = s + n
      BY <2>2, <2>3 DEF End
    <3>2. Pages(x) = ts + tn .. s + n - 1
      BY <2>2, <3>1 DEF Pages
    <3>3. Within(x, b)
      BY <2>2, <3>1, <1>1, <1>2, <1>3 DEF Within
    <3>4. QED BY <3>2, <3>3
  <2>6. Pages(x) = Pages(b) \ Pages(taken)
    BY <2>5, <1>4, <1>5
  <2>7. QED BY <2>1, <2>2, <2>4, <2>5, <2>6, <1>1
<1>6. CASE ts # s /\ ts + tn = s + n
  <2> DEFINE x == Block(s, ts - s, k)
  <2>1. Remains(b, taken) = <<x>>
    BY <1>1, <1>2, <1>3, <1>6 DEF Remains
  <2>2. x.start = s /\ x.size = ts - s /\ x.rank = k
    BY DEF Block
  <2>3. ts - s \in Nat /\ s + (ts - s) = ts
    BY <1>3
  <2>4. x \in MapBlock
    BY <2>3 DEF Block, MapBlock
  <2> HIDE DEF x
  <2>5. Within(x, b) /\ Pages(x) = s .. ts - 1
    <3>1. End(x) = ts
      BY <2>2, <2>3 DEF End
    <3>2. Pages(x) = s .. ts - 1
      BY <2>2, <3>1 DEF Pages
    <3>3. Within(x, b)
      BY <2>2, <3>1, <1>1, <1>2, <1>3 DEF Within
    <3>4. QED BY <3>2, <3>3
  <2>6. Pages(x) = Pages(b) \ Pages(taken)
    BY <2>5, <1>3, <1>4, <1>6
  <2>7. QED BY <2>1, <2>2, <2>4, <2>5, <2>6, <1>1
<1>7. CASE ts # s /\ ts + tn # s + n
  <2> DEFINE x == Block(s, ts - s, k)
             y == Block(ts + tn, (s + n) - (ts + tn), k)
  <2>1. Remains(b, taken) = <<x, y>>
    BY <1>1, <1>2, <1>3, <1>7 DEF Remains
  <2>2. /\ x.start = s /\ x.size = ts - s /\ x.rank = k
        /\ y.start = ts + tn /\ y.size = (s + n) - (ts + tn) /\ y.rank = k
    BY DEF Block
  <2>3. /\ ts - s \in Nat /\ s + (ts - s) = ts
        /\ (s + n) - (ts + tn) \in Nat /\ ts + tn \in Nat /\ (ts + tn) + ((s + n) - (ts + tn)) = s + n
    BY <1>3
  <2>4. x \in MapBlock /\ y \in MapBlock
    BY <2>3 DEF Block, MapBlock
  <2> HIDE DEF x, y
  <2>5. Within(x, b) /\ Pages(x) = s .. ts - 1
    <3>1. End(x) = ts
      BY <2>2, <2>3 DEF End
    <3>2. Pages(x) = s .. ts - 1
      BY <2>2, <3>1 DEF Pages
    <3>3. Within(x, b)
      BY <2>2, <3>1, <1>1, <1>2, <1>3 DEF Within
    <3>4. QED BY <3>2, <3>3
  <2>6. Within(y, b) /\ Pages(y) = ts + tn .. s + n - 1
    <3>1. End(y) = s + n
      BY <2>2, <2>3 DEF End
    <3>2. Pages(y) = ts + tn .. s + n - 1
      BY <2>2, <3>1 DEF Pages
    <3>3. Within(y, b)
      BY <2>2, <3>1, <1>1, <1>2, <1>3 DEF Within
    <3>4. QED BY <3>2, <3>3
  <2>7. Pages(x) \cup Pages(y) = Pages(b) \ Pages(taken) /\ Pages(x) \cap Pages(y) = {}
    BY <2>5, <2>6, <1>3, <1>4
  <2>8. QED BY <2>1, <2>2, <2>4, <2>5, <2>6, <2>7, <1>1
<1>8. QED BY <1>5, <1>6, <1>7

\* A list that is less an area of one of its blocks.
LEMMA WithoutAreaFacts ==
    ASSUME NEW q, BlocksOk(q), NEW t \in 1 .. Len(q), NEW taken \in MapArea, Within(taken, q[t])
    PROVE  /\ BlocksOk(WithoutArea(q, t, taken))
           /\ PagesOf(WithoutArea(q, t, taken), Len(WithoutArea(q, t, taken)))
                  = PagesOf(q, Len(q)) \ Pages(taken)
<1>1. PICK n \in Nat : n = Len(q)
  BY DEF BlocksOk
<1>2. q \in Seq(MapBlock) /\ Apart(q, n) /\ t \in 1 .. n /\ n + 1 \in Nat
      /\ \A i \in 1 .. n : Within(q[i], RankInfo[q[i].rank])
  BY <1>1 DEF BlocksOk, InRanks
<1>3. \A i \in 1 .. n : q[i] \in MapBlock
  BY <1>1, <1>2, ElementOfSeq
<1>4. /\ t - 1 \in 0 .. Len(q) /\ t + 1 \in (t - 1) + 1 .. Len(q) + 1
  BY <1>1, <1>2
<1>5. \A x \in MapBlock : x.rank = q[t].rank /\ Within(x, q[t]) => Within(x, RankInfo[x.rank])
  <2> SUFFICES ASSUME NEW x \in MapBlock, x.rank = q[t].rank, Within(x, q[t])
               PROVE  Within(x, RankInfo[x.rank])
    OBVIOUS
  <2>1. q[t] \in MapBlock /\ Within(q[t], RankInfo[q[t].rank]) /\ q[t].rank \in DOMAIN RankInfo
    BY <1>2, <1>3 DEF MapBlock
  <2>2. PICK k \in DOMAIN RankInfo : k = q[t].rank /\ RankInfo[k] \in MapArea
    BY <2>1, DramFacts
  <2>3. x.start \in Nat /\ x.size \in Nat /\ q[t].start \in Nat /\ q[t].size \in Nat
        /\ RankInfo[k].start \in Nat /\ RankInfo[k].size \in Nat
    BY <2>1, <2>2 DEF MapBlock, MapArea
  <2>4. /\ RankInfo[k].start <= q[t].start /\ q[t].start <= x.start
        /\ x.start + x.size <= q[t].start + q[t].size
        /\ q[t].start + q[t].size <= RankInfo[k].start + RankInfo[k].size
    BY <2>1, <2>2 DEF Within, End
  <2>5. RankInfo[k].start <= x.start
    BY <2>3, <2>4
  <2>6. x.start + x.size <= RankInfo[k].start + RankInfo[k].size
    BY <2>3, <2>4
  <2>7. QED BY <2>2, <2>5, <2>6 DEF Within, End
<1>6. PICK c : c = WithoutArea(q, t, taken)
  OBVIOUS
<1>7. \A j \in 1 .. n : PagesAt(q, j) \subseteq PagesOf(q, n)
  BY DEF PagesOf
<1>8. ASSUME NEW x \in MapBlock, Remains(q[t], taken) = <<x>>, x.rank = q[t].rank, Within(x, q[t]),
             Pages(x) = PagesAt(q, t) \ Pages(taken), Pages(taken) \subseteq PagesAt(q, t)
      PROVE  BlocksOk(c) /\ PagesOf(c, Len(c)) = PagesOf(q, n) \ Pages(taken)
  <2>1. PICK a \in 0 .. Len(q), b \in Nat : a = t - 1 /\ b = t + 1 /\ b \in a + 1 .. Len(q) + 1
    BY <1>1, <1>2
  <2>2. /\ c \in Seq(MapBlock) /\ Len(c) = a + 1 + (Len(q) - b + 1)
        /\ \A i \in 1 .. a : c[i] = q[i]
        /\ c[a + 1] = x
        /\ \A i \in a + 2 .. a + 1 + (Len(q) - b + 1) : c[i] = q[i - a + b - 2]
    <3>1. q \in Seq(MapBlock)
      BY <1>2
    <3>2. b \in a + 1 .. Len(q) + 1
      BY <2>1
    <3>3. c = SubSeq(q, 1, t - 1) \o <<x>> \o SubSeq(q, t + 1, Len(q))
      BY <1>6, <1>8 DEF WithoutArea
    <3> DEFINE d == Splice(q, a, x, b)
    <3>4. c = d
      BY <2>1, <3>3 DEF Splice
    <3>5. /\ d \in Seq(MapBlock) /\ Len(d) = a + 1 + (Len(q) - b + 1)
          /\ \A i \in 1 .. a : d[i] = q[i]
          /\ d[a + 1] = x
          /\ \A i \in a + 2 .. a + 1 + (Len(q) - b + 1) : d[i] = q[i - a + b - 2]
      BY <3>1, <3>2, SpliceFacts
    <3> HIDE DEF d
    <3>6. QED BY <3>4, <3>5
  <2>3. Len(c) = n /\ c[t] = x
    <3>1. a + 1 + (Len(q) - b + 1) = n /\ a + 1 = t
      BY <1>1, <1>2, <2>1
    <3>2. QED BY <2>2, <3>1
  <2>4. ASSUME NEW i \in 1 .. n, i # t PROVE c[i] = q[i]
    <3>1. CASE i < t
      <4>1. i \in 1 .. a
        BY <3>1, <2>1, <1>2
      <4>2. QED BY <4>1, <2>2
    <3>2. CASE i > t
      <4>1. i \in a + 2 .. a + 1 + (Len(q) - b + 1) /\ i - a + b - 2 = i
        BY <3>2, <1>1, <1>2, <2>1
      <4>2. QED BY <4>1, <2>2
    <3>3. QED BY <2>4, <3>1, <3>2
  <2>5. Apart(c, n) /\ PagesOf(c, n) = (PagesOf(q, n) \ PagesAt(q, t)) \cup PagesAt(c, t)
    <3>1. PagesAt(c, t) \cap (PagesOf(q, n) \ PagesAt(q, t)) = {}
      BY <1>8, <2>3 DEF PagesAt
    <3>2. SameBut(q, c, t, n)
      BY <2>4 DEF PagesAt, SameBut
    <3>3. n \in Nat /\ t \in 1 .. n /\ Apart(q, n)
      BY <1>2
    <3>4. QED BY <3>1, <3>2, <3>3, ReplaceFacts, ZenonT(30)
  <2>6. PagesOf(c, n) = PagesOf(q, n) \ Pages(taken)
    BY <2>3, <2>5, <1>2, <1>7, <1>8 DEF PagesAt
  <2>7. InRanks(c)
    <3>1. \A i \in 1 .. n : Within(c[i], RankInfo[c[i].rank])
      BY <2>3, <2>4, <1>2, <1>5, <1>8
    <3>2. QED BY <3>1, <2>3 DEF InRanks
  <2>8. QED BY <2>2, <2>3, <2>5, <2>6, <2>7 DEF BlocksOk
<1>9. ASSUME NEW x \in MapBlock, NEW y \in MapBlock, Remains(q[t], taken) = <<x, y>>,
             x.rank = q[t].rank, Within(x, q[t]), y.rank = q[t].rank, Within(y, q[t]),
             Pages(x) \cap Pages(y) = {}, Pages(x) \cup Pages(y) = PagesAt(q, t) \ Pages(taken),
             Pages(taken) \subseteq PagesAt(q, t)
      PROVE  BlocksOk(c) /\ PagesOf(c, Len(c)) = PagesOf(q, n) \ Pages(taken)
  <2>1. c = Doubled(q, t, x, y)
    BY <1>6, <1>9 DEF WithoutArea, Doubled
  <2>2. /\ c \in Seq(MapBlock) /\ Len(c) = Len(q) + 1
        /\ \A k \in 1 .. t - 1 : c[k] = q[k]
        /\ c[t] = x /\ c[t + 1] = y
        /\ \A k \in t + 2 .. Len(q) + 1 : c[k] = q[k - 1]
    <3>1. q \in Seq(MapBlock)
      BY <1>2
    <3>2. IsDoubled(c, MapBlock, q, t, x, y)
      BY <2>1, <3>1, TwoForOne
    <3>3. QED BY <3>2 DEF IsDoubled
  <2>3. PICK m : m = [q EXCEPT ![t] = x]
    OBVIOUS
  <2>4. m[t] = x /\ \A k \in 1 .. n : k # t => m[k] = q[k]
    BY <2>3, <1>1, <1>2
  <2>5. Apart(m, n) /\ PagesOf(m, n) = (PagesOf(q, n) \ PagesAt(q, t)) \cup Pages(x)
    <3>1. PagesAt(m, t) \cap (PagesOf(q, n) \ PagesAt(q, t)) = {}
      BY <1>9, <2>4 DEF PagesAt
    <3>2. n \in Nat /\ t \in 1 .. n /\ Apart(q, n) /\ SameBut(q, m, t, n)
      BY <2>4, <1>2 DEF PagesAt, SameBut
    <3>3. Apart(m, n) /\ PagesOf(m, n) = (PagesOf(q, n) \ PagesAt(q, t)) \cup PagesAt(m, t)
      BY <3>1, <3>2, ReplaceFacts
    <3>4. QED BY <3>3, <2>4 DEF PagesAt
  <2>6. Apart(c, n + 1) /\ PagesOf(c, n + 1) = PagesOf(m, n) \cup Pages(y)
    <3>1. PICK l \in Nat : l = n + 1
      OBVIOUS
    <3>2. PICK p \in 1 .. l : p = t + 1
      BY <3>1, <1>2
    <3>3. \A k \in 1 .. p - 1 : PagesAt(c, k) = PagesAt(m, k)
      <4> SUFFICES ASSUME NEW k \in 1 .. p - 1 PROVE c[k] = m[k]
        BY DEF PagesAt
      <4>1. CASE k = t
        BY <4>1, <2>2, <2>4
      <4>2. CASE k # t
        <5>1. k \in 1 .. t - 1 /\ k \in 1 .. n
          BY <4>2, <3>2, <1>2
        <5>2. QED BY <5>1, <4>2, <2>2, <2>4
      <4>3. QED BY <4>1, <4>2
    <3>4. \A k \in p + 1 .. l : PagesAt(c, k) = PagesAt(m, k - 1)
      <4> SUFFICES ASSUME NEW k \in p + 1 .. l PROVE c[k] = m[k - 1]
        BY DEF PagesAt
      <4>1. k \in t + 2 .. Len(q) + 1 /\ k - 1 \in 1 .. n /\ k - 1 # t
        BY <3>1, <3>2, <1>1, <1>2
      <4>2. QED BY <4>1, <2>2, <2>4
    <3>5. PagesAt(c, p) \cap PagesOf(m, n) = {}
      BY <3>2, <2>2, <2>5, <1>9 DEF PagesAt
    <3>6. Apart(c, l) /\ PagesOf(c, l) = PagesOf(m, n) \cup PagesAt(c, p)
      <4>1. Apart(m, n)
        BY <2>5
      <4>2. OneMore(m, c, p, l)
        BY <3>3, <3>4 DEF OneMore
      <4>3. QED BY <3>1, <3>5, <4>1, <4>2, MapInsertFacts
    <3>7. QED BY <3>1, <3>2, <3>6, <2>2 DEF PagesAt
  <2>7. PagesOf(c, n + 1) = PagesOf(q, n) \ Pages(taken)
    BY <2>5, <2>6, <1>2, <1>7, <1>9
  <2>8. InRanks(c)
    <3>1. ASSUME NEW i \in 1 .. n + 1 PROVE Within(c[i], RankInfo[c[i].rank])
      <4>1. CASE i \in 1 .. t - 1
        BY <4>1, <2>2, <1>2
      <4>2. CASE i = t
        BY <4>2, <2>2, <1>5, <1>9
      <4>3. CASE i = t + 1
        BY <4>3, <2>2, <1>5, <1>9
      <4>4. CASE i > t + 1
        <5>1. i \in t + 2 .. Len(q) + 1 /\ i - 1 \in 1 .. n
          BY <4>4, <1>1, <1>2
        <5>2. c[i] = q[i - 1]
          BY <5>1, <2>2
        <5>3. QED BY <5>1, <5>2, <1>2
      <4>5. QED BY <4>1, <4>2, <4>3, <4>4
    <3>2. QED BY <3>1, <2>2, <1>1 DEF InRanks
  <2>9. QED BY <2>2, <2>6, <2>7, <2>8, <1>1 DEF BlocksOk
<1>10. Pages(taken) \subseteq PagesAt(q, t)
  <2>1. q[t] \in MapBlock
    BY <1>2, <1>3
  <2>2. q[t].start \in Nat /\ q[t].size \in Nat /\ taken.start \in Nat /\ taken.size \in Nat
    BY <2>1 DEF MapBlock, MapArea
  <2>3. QED BY <2>2 DEF PagesAt, Pages, Within, End
<1>11. QED
  <2>1. q[t] \in MapBlock
    BY <1>2, <1>3
  <2>2. BlocksOk(c) /\ PagesOf(c, Len(c)) = PagesOf(q, n) \ Pages(taken)
    BY <2>1, <1>8, <1>9, <1>10, RemainsFacts DEF PagesAt
  <2>3. QED BY <2>2, <1>1, <1>6

---------------------------------------------------------------------------
(* Pages that become free *)

\* Another list of blocks has the pages of r as well.
Gains(list, r) ==
    BlocksOk(list) /\ PagesOf(list, Len(list)) = PagesOf(mblock, Len(mblock)) \cup Pages(r)

\* Numbers that are bounded have a greatest.
LEMMA GreatestOf ==
    ASSUME NEW n \in Nat, NEW S, S \subseteq 1 .. n, S # {}
    PROVE  \E i \in S : \A j \in S : j <= i
<1> DEFINE T == {n - i : i \in S}
<1>1. T \subseteq Nat /\ T # {}
  <2>1. \A i \in S : n - i \in Nat
    OBVIOUS
  <2>2. QED BY <2>1
<1>2. PICK m \in T : \A k \in T : m <= k
  <2> HIDE DEF T
  <2>1. QED BY <1>1, LeastOf
<1>3. PICK i \in S : m = n - i
  OBVIOUS
<1>4. \A j \in S : n - j \in T /\ j \in 1 .. n
  OBVIOUS
<1>5. \A j \in S : n - i <= n - j
  BY <1>2, <1>3, <1>4
<1>6. QED
  BY <1>4, <1>5

\* c is the list q with x put in at place p.
IsInserted(c, S, q, p, x) ==
    /\ c \in Seq(S) /\ Len(c) = Len(q) + 1
    /\ \A k \in 1 .. p - 1 : c[k] = q[k]
    /\ c[p] = x
    /\ \A k \in p + 1 .. Len(q) + 1 : c[k] = q[k - 1]

\* What is on a list into which an element was put.
LEMMA InsertAtFacts ==
    ASSUME NEW S, NEW q \in Seq(S), NEW p \in 1 .. Len(q) + 1, NEW x \in S
    PROVE  IsInserted(InsertAt(q, p, x), S, q, p, x)
<1>1. PICK n \in Nat : n = Len(q)
  OBVIOUS
<1>2. PICK a \in 0 .. Len(q) : a = p - 1
  BY <1>1
<1>3. p \in a + 1 .. Len(q) + 1 /\ p \in Nat /\ a \in Nat
  BY <1>1, <1>2
<1>4. InsertAt(q, p, x) = Splice(q, a, x, p)
  BY <1>2 DEF InsertAt, Splice
<1> DEFINE d == Splice(q, a, x, p)
<1>5. /\ d \in Seq(S) /\ Len(d) = a + 1 + (Len(q) - p + 1)
      /\ \A i \in 1 .. a : d[i] = q[i]
      /\ d[a + 1] = x
      /\ \A i \in a + 2 .. a + 1 + (Len(q) - p + 1) : d[i] = q[i - a + p - 2]
  BY <1>3, SpliceFacts
<1> HIDE DEF d
<1>6. Len(d) = Len(q) + 1 /\ d[p] = x
  <2>1. a + 1 + (Len(q) - p + 1) = Len(q) + 1 /\ a + 1 = p
    BY <1>1, <1>2, <1>3
  <2>2. QED BY <2>1, <1>5
<1>7. ASSUME NEW k \in p + 1 .. Len(q) + 1 PROVE d[k] = q[k - 1]
  <2>1. k \in a + 2 .. a + 1 + (Len(q) - p + 1) /\ k - a + p - 2 = k - 1
    BY <1>1, <1>2, <1>3
  <2>2. QED BY <2>1, <1>5
<1>8. ASSUME NEW k \in 1 .. p - 1 PROVE d[k] = q[k]
  BY <1>2, <1>5
<1>9. IsInserted(d, S, q, p, x)
  BY <1>5, <1>6, <1>7, <1>8 DEF IsInserted
<1>10. QED
  BY <1>4, <1>9 DEF d

\* A block of its own.
LEMMA InsertGains ==
    ASSUME BlocksOk(mblock), NEW b \in MapBlock, Within(b, RankInfo[b.rank]),
           Pages(b) \cap PagesOf(mblock, Len(mblock)) = {}
    PROVE  Gains(InsertBlock(b), b)
<1>1. mblock \in Seq(MapBlock)
  BY DEF BlocksOk
<1>2. PICK n \in Nat : n = Len(mblock) /\ DOMAIN mblock = 1 .. n
  BY <1>1
<1> DEFINE low == {i \in DOMAIN mblock : \A j \in 1 .. i : mblock[j].start <= b.start}
<1>3. Cardinality(low) \in 0 .. n
  <2>1. low \subseteq 1 .. n
    BY <1>2
  <2>2. IsFiniteSet(1 .. n) /\ Cardinality(1 .. n) = n
    BY FS_Interval
  <2> HIDE DEF low
  <2>3. Cardinality(low) \in Nat /\ Cardinality(low) <= Cardinality(1 .. n)
    BY <2>1, <2>2, FS_Subset, FS_CardinalityType
  <2>4. QED BY <2>2, <2>3
<1>4. PICK p \in 1 .. Len(mblock) + 1 : p = 1 + Cardinality(low)
  <2> HIDE DEF low
  <2>1. QED BY <1>2, <1>3
<1>5. PICK c : c = InsertBlock(b)
  OBVIOUS
<1>6. c = InsertAt(mblock, p, b)
  BY <1>4, <1>5 DEF InsertBlock
<1> HIDE DEF low
<1>7. IsInserted(c, MapBlock, mblock, p, b)
  BY <1>1, <1>6, InsertAtFacts
<1>8. /\ c \in Seq(MapBlock) /\ Len(c) = n + 1 /\ c[p] = b
      /\ \A k \in 1 .. p - 1 : c[k] = mblock[k]
      /\ \A k \in p + 1 .. n + 1 : c[k] = mblock[k - 1]
  BY <1>2, <1>7 DEF IsInserted
<1>9. PICK l \in Nat : l = n + 1 /\ p \in 1 .. l
  BY <1>2
<1>10. OneMore(mblock, c, p, l)
  <2>1. \A k \in 1 .. p - 1 : PagesAt(c, k) = PagesAt(mblock, k)
    BY <1>8 DEF PagesAt
  <2>2. \A k \in p + 1 .. l : PagesAt(c, k) = PagesAt(mblock, k - 1)
    BY <1>8, <1>9 DEF PagesAt
  <2>3. QED BY <2>1, <2>2 DEF OneMore
<1>11. PagesAt(c, p) = Pages(b)
  BY <1>8 DEF PagesAt
<1>12. Apart(mblock, n)
  BY <1>2 DEF BlocksOk
<1>13. Apart(c, l) /\ PagesOf(c, l) = PagesOf(mblock, n) \cup PagesAt(c, p)
  <2>1. PagesAt(c, p) \cap PagesOf(mblock, n) = {}
    BY <1>2, <1>11
  <2>2. QED BY <2>1, <1>9, <1>10, <1>12, MapInsertFacts
<1>14. InRanks(c)
  <2>1. \A i \in 1 .. n : Within(mblock[i], RankInfo[mblock[i].rank])
    BY <1>2 DEF BlocksOk, InRanks
  <2>2. ASSUME NEW i \in 1 .. l PROVE Within(c[i], RankInfo[c[i].rank])
    <3>1. CASE i = p
      BY <3>1, <1>8
    <3>2. CASE i < p
      <4>1. i \in 1 .. p - 1 /\ i \in 1 .. n
        BY <3>2, <1>9
      <4>2. QED BY <4>1, <1>8, <2>1
    <3>3. CASE i > p
      <4>1. i \in p + 1 .. n + 1 /\ i - 1 \in 1 .. n
        BY <3>3, <1>9
      <4>2. QED BY <4>1, <1>8, <2>1
    <3>4. QED BY <1>9, <3>1, <3>2, <3>3
  <2>3. QED BY <2>2, <1>8, <1>9 DEF InRanks
<1>15. QED
  BY <1>2, <1>5, <1>8, <1>9, <1>11, <1>13, <1>14 DEF Gains, BlocksOk

\* A block that grows.
LEMMA GrowGains ==
    ASSUME BlocksOk(mblock), NEW i \in 1 .. Len(mblock), NEW x \in MapBlock, NEW r, NEW list,
           list = [mblock EXCEPT ![i] = x], Within(x, RankInfo[x.rank]),
           Pages(x) = Pages(mblock[i]) \cup Pages(r), Pages(r) \cap PagesOf(mblock, Len(mblock)) = {}
    PROVE  Gains(list, r)
<1>1. mblock \in Seq(MapBlock)
  BY DEF BlocksOk
<1>2. PICK n \in Nat : n = Len(mblock) /\ DOMAIN mblock = 1 .. n
  BY <1>1
<1>3. PICK g \in Seq(MapBlock) : g = list /\ Len(g) = n /\ g[i] = x /\ \A k \in 1 .. n : k # i => g[k] = mblock[k]
  <2>1. list \in Seq(MapBlock) /\ Len(list) = n /\ list[i] = x /\ \A k \in 1 .. n : k # i => list[k] = mblock[k]
    BY <1>1, <1>2
  <2>2. QED BY <2>1
<1>4. PagesAt(g, i) = Pages(x) /\ PagesAt(mblock, i) = Pages(mblock[i]) /\ i \in 1 .. n
  BY <1>2, <1>3 DEF PagesAt
<1>5. Apart(mblock, n) /\ SameBut(mblock, g, i, n)
  BY <1>2, <1>3 DEF BlocksOk, PagesAt, SameBut
<1>6. PagesAt(mblock, i) \subseteq PagesOf(mblock, n)
  BY <1>4 DEF PagesOf
<1>7. PagesAt(g, i) \cap (PagesOf(mblock, n) \ PagesAt(mblock, i)) = {}
  BY <1>2, <1>4
<1>8. Apart(g, n) /\ PagesOf(g, n) = (PagesOf(mblock, n) \ PagesAt(mblock, i)) \cup PagesAt(g, i)
  <2>1. i \in 1 .. n
    BY <1>4
  <2>2. Apart(mblock, n)
    BY <1>5
  <2>3. SameBut(mblock, g, i, n)
    BY <1>5
  <2>4. QED BY <2>1, <2>2, <2>3, <1>7, ReplaceFacts
<1>9. PagesOf(g, n) = PagesOf(mblock, n) \cup Pages(r)
  BY <1>4, <1>6, <1>8
<1>10. InRanks(g)
  <2>1. \A k \in 1 .. n : Within(mblock[k], RankInfo[mblock[k].rank])
    BY <1>2 DEF BlocksOk, InRanks
  <2>2. \A k \in 1 .. n : Within(g[k], RankInfo[g[k].rank])
    BY <2>1, <1>3
  <2>3. QED BY <2>2, <1>3 DEF InRanks
<1>11. QED
  BY <1>2, <1>3, <1>8, <1>9, <1>10 DEF Gains, BlocksOk

\* The neighbour on the left takes the pages.
LEMMA GrowLeftGains ==
    ASSUME BlocksOk(mblock), NEW i \in 1 .. Len(mblock), NEW r \in MapArea, End(mblock[i]) = r.start,
           Within(r, RankInfo[mblock[i].rank]), Pages(r) \cap PagesOf(mblock, Len(mblock)) = {}
    PROVE  Gains(GrowLeft(i, r), r)
<1>1. mblock \in Seq(MapBlock) /\ Len(mblock) \in Nat
  BY DEF BlocksOk
<1>2. mblock[i] \in MapBlock
  BY <1>1, ElementOfSeq
<1>3. PICK s \in Nat, n \in Nat, k \in DOMAIN RankInfo : mblock[i] = [start |-> s, size |-> n, rank |-> k]
  BY <1>2 DEF MapBlock
<1>4. PICK rn \in Nat : rn = r.size /\ r.start = s + n /\ End(mblock[i]) = s + n
  BY <1>3 DEF MapArea, End
<1>5. PICK x \in MapBlock : x = [start |-> s, size |-> n + rn, rank |-> k]
  <2>1. n + rn \in Nat
    OBVIOUS
  <2>2. [start |-> s, size |-> n + rn, rank |-> k] \in MapBlock
    BY <2>1 DEF MapBlock
  <2>3. QED BY <2>2
<1>6. GrowLeft(i, r) = [mblock EXCEPT ![i] = x]
  <2>1. GrowLeft(i, r) = [mblock EXCEPT ![i] = [mblock[i] EXCEPT !.size = n + rn]]
    BY <1>1, <1>3, <1>4 DEF GrowLeft
  <2>2. [mblock[i] EXCEPT !.size = n + rn] = x
    BY <1>3, <1>5
  <2>3. QED BY <2>1, <2>2
<1>7. End(r) = (s + n) + rn /\ End(x) = s + (n + rn) /\ (s + n) + rn = s + (n + rn)
  BY <1>3, <1>4, <1>5 DEF End
<1>8. Pages(x) = Pages(mblock[i]) \cup Pages(r)
  <2>1. Pages(x) = s .. s + (n + rn) - 1
    BY <1>5, <1>7 DEF Pages
  <2>2. Pages(mblock[i]) = s .. (s + n) - 1
    BY <1>3, <1>4 DEF Pages
  <2>3. Pages(r) = s + n .. s + (n + rn) - 1
    BY <1>4, <1>7 DEF Pages
  <2>4. QED BY <2>1, <2>2, <2>3
<1>9. Within(x, RankInfo[x.rank])
  <2>1. Within(mblock[i], RankInfo[k])
    BY <1>3 DEF BlocksOk, InRanks
  <2>2. RankInfo[k].start <= s
    BY <2>1, <1>3 DEF Within
  <2>3. End(x) <= End(RankInfo[k])
    BY <1>3, <1>7 DEF Within
  <2>4. QED BY <2>2, <2>3, <1>5 DEF Within
<1>10. QED
  BY <1>6, <1>8, <1>9, GrowGains

\* The neighbour on the right takes the pages.
LEMMA GrowRightGains ==
    ASSUME BlocksOk(mblock), NEW i \in 1 .. Len(mblock), NEW r \in MapArea, mblock[i].start = End(r),
           Within(r, RankInfo[mblock[i].rank]), Pages(r) \cap PagesOf(mblock, Len(mblock)) = {}
    PROVE  Gains(GrowRight(i, r), r)
<1>1. mblock \in Seq(MapBlock) /\ Len(mblock) \in Nat
  BY DEF BlocksOk
<1>2. mblock[i] \in MapBlock
  BY <1>1, ElementOfSeq
<1>3. PICK s \in Nat, n \in Nat, k \in DOMAIN RankInfo : mblock[i] = [start |-> s, size |-> n, rank |-> k]
  BY <1>2 DEF MapBlock
<1>4. PICK rs \in Nat, rn \in Nat : rs = r.start /\ rn = r.size /\ s = rs + rn /\ End(r) = rs + rn
  BY <1>3 DEF MapArea, End
<1>5. PICK x \in MapBlock : x = [start |-> rs, size |-> n + rn, rank |-> k]
  <2>1. n + rn \in Nat
    OBVIOUS
  <2>2. [start |-> rs, size |-> n + rn, rank |-> k] \in MapBlock
    BY <2>1 DEF MapBlock
  <2>3. QED BY <2>2
<1>6. GrowRight(i, r) = [mblock EXCEPT ![i] = x]
  BY <1>1, <1>3, <1>4, <1>5 DEF GrowRight, Block
<1>7. End(mblock[i]) = (rs + rn) + n /\ End(x) = rs + (n + rn) /\ (rs + rn) + n = rs + (n + rn)
  BY <1>3, <1>4, <1>5 DEF End
<1>8. Pages(x) = Pages(mblock[i]) \cup Pages(r)
  <2>1. Pages(x) = rs .. rs + (n + rn) - 1
    BY <1>5, <1>7 DEF Pages
  <2>2. Pages(mblock[i]) = rs + rn .. rs + (n + rn) - 1
    <3>1. mblock[i].start = rs + rn
      BY <1>3, <1>4
    <3>2. End(mblock[i]) = rs + (n + rn)
      BY <1>7
    <3>3. QED BY <3>1, <3>2 DEF Pages
  <2>3. Pages(r) = rs .. (rs + rn) - 1
    BY <1>4 DEF Pages
  <2>4. QED BY <2>1, <2>2, <2>3
<1>9. Within(x, RankInfo[x.rank])
  <2>1. Within(mblock[i], RankInfo[k])
    BY <1>3 DEF BlocksOk, InRanks
  <2>2. End(x) <= End(RankInfo[k])
    BY <2>1, <1>7 DEF Within
  <2>3. RankInfo[k].start <= rs
    BY <1>3, <1>4 DEF Within
  <2>4. QED BY <2>2, <2>3, <1>5 DEF Within
<1>10. QED
  BY <1>6, <1>8, <1>9, GrowGains

\* A block of its own for the range.
LEMMA NewBlockGains ==
    ASSUME BlocksOk(mblock), NEW r \in MapArea, InRank(r), Pages(r) \cap PagesOf(mblock, Len(mblock)) = {}
    PROVE  Gains(InsertBlock(Block(r.start, r.size, RankOf(r))), r)
<1>1. PICK k \in DOMAIN RankInfo : k = RankOf(r) /\ Within(r, RankInfo[k])
  BY RankFacts
<1>2. PICK b \in MapBlock : b = Block(r.start, r.size, k)
  BY DEF MapArea, MapBlock, Block
<1>3. b.start = r.start /\ b.size = r.size /\ b.rank = k
  BY <1>2 DEF Block
<1>4. End(b) = End(r) /\ Pages(b) = Pages(r)
  BY <1>3 DEF End, Pages
<1>5. Within(b, RankInfo[b.rank])
  BY <1>1, <1>3, <1>4 DEF Within
<1>6. Gains(InsertBlock(b), b)
  BY <1>4, <1>5, InsertGains
<1>7. QED
  BY <1>1, <1>2, <1>4, <1>6 DEF Gains

\* mblock_create gives the pages to a neighbour, or to a block of their own.
LEMMA JoinGains ==
    ASSUME BlocksOk(mblock), NEW r \in MapArea, InRank(r), Pages(r) \cap PagesOf(mblock, Len(mblock)) = {}
    PROVE  Gains(Join(r), r)
<1>1. PICK n \in Nat : n = Len(mblock) /\ DOMAIN mblock = 1 .. n
  BY DEF BlocksOk
<1>2. ASSUME Left(r) # {} PROVE Gains(GrowLeft(LastOf(Left(r)), r), r)
  <2>1. Left(r) \subseteq 1 .. n
    BY <1>1 DEF Left
  <2>2. \E i \in Left(r) : \A j \in Left(r) : j <= i
    BY <2>1, <1>2, GreatestOf
  <2>3. PICK i \in Left(r) : i = LastOf(Left(r))
    BY <2>2 DEF LastOf
  <2>4. i \in 1 .. Len(mblock) /\ End(mblock[i]) = r.start /\ mblock[i].rank = RankOf(r)
    BY <1>1 DEF Left
  <2>5. Within(r, RankInfo[mblock[i].rank])
    BY <2>4, RankFacts
  <2>6. QED BY <2>3, <2>4, <2>5, GrowLeftGains
<1>3. ASSUME Right(r) # {} PROVE Gains(GrowRight(LastOf(Right(r)), r), r)
  <2>1. Right(r) \subseteq 1 .. n
    BY <1>1 DEF Right
  <2>2. \E i \in Right(r) : \A j \in Right(r) : j <= i
    BY <2>1, <1>3, GreatestOf
  <2>3. PICK i \in Right(r) : i = LastOf(Right(r))
    BY <2>2 DEF LastOf
  <2>4. i \in 1 .. Len(mblock) /\ mblock[i].start = End(r) /\ mblock[i].rank = RankOf(r)
    BY <1>1 DEF Right
  <2>5. Within(r, RankInfo[mblock[i].rank])
    BY <2>4, RankFacts
  <2>6. QED BY <2>3, <2>4, <2>5, GrowRightGains
<1>4. Gains(InsertBlock(Block(r.start, r.size, RankOf(r))), r)
  BY NewBlockGains
<1>5. QED
  BY <1>2, <1>3, <1>4 DEF Join

---------------------------------------------------------------------------
(* The records *)

\* Another array of records has the pages of r no longer, or as well.
Loses(array, num, r) ==
    RecordsOk(array, num) /\ PagesOf(array, num) = PagesOf(reserved, reservedNum) \ Pages(r)

\* Another array of records has the pages of r as well.
Adds(array, num, r) ==
    RecordsOk(array, num) /\ PagesOf(array, num) = PagesOf(reserved, reservedNum) \cup Pages(r)

\* A record more, behind the others.
LEMMA RecordAdds ==
    ASSUME RecordsOk(reserved, reservedNum), reservedNum < ReservedMax, NEW r \in MapArea,
           Pages(r) \cap PagesOf(reserved, reservedNum) = {}
    PROVE  Adds([reserved EXCEPT ![reservedNum + 1] = r], reservedNum + 1, r)
<1>1. PICK n \in Nat, l \in Nat : n = reservedNum /\ l = n + 1 /\ l \in 1 .. ReservedMax /\ n >= 1 /\ ReservedMax \in Nat
  BY DramFacts DEF RecordsOk
<1>2. PICK g : g = [reserved EXCEPT ![l] = r]
  OBVIOUS
<1>3. reserved \in [1 .. ReservedMax -> MapArea] /\ Apart(reserved, n)
  BY <1>1 DEF RecordsOk
<1>4. /\ g \in [1 .. ReservedMax -> MapArea] /\ g[l] = r
      /\ \A k \in 1 .. ReservedMax : k # l => g[k] = reserved[k]
  BY <1>1, <1>2, <1>3
<1>5. OneMore(reserved, g, l, l)
  <2>1. \A k \in 1 .. l - 1 : k \in 1 .. ReservedMax /\ k # l
    BY <1>1
  <2>2. \A k \in 1 .. l - 1 : PagesAt(g, k) = PagesAt(reserved, k)
    BY <1>4, <2>1 DEF PagesAt
  <2>3. \A k \in l + 1 .. l : FALSE
    OBVIOUS
  <2>4. QED BY <2>2, <2>3 DEF OneMore
<1>6. PagesAt(g, l) = Pages(r)
  BY <1>4 DEF PagesAt
<1>7. Apart(g, l) /\ PagesOf(g, l) = PagesOf(reserved, n) \cup PagesAt(g, l)
  <2>1. PagesAt(g, l) \cap PagesOf(reserved, n) = {}
    BY <1>1, <1>6
  <2>2. Apart(reserved, n) /\ l \in 1 .. l
    BY <1>1, <1>3
  <2>3. QED BY <2>1, <2>2, <1>1, <1>5, MapInsertFacts
<1>8. g[1] = Protected
  <2>1. 1 \in 1 .. ReservedMax /\ 1 # l
    BY <1>1, DramFacts
  <2>2. QED BY <2>1, <1>4 DEF RecordsOk
<1>9. \A k \in l + 1 .. ReservedMax : g[k] = Empty
  <2> SUFFICES ASSUME NEW k \in l + 1 .. ReservedMax PROVE g[k] = Empty
    OBVIOUS
  <2>1. k \in 1 .. ReservedMax /\ k # l /\ k \in reservedNum + 1 .. ReservedMax
    BY <1>1
  <2>2. QED BY <2>1, <1>4 DEF RecordsOk
<1>10. RecordsOk(g, l)
  BY <1>1, <1>4, <1>7, <1>8, <1>9 DEF RecordsOk
<1>11. QED
  BY <1>1, <1>2, <1>6, <1>7, <1>10 DEF Adds

\* A record is less than it was.
LEMMA RecordShrinks ==
    ASSUME RecordsOk(reserved, reservedNum), NEW t \in 2 .. reservedNum, NEW x \in MapArea, NEW r,
           Pages(r) \subseteq Pages(reserved[t]), Pages(x) = Pages(reserved[t]) \ Pages(r)
    PROVE  Loses([reserved EXCEPT ![t] = x], reservedNum, r)
<1>1. PICK n \in Nat : n = reservedNum /\ n \in 1 .. ReservedMax /\ t \in 1 .. n /\ t \in 1 .. ReservedMax /\ t # 1 /\ ReservedMax \in Nat
  BY DramFacts DEF RecordsOk
<1>2. PICK g : g = [reserved EXCEPT ![t] = x]
  OBVIOUS
<1>3. reserved \in [1 .. ReservedMax -> MapArea] /\ Apart(reserved, n)
  BY <1>1 DEF RecordsOk
<1>4. /\ g \in [1 .. ReservedMax -> MapArea] /\ g[t] = x
      /\ \A k \in 1 .. ReservedMax : k # t => g[k] = reserved[k]
  BY <1>1, <1>2, <1>3
<1>5. SameBut(reserved, g, t, n)
  <2>1. \A k \in 1 .. n : k \in 1 .. ReservedMax
    BY <1>1
  <2>2. QED BY <2>1, <1>4 DEF SameBut, PagesAt
<1>6. PagesAt(g, t) = Pages(x) /\ PagesAt(reserved, t) = Pages(reserved[t])
  BY <1>4 DEF PagesAt
<1>7. Apart(g, n) /\ PagesOf(g, n) = (PagesOf(reserved, n) \ PagesAt(reserved, t)) \cup PagesAt(g, t)
  <2>1. PagesAt(g, t) \cap (PagesOf(reserved, n) \ PagesAt(reserved, t)) = {}
    BY <1>6
  <2>2. Apart(reserved, n)
    BY <1>3
  <2>3. t \in 1 .. n
    BY <1>1
  <2>4. QED BY <2>1, <2>2, <2>3, <1>5, ReplaceFacts
<1>8. PagesOf(g, n) = PagesOf(reserved, n) \ Pages(r)
  <2>1. PagesAt(reserved, t) \subseteq PagesOf(reserved, n)
    BY <1>1 DEF PagesOf
  <2>2. QED BY <2>1, <1>6, <1>7
<1>9. g[1] = Protected
  <2>1. 1 \in 1 .. ReservedMax
    BY DramFacts
  <2>2. QED BY <2>1, <1>1, <1>4 DEF RecordsOk
<1>10. \A k \in n + 1 .. ReservedMax : g[k] = Empty
  <2> SUFFICES ASSUME NEW k \in n + 1 .. ReservedMax PROVE g[k] = Empty
    OBVIOUS
  <2>1. k \in 1 .. ReservedMax /\ k # t /\ k \in reservedNum + 1 .. ReservedMax
    BY <1>1
  <2>2. QED BY <2>1, <1>4 DEF RecordsOk
<1>11. RecordsOk(g, n)
  BY <1>1, <1>4, <1>7, <1>9, <1>10 DEF RecordsOk
<1>12. QED
  BY <1>1, <1>2, <1>8, <1>11 DEF Loses

\* A record is no more.
LEMMA RecordDrops ==
    ASSUME RecordsOk(reserved, reservedNum), NEW t \in 2 .. reservedNum
    PROVE  Loses(DropRecord(t), reservedNum - 1, reserved[t])
<1>1. PICK n \in Nat, l \in Nat : /\ l = reservedNum /\ l = n + 1 /\ l \in 1 .. ReservedMax /\ n \in 1 .. ReservedMax
                                  /\ n = reservedNum - 1 /\ t \in 1 .. l /\ t \in 2 .. l /\ ReservedMax \in Nat
  <2>1. reservedNum \in 1 .. ReservedMax /\ reservedNum - 1 \in Nat /\ ReservedMax \in Nat
    BY DramFacts DEF RecordsOk
  <2>2. QED BY <2>1
<1>2. PICK g : g = DropRecord(t)
  OBVIOUS
<1>3. reserved \in [1 .. ReservedMax -> MapArea] /\ Apart(reserved, l)
  BY <1>1 DEF RecordsOk
<1>4. Empty \in MapArea
  BY DEF Empty, Area, MapArea
<1>5. g = [i \in 1 .. ReservedMax |-> IF i \in t .. l - 1 THEN reserved[i + 1]
                                     ELSE IF i = l THEN Empty ELSE reserved[i]]
  BY <1>1, <1>2 DEF DropRecord
<1>6. /\ \A k \in 1 .. t - 1 : g[k] = reserved[k]
      /\ \A k \in t .. l - 1 : g[k] = reserved[k + 1]
      /\ \A k \in l .. ReservedMax : g[k] = Empty
  <2>1. ASSUME NEW k \in 1 .. t - 1 PROVE g[k] = reserved[k]
    <3>1. k \in 1 .. ReservedMax /\ ~(k \in t .. l - 1) /\ k # l
      BY <1>1
    <3>2. QED BY <3>1, <1>5
  <2>2. ASSUME NEW k \in t .. l - 1 PROVE g[k] = reserved[k + 1]
    <3>1. k \in 1 .. ReservedMax
      BY <1>1
    <3>2. QED BY <3>1, <1>5
  <2>3. ASSUME NEW k \in l .. ReservedMax PROVE g[k] = Empty
    <3>1. k \in 1 .. ReservedMax /\ ~(k \in t .. l - 1)
      BY <1>1
    <3>2. CASE k = l
      BY <3>1, <3>2, <1>5
    <3>3. CASE k # l
      <4>1. g[k] = reserved[k]
        BY <3>1, <3>3, <1>5
      <4>2. k \in reservedNum + 1 .. ReservedMax
        BY <3>3, <1>1
      <4>3. QED BY <4>1, <4>2 DEF RecordsOk
    <3>4. QED BY <3>2, <3>3
  <2>4. QED BY <2>1, <2>2, <2>3
<1>7. g \in [1 .. ReservedMax -> MapArea]
  <2>1. ASSUME NEW k \in 1 .. ReservedMax
        PROVE  (IF k \in t .. l - 1 THEN reserved[k + 1] ELSE IF k = l THEN Empty ELSE reserved[k]) \in MapArea
    <3>1. k \in t .. l - 1 => k + 1 \in 1 .. ReservedMax
      BY <1>1
    <3>2. QED BY <3>1, <1>3, <1>4
  <2>2. QED BY <2>1, <1>5
<1>8. OneMore(g, reserved, t, l)
  <2>1. \A k \in 1 .. t - 1 : PagesAt(reserved, k) = PagesAt(g, k)
    BY <1>6 DEF PagesAt
  <2>2. ASSUME NEW k \in t + 1 .. l PROVE PagesAt(reserved, k) = PagesAt(g, k - 1)
    <3>1. k - 1 \in t .. l - 1 /\ (k - 1) + 1 = k
      BY <1>1
    <3>2. g[k - 1] = reserved[k]
      BY <3>1, <1>6
    <3>3. QED BY <3>2 DEF PagesAt
  <2>3. QED BY <2>1, <2>2 DEF OneMore
<1>9. Apart(g, n) /\ PagesOf(g, n) = PagesOf(reserved, l) \ PagesAt(reserved, t)
  <2>1. l = n + 1
    BY <1>1
  <2>2. t \in 1 .. l
    BY <1>1
  <2>3. Apart(reserved, l)
    BY <1>3
  <2>4. QED BY <2>1, <2>2, <2>3, <1>8, DropFacts
<1>10. g[1] = Protected
  <2>1. 1 \in 1 .. t - 1
    BY <1>1
  <2>2. QED BY <2>1, <1>6 DEF RecordsOk
<1>11. \A k \in n + 1 .. ReservedMax : g[k] = Empty
  BY <1>1, <1>6
<1>12. RecordsOk(g, n)
  BY <1>1, <1>7, <1>9, <1>10, <1>11 DEF RecordsOk
<1>13. QED
  BY <1>1, <1>2, <1>9, <1>12 DEF Loses, PagesAt

\* A record is cut in two.
LEMMA RecordSplits ==
    ASSUME RecordsOk(reserved, reservedNum), NEW t \in 2 .. reservedNum, reservedNum < ReservedMax, NEW r \in MapArea,
           Within(r, reserved[t])
    PROVE  Loses(SplitRecord(t, r), reservedNum + 1, r)
<1>1. PICK n \in Nat, l \in Nat : /\ n = reservedNum /\ l = n + 1 /\ l \in 1 .. ReservedMax
                                  /\ t \in 2 .. n /\ t \in 1 .. ReservedMax /\ ReservedMax \in Nat
  <2>1. reservedNum \in 1 .. ReservedMax /\ reservedNum + 1 \in Nat /\ ReservedMax \in Nat
    BY DramFacts DEF RecordsOk
  <2>2. QED BY <2>1
<1>2. reserved \in [1 .. ReservedMax -> MapArea] /\ Apart(reserved, n) /\ reserved[t] \in MapArea
  BY <1>1 DEF RecordsOk
<1>3. PICK s \in Nat, z \in Nat, rs \in Nat, rz \in Nat :
          /\ s = reserved[t].start /\ z = reserved[t].size /\ rs = r.start /\ rz = r.size
  BY <1>2 DEF MapArea
<1>4. End(reserved[t]) = s + z /\ End(r) = rs + rz /\ s <= rs /\ rs + rz <= s + z
  BY <1>3 DEF End, Within
<1>5. rs - s \in Nat /\ (s + z) - (rs + rz) \in Nat /\ rs + rz \in Nat
  BY <1>4
<1>6. PICK x \in MapArea, y \in MapArea : /\ x = Area(reserved[t].start, r.start - reserved[t].start)
                                          /\ y = Area(End(r), End(reserved[t]) - End(r))
                                          /\ x.start = s /\ x.size = rs - s
                                          /\ y.start = rs + rz /\ y.size = (s + z) - (rs + rz)
  <2>1. Area(s, rs - s) \in MapArea /\ Area(rs + rz, (s + z) - (rs + rz)) \in MapArea
    BY <1>5 DEF Area, MapArea
  <2>2. QED BY <2>1, <1>3, <1>4 DEF Area
<1>7. /\ Pages(x) = s .. rs - 1
      /\ Pages(y) = rs + rz .. (s + z) - 1
      /\ Pages(r) = rs .. (rs + rz) - 1
      /\ Pages(reserved[t]) = s .. (s + z) - 1
  <2>1. End(x) = rs
    BY <1>4, <1>6 DEF End
  <2>2. End(y) = s + z
    BY <1>4, <1>6 DEF End
  <2>3. QED BY <2>1, <2>2, <1>3, <1>4, <1>6 DEF Pages
<1>8. /\ Pages(x) \cap Pages(y) = {}
      /\ Pages(x) \cup Pages(y) = Pages(reserved[t]) \ Pages(r)
      /\ Pages(r) \subseteq Pages(reserved[t])
  BY <1>4, <1>7
<1>9. PICK m : m = [reserved EXCEPT ![t] = x]
  OBVIOUS
<1>10. m[t] = x /\ \A k \in 1 .. ReservedMax : k # t => m[k] = reserved[k]
  BY <1>1, <1>2, <1>9
<1>11. PagesAt(m, t) = Pages(x) /\ PagesAt(reserved, t) = Pages(reserved[t])
  BY <1>10 DEF PagesAt
<1>12. SameBut(reserved, m, t, n)
  <2>1. \A k \in 1 .. n : k \in 1 .. ReservedMax
    BY <1>1
  <2>2. QED BY <2>1, <1>10 DEF SameBut, PagesAt
<1>13. Apart(m, n) /\ PagesOf(m, n) = (PagesOf(reserved, n) \ PagesAt(reserved, t)) \cup PagesAt(m, t)
  <2>1. PagesAt(m, t) \cap (PagesOf(reserved, n) \ PagesAt(reserved, t)) = {}
    BY <1>8, <1>11
  <2>2. Apart(reserved, n)
    BY <1>2
  <2>3. t \in 1 .. n
    BY <1>1
  <2>4. QED BY <2>1, <2>2, <2>3, <1>12, ReplaceFacts
<1>14. PICK g : g = SplitRecord(t, r)
  OBVIOUS
<1>15. g = [i \in 1 .. ReservedMax |-> CASE i = t -> x [] i = t + 1 -> y
                                        [] i \in t + 2 .. l -> reserved[i - 1] [] OTHER -> reserved[i]]
  BY <1>1, <1>6, <1>14 DEF SplitRecord
<1>16. ASSUME NEW k \in 1 .. ReservedMax
       PROVE  /\ k = t => g[k] = x
              /\ k = t + 1 => g[k] = y
              /\ k \in t + 2 .. l => g[k] = reserved[k - 1] /\ k - 1 \in 1 .. ReservedMax
              /\ ~(k \in t .. l) => g[k] = reserved[k]
  <2>1. CASE k = t
    BY <2>1, <1>1, <1>15
  <2>2. CASE k = t + 1
    BY <2>2, <1>1, <1>15
  <2>3. CASE k \in t + 2 .. l
    <3>1. k # t /\ k # t + 1 /\ k - 1 \in 1 .. ReservedMax
      BY <2>3, <1>1
    <3>2. g[k] = reserved[k - 1]
      BY <2>3, <3>1, <1>15
    <3>3. QED BY <2>3, <3>1, <3>2
  <2>4. CASE ~(k \in t .. l)
    <3>1. k # t /\ k # t + 1 /\ ~(k \in t + 2 .. l)
      BY <2>4, <1>1
    <3>2. g[k] = reserved[k]
      BY <3>1, <1>15
    <3>3. QED BY <2>4, <3>1, <3>2
  <2>5. k = t \/ k = t + 1 \/ k \in t + 2 .. l \/ ~(k \in t .. l)
    BY <1>1
  <2>6. QED BY <2>1, <2>2, <2>3, <2>4, <2>5
<1>17. g \in [1 .. ReservedMax -> MapArea]
  <2>1. DOMAIN g = 1 .. ReservedMax /\ g = [i \in 1 .. ReservedMax |-> g[i]]
    BY <1>15
  <2>2. \A k \in 1 .. ReservedMax : g[k] \in MapArea
    <3> SUFFICES ASSUME NEW k \in 1 .. ReservedMax PROVE g[k] \in MapArea
      OBVIOUS
    <3>1. k = t \/ k = t + 1 \/ k \in t + 2 .. l \/ ~(k \in t .. l)
      BY <1>1
    <3>2. QED BY <3>1, <1>2, <1>16
  <2>3. QED BY <2>1, <2>2
<1>18. PICK p \in 1 .. l : p = t + 1
  BY <1>1
<1>19. OneMore(m, g, p, l)
  <2>1. ASSUME NEW k \in 1 .. p - 1 PROVE g[k] = m[k]
    <3>1. k \in 1 .. ReservedMax
      BY <1>1, <1>18
    <3>2. CASE k = t
      BY <3>1, <3>2, <1>10, <1>16
    <3>3. CASE k # t
      <4>1. ~(k \in t .. l)
        BY <3>3, <1>1, <1>18
      <4>2. QED BY <3>1, <3>3, <4>1, <1>10, <1>16
    <3>4. QED BY <3>2, <3>3
  <2>2. ASSUME NEW k \in p + 1 .. l PROVE g[k] = m[k - 1]
    <3>1. k \in 1 .. ReservedMax /\ k \in t + 2 .. l /\ k - 1 # t /\ k - 1 \in 1 .. ReservedMax
      BY <1>1, <1>18
    <3>2. g[k] = reserved[k - 1]
      BY <3>1, <1>16
    <3>3. QED BY <3>1, <3>2, <1>10
  <2>3. QED BY <2>1, <2>2 DEF OneMore, PagesAt
<1>20. PagesAt(g, p) = Pages(y)
  <2>1. p \in 1 .. ReservedMax
    BY <1>1, <1>18
  <2>2. g[p] = y
    BY <2>1, <1>16, <1>18
  <2>3. QED BY <2>2 DEF PagesAt
<1>21. PagesAt(reserved, t) \subseteq PagesOf(reserved, n)
  BY <1>1 DEF PagesOf
<1>22. Apart(g, l) /\ PagesOf(g, l) = PagesOf(m, n) \cup PagesAt(g, p)
  <2>1. PagesAt(g, p) \cap PagesOf(m, n) = {}
    BY <1>8, <1>11, <1>13, <1>20
  <2>2. Apart(m, n)
    BY <1>13
  <2>3. l = n + 1
    BY <1>1
  <2>4. QED BY <2>1, <2>2, <2>3, <1>19, MapInsertFacts
<1>23. PagesOf(g, l) = PagesOf(reserved, n) \ Pages(r)
  BY <1>8, <1>11, <1>13, <1>20, <1>21, <1>22
<1>24. g[1] = Protected
  <2>1. 1 \in 1 .. ReservedMax /\ ~(1 \in t .. l)
    BY <1>1
  <2>2. QED BY <2>1, <1>16 DEF RecordsOk
<1>25. \A k \in l + 1 .. ReservedMax : g[k] = Empty
  <2> SUFFICES ASSUME NEW k \in l + 1 .. ReservedMax PROVE g[k] = Empty
    OBVIOUS
  <2>1. k \in 1 .. ReservedMax /\ ~(k \in t .. l) /\ k \in reservedNum + 1 .. ReservedMax
    BY <1>1
  <2>2. QED BY <2>1, <1>16 DEF RecordsOk
<1>26. RecordsOk(g, l)
  BY <1>1, <1>17, <1>22, <1>24, <1>25 DEF RecordsOk
<1>27. QED
  BY <1>1, <1>14, <1>23, <1>26 DEF Loses


\* mblock_create takes the pages out of the record that has them.
LEMMA TakeLoses ==
    ASSUME RecordsOk(reserved, reservedNum), NEW t \in 2 .. reservedNum, NEW r \in MapArea,
           Within(r, reserved[t]), TakeFromRecord(t, r)
    PROVE  Loses(reserved', reservedNum', r)
<1>1. t \in 1 .. ReservedMax /\ reserved \in [1 .. ReservedMax -> MapArea] /\ reserved[t] \in MapArea
  <2>1. reservedNum \in 1 .. ReservedMax /\ ReservedMax \in Nat
    BY DramFacts DEF RecordsOk
  <2>2. t \in 1 .. ReservedMax
    BY <2>1
  <2>3. QED BY <2>2 DEF RecordsOk
<1>2. PICK s \in Nat, z \in Nat : reserved[t] = [start |-> s, size |-> z]
  BY <1>1 DEF MapArea
<1>3. PICK rs \in Nat, rz \in Nat : rs = r.start /\ rz = r.size
  BY DEF MapArea
<1>4. End(reserved[t]) = s + z /\ End(r) = rs + rz /\ s <= rs /\ rs + rz <= s + z
  BY <1>2, <1>3 DEF End, Within
<1>5. Pages(reserved[t]) = s .. (s + z) - 1 /\ Pages(r) = rs .. (rs + rz) - 1
  BY <1>2, <1>3, <1>4 DEF Pages
<1>6. Pages(r) \subseteq Pages(reserved[t])
  BY <1>4, <1>5
<1>7. ASSUME r = reserved[t], reserved' = DropRecord(t), reservedNum' = reservedNum - 1
      PROVE  Loses(reserved', reservedNum', r)
  <2>1. Loses(DropRecord(t), reservedNum - 1, reserved[t])
    BY RecordDrops
  <2>2. QED BY <2>1, <1>7
<1>8. ASSUME r.start = reserved[t].start, UNCHANGED reservedNum,
             reserved' = [reserved EXCEPT ![t] = Area(End(r), reserved[t].size - r.size)]
      PROVE  Loses(reserved', reservedNum', r)
  <2>1. rs = s /\ z - rz \in Nat /\ rs + rz \in Nat /\ (rs + rz) + (z - rz) = s + z
    BY <1>2, <1>3, <1>4, <1>8
  <2>2. PICK x \in MapArea : x = [start |-> rs + rz, size |-> z - rz]
    BY <2>1 DEF MapArea
  <2>3. x = Area(End(r), reserved[t].size - r.size)
    BY <2>2, <1>2, <1>3, <1>4 DEF Area
  <2>4. Pages(x) = rs + rz .. (s + z) - 1
    BY <2>1, <2>2 DEF Pages, End
  <2>5. Pages(x) = Pages(reserved[t]) \ Pages(r)
    BY <2>1, <2>4, <1>4, <1>5
  <2>6. Loses([reserved EXCEPT ![t] = x], reservedNum, r)
    BY <2>5, <1>6, RecordShrinks
  <2>7. QED BY <2>3, <2>6, <1>8
<1>9. ASSUME End(r) = End(reserved[t]), UNCHANGED reservedNum,
             reserved' = [reserved EXCEPT ![t].size = reserved[t].size - r.size]
      PROVE  Loses(reserved', reservedNum', r)
  <2>1. rs + rz = s + z /\ z - rz \in Nat /\ s + (z - rz) = rs
    BY <1>4, <1>9
  <2>2. PICK x \in MapArea : x = [start |-> s, size |-> z - rz]
    BY <2>1 DEF MapArea
  <2>3. x = [reserved[t] EXCEPT !.size = reserved[t].size - r.size]
    BY <2>2, <1>2, <1>3
  <2>4. Pages(x) = s .. rs - 1
    BY <2>1, <2>2 DEF Pages, End
  <2>5. Pages(x) = Pages(reserved[t]) \ Pages(r)
    BY <2>1, <2>4, <1>4, <1>5
  <2>6. Loses([reserved EXCEPT ![t] = x], reservedNum, r)
    BY <2>5, <1>6, RecordShrinks
  <2>7. [reserved EXCEPT ![t] = x] = reserved'
    BY <2>3, <1>1, <1>9
  <2>8. QED BY <2>6, <2>7, <1>9
<1>10. ASSUME reservedNum < ReservedMax, reserved' = SplitRecord(t, r), reservedNum' = reservedNum + 1
       PROVE  Loses(reserved', reservedNum', r)
  <2>1. Loses(SplitRecord(t, r), reservedNum + 1, r)
    BY <1>10, RecordSplits
  <2>2. QED BY <2>1, <1>10
<1>11. QED
  BY <1>7, <1>8, <1>9, <1>10 DEF TakeFromRecord

---------------------------------------------------------------------------
(* The steps *)

\* Pages that go from a record to the blocks.
LEMMA MoveKeeps ==
    ASSUME MapInv, NEW r, Pages(r) \subseteq PagesOf(reserved, reservedNum),
           Gains(mblock', r), Loses(reserved', reservedNum', r)
    PROVE  MapInv'
<1>1. PagesOf(mblock', Len(mblock')) = PagesOf(mblock, Len(mblock)) \cup Pages(r)
  BY DEF Gains
<1>2. PagesOf(reserved', reservedNum') = PagesOf(reserved, reservedNum) \ Pages(r)
  BY DEF Loses
<1>3. /\ PagesOf(mblock, Len(mblock)) \cap PagesOf(reserved, reservedNum) = {}
      /\ Dram = PagesOf(mblock, Len(mblock)) \cup PagesOf(reserved, reservedNum)
  BY DEF MapInv
<1>4. BlocksOk(mblock') /\ RecordsOk(reserved', reservedNum')
  BY DEF Gains, Loses
<1>5. PagesOf(mblock', Len(mblock')) \cap PagesOf(reserved', reservedNum') = {}
  BY <1>1, <1>2, <1>3
<1>6. Dram = PagesOf(mblock', Len(mblock')) \cup PagesOf(reserved', reservedNum')
  BY <1>1, <1>2, <1>3
<1>7. Dram' = Dram
  BY DEF Dram, Pages, End
<1>8. QED
  BY <1>4, <1>5, <1>6, <1>7 DEF MapInv

\* mblock_create.
LEMMA CreateKeeps ==
    ASSUME MapInv, NEW r \in MapArea, r.size # 0, Create(r)
    PROVE  MapInv'
<1> DEFINE holders == {i \in Records : Within(r, reserved[i])}
<1>1. BlocksOk(mblock) /\ RecordsOk(reserved, reservedNum)
      /\ PagesOf(mblock, Len(mblock)) \cap PagesOf(reserved, reservedNum) = {}
  BY DEF MapInv
<1>2. reservedNum \in Nat /\ reservedNum \in 1 .. ReservedMax /\ reserved[1] = Protected
  BY <1>1, DramFacts DEF RecordsOk
<1>3. PICK t \in holders : t = RecordOf(r)
  <2>1. holders \subseteq Nat
    BY <1>2 DEF Records
  <2>2. holders # {}
    BY DEF Create
  <2>3. \E i \in holders : \A j \in holders : i <= j
    <3> HIDE DEF holders
    <3> QED BY <2>1, <2>2, LeastOf
  <2>4. \E i \in Records : Within(r, reserved[i]) /\ \A j \in Records : Within(r, reserved[j]) => i <= j
    BY <2>3
  <2>5. QED BY <2>4 DEF RecordOf
<1>4. t \in 1 .. reservedNum /\ Within(r, reserved[t])
  BY <1>3 DEF Records
<1>5. t # 1
  <2> SUFFICES ASSUME t = 1 PROVE FALSE
    OBVIOUS
  <2>1. Within(r, Protected)
    BY <1>2, <1>4
  <2>2. r.start \in Nat /\ r.size \in Nat /\ Protected.start \in Nat /\ Protected.size \in Nat
    BY DramFacts DEF MapArea
  <2>3. r.start >= Protected.start /\ r.start < End(Protected)
    BY <2>1, <2>2 DEF Within, End
  <2>4. QED BY <2>3 DEF Create, MeetsProtected
<1>6. t \in 2 .. reservedNum
  BY <1>2, <1>4, <1>5
<1>7. Pages(r) \subseteq PagesOf(reserved, reservedNum)
  <2>1. t \in 1 .. ReservedMax
    BY <1>2, <1>4, DramFacts
  <2>2. reserved[t] \in MapArea
    BY <2>1, <1>1 DEF RecordsOk
  <2>3. /\ r.start \in Nat /\ r.size \in Nat
        /\ reserved[t].start \in Nat /\ reserved[t].size \in Nat
    BY <2>2 DEF MapArea
  <2>4. Pages(r) \subseteq Pages(reserved[t])
    BY <2>3, <1>4 DEF Within, Pages, End
  <2>5. QED BY <2>4, <1>4 DEF PagesOf, PagesAt
<1>8. Gains(mblock', r)
  <2>1. Pages(r) \cap PagesOf(mblock, Len(mblock)) = {}
    BY <1>1, <1>7
  <2>2. InRank(r) /\ mblock' = Join(r)
    BY DEF Create
  <2>3. Gains(Join(r), r)
    BY <2>1, <2>2, <1>1, JoinGains
  <2>4. QED BY <2>2, <2>3
<1>9. Loses(reserved', reservedNum', r)
  <2>1. TakeFromRecord(t, r)
    BY <1>3 DEF Create
  <2>2. QED BY <2>1, <1>1, <1>4, <1>6, TakeLoses
<1>10. QED
  BY <1>7, <1>8, <1>9, MoveKeeps

\* mblock_resize.
LEMMA ResizeKeeps ==
    ASSUME MapInv, NEW t \in Records \ {1}, NEW newsize \in Nat, Resize(t, newsize)
    PROVE  MapInv'
<1>1. BlocksOk(mblock) /\ RecordsOk(reserved, reservedNum)
      /\ PagesOf(mblock, Len(mblock)) \cap PagesOf(reserved, reservedNum) = {}
  BY DEF MapInv
<1>2. reservedNum \in 1 .. ReservedMax /\ ReservedMax \in Nat /\ reserved \in [1 .. ReservedMax -> MapArea]
  BY <1>1, DramFacts DEF RecordsOk
<1>3. t \in 2 .. reservedNum /\ t \in 1 .. reservedNum /\ t \in 1 .. ReservedMax
  BY <1>2 DEF Records
<1>4. reserved[t] \in MapArea
  BY <1>2, <1>3
<1>5. PICK s \in Nat, z \in Nat : reserved[t] = [start |-> s, size |-> z]
  BY <1>4 DEF MapArea
<1>6. 0 < newsize /\ newsize < z
  BY <1>5 DEF Resize
<1>7. s + newsize \in Nat /\ z - newsize \in Nat /\ (s + newsize) + (z - newsize) = s + z
  BY <1>6
<1> DEFINE back == Area(reserved[t].start + newsize, reserved[t].size - newsize)
           near == {i \in DOMAIN mblock : mblock[i].rank = RankOf(back)
                                          /\ (End(mblock[i]) = back.start \/ mblock[i].start = End(back))}
           first == CHOOSE i \in near : \A j \in near : i <= j
<1>10. /\ InRank(back) /\ UNCHANGED reservedNum
       /\ reserved' = [reserved EXCEPT ![t].size = newsize]
       /\ mblock' = IF near = {} THEN InsertBlock(Block(back.start, back.size, RankOf(back)))
                    ELSE IF End(mblock[first]) = back.start THEN GrowLeft(first, back)
                    ELSE GrowRight(first, back)
  BY DEF Resize
<1>8. back = [start |-> s + newsize, size |-> z - newsize]
  BY <1>5 DEF Area
<1> HIDE DEF back
<1>9. back \in MapArea
  BY <1>7, <1>8 DEF MapArea
<1>11. PICK x \in MapArea : x = [start |-> s, size |-> newsize]
  BY DEF MapArea
<1>12. /\ Pages(x) = s .. (s + newsize) - 1
       /\ Pages(back) = s + newsize .. (s + z) - 1
       /\ Pages(reserved[t]) = s .. (s + z) - 1
  BY <1>5, <1>7, <1>8, <1>11 DEF Pages, End
<1>13. Pages(back) \subseteq Pages(reserved[t]) /\ Pages(x) = Pages(reserved[t]) \ Pages(back)
  BY <1>6, <1>12
<1>14. Loses(reserved', reservedNum', back)
  <2>1. [reserved EXCEPT ![t] = x] = reserved'
    <3>1. x = [reserved[t] EXCEPT !.size = newsize]
      BY <1>5, <1>11
    <3>2. QED BY <3>1, <1>2, <1>3, <1>10
  <2>2. Loses([reserved EXCEPT ![t] = x], reservedNum, back)
    BY <1>1, <1>3, <1>9, <1>13, RecordShrinks
  <2>3. QED BY <2>1, <2>2, <1>10
<1>15. Pages(back) \subseteq PagesOf(reserved, reservedNum)
  BY <1>3, <1>13 DEF PagesOf, PagesAt
<1>16. Pages(back) \cap PagesOf(mblock, Len(mblock)) = {}
  BY <1>1, <1>15
<1>17. Len(mblock) \in Nat /\ DOMAIN mblock = 1 .. Len(mblock)
  BY <1>1 DEF BlocksOk
<1>18. ASSUME near = {} PROVE Gains(mblock', back)
  <2>1. mblock' = InsertBlock(Block(back.start, back.size, RankOf(back)))
    BY <1>10, <1>18
  <2>2. Gains(InsertBlock(Block(back.start, back.size, RankOf(back))), back)
    BY <1>1, <1>9, <1>10, <1>16, NewBlockGains
  <2>3. QED BY <2>1, <2>2
<1>19. ASSUME near # {} PROVE Gains(mblock', back)
  <2>1. \E i \in near : \A j \in near : i <= j
    <3>1. near \subseteq Nat
      BY <1>17
    <3> HIDE DEF near
    <3>2. QED BY <3>1, <1>19, LeastOf
  <2>2. PICK i \in near : i = first
    <3> HIDE DEF near
    <3> QED BY <2>1
  <2>3. mblock' = IF End(mblock[i]) = back.start THEN GrowLeft(i, back) ELSE GrowRight(i, back)
    <3> HIDE DEF near, first
    <3> QED BY <2>2, <1>10, <1>19
  <2>4. /\ i \in 1 .. Len(mblock) /\ mblock[i].rank = RankOf(back)
        /\ End(mblock[i]) = back.start \/ mblock[i].start = End(back)
    BY <1>17
  <2>5. Within(back, RankInfo[mblock[i].rank])
    BY <2>4, <1>9, <1>10, RankFacts
  <2>6. CASE End(mblock[i]) = back.start
    <3>1. Gains(GrowLeft(i, back), back)
      BY <2>4, <2>5, <2>6, <1>1, <1>9, <1>16, GrowLeftGains
    <3>2. QED BY <3>1, <2>3, <2>6
  <2>7. CASE End(mblock[i]) # back.start
    <3>1. Gains(GrowRight(i, back), back)
      BY <2>4, <2>5, <2>7, <1>1, <1>9, <1>16, GrowRightGains
    <3>2. QED BY <3>1, <2>3, <2>7
  <2>8. QED BY <2>6, <2>7
<1>20. Gains(mblock', back)
  BY <1>18, <1>19
<1>21. QED
  BY <1>9, <1>14, <1>15, <1>20, MoveKeeps


---------------------------------------------------------------------------
(* Reservations *)

\* A number rounded down is the greatest multiple up to it.
LEMMA RoundDown ==
    ASSUME NEW n \in Nat, NEW m \in Nat \ {0}
    PROVE  /\ n - (n % m) \in 0 .. n
           /\ (n - (n % m)) % m = 0
           /\ \A a \in Nat : a % m = 0 /\ a <= n => a <= n - (n % m)
<1>1. PICK q \in Nat, r \in 0 .. m - 1 : r = n % m /\ n = m * q + r
  BY Divides
<1>2. m * q \in Nat /\ n - r = m * q /\ m * q = q * m
  BY <1>1
<1>3. (q * m) % m = 0
  BY Multiple
<1>4. ASSUME NEW a \in Nat, a % m = 0, a <= n PROVE a <= m * q
  <2>1. PICK d \in Nat : a = m * d
    <3>1. a \div m \in Nat /\ a = m * (a \div m) + (a % m)
      BY Divides
    <3>2. a = m * (a \div m)
      BY <3>1, <1>4
    <3>3. QED BY <3>1, <3>2
  <2>2. CASE d <= q
    <3>1. PICK e \in Nat : q = d + e
      BY <2>2
    <3>2. m * q = m * d + m * e /\ m * e >= 0
      BY <3>1
    <3>3. QED BY <2>1, <3>2, <1>2
  <2>3. CASE d > q
    <3>1. PICK e \in Nat : d = q + 1 + e
      BY <2>3
    <3>2. m * d = m * q + m + m * e /\ m * e >= 0
      BY <3>1
    <3>3. QED BY <2>1, <3>2, <1>1, <1>2, <1>4
  <2>4. QED BY <2>2, <2>3
<1>5. n - (n % m) = m * q /\ (m * q) % m = 0 /\ m * q <= n
  BY <1>1, <1>2, <1>3
<1>6. QED
  BY <1>2, <1>4, <1>5

\* Where the DRAM begins, and where it ends.
LEMMA RankOrder ==
    ASSUME NEW k \in DOMAIN RankInfo
    PROVE  /\ RankInfo[1].start \in Nat /\ RankInfo[1].start <= RankInfo[k].start
           /\ End(RankInfo[Len(RankInfo)]) \in Nat /\ End(RankInfo[k]) <= End(RankInfo[Len(RankInfo)])
<1>1. PICK n \in Nat : n = Len(RankInfo) /\ DOMAIN RankInfo = 1 .. n /\ k \in 1 .. n
  BY DramFacts
<1>2. ASSUME NEW i \in 1 .. n
      PROVE  RankInfo[i].start \in Nat /\ RankInfo[i].size \in Nat
             /\ End(RankInfo[i]) = RankInfo[i].start + RankInfo[i].size
  BY <1>1, DramFacts DEF End
<1>3. \A i, j \in 1 .. n : i < j => End(RankInfo[i]) <= RankInfo[j].start
  BY <1>1, DramAssumption
<1>4. 1 \in 1 .. n /\ n \in 1 .. n
  BY <1>1
<1>5. PICK s1 \in Nat, z1 \in Nat : s1 = RankInfo[1].start /\ z1 = RankInfo[1].size /\ End(RankInfo[1]) = s1 + z1
  BY <1>2, <1>4
<1>6. PICK sn \in Nat, zn \in Nat : sn = RankInfo[n].start /\ zn = RankInfo[n].size /\ End(RankInfo[n]) = sn + zn
  BY <1>2, <1>4
<1>7. PICK sk \in Nat, zk \in Nat : sk = RankInfo[k].start /\ zk = RankInfo[k].size /\ End(RankInfo[k]) = sk + zk
  BY <1>1, <1>2
<1>8. s1 <= sk
  <2>1. CASE k = 1
    BY <2>1, <1>5, <1>7
  <2>2. CASE k # 1
    <3>1. s1 + z1 <= sk
      BY <2>2, <1>1, <1>3, <1>4, <1>5, <1>7
    <3>2. QED BY <3>1
  <2>3. QED BY <2>1, <2>2
<1>9. sk + zk <= sn + zn
  <2>1. CASE k = n
    BY <2>1, <1>6, <1>7
  <2>2. CASE k # n
    <3>1. sk + zk <= sn
      BY <2>2, <1>1, <1>3, <1>4, <1>6, <1>7
    <3>2. QED BY <3>1
  <2>3. QED BY <2>1, <2>2
<1>10. RankInfo[1].start \in Nat /\ RankInfo[1].start <= RankInfo[k].start
  BY <1>5, <1>7, <1>8
<1>11. End(RankInfo[n]) \in Nat /\ End(RankInfo[k]) <= End(RankInfo[n])
  BY <1>6, <1>7, <1>9
<1>12. QED
  BY <1>1, <1>10, <1>11

\* A block: its numbers, its pages, and the DRAM around it.
LEMMA MapBlockFacts ==
    ASSUME BlocksOk(mblock), NEW i \in 1 .. Len(mblock)
    PROVE  /\ mblock[i] \in MapBlock /\ i \in DOMAIN mblock
           /\ mblock[i].start \in Nat /\ mblock[i].size \in Nat
           /\ End(mblock[i]) = mblock[i].start + mblock[i].size
           /\ mblock[i].rank \in DOMAIN RankInfo /\ Within(mblock[i], RankInfo[mblock[i].rank])
           /\ RankInfo[1].start \in Nat /\ RankInfo[1].start <= mblock[i].start
           /\ End(RankInfo[Len(RankInfo)]) \in Nat /\ End(mblock[i]) <= End(RankInfo[Len(RankInfo)])
<1>1. mblock[i] \in MapBlock /\ i \in DOMAIN mblock
  BY ElementOfSeq DEF BlocksOk
<1>2. Within(mblock[i], RankInfo[mblock[i].rank])
  BY DEF BlocksOk, InRanks
<1>3. PICK s \in Nat, z \in Nat, k \in DOMAIN RankInfo :
          s = mblock[i].start /\ z = mblock[i].size /\ k = mblock[i].rank /\ End(mblock[i]) = s + z
  BY <1>1 DEF MapBlock, End
<1>4. RankInfo[k].start <= s /\ s + z <= End(RankInfo[k])
  BY <1>2, <1>3 DEF Within
<1>5. PICK first \in Nat, last \in Nat : /\ first = RankInfo[1].start /\ first <= RankInfo[k].start
                                          /\ last = End(RankInfo[Len(RankInfo)]) /\ End(RankInfo[k]) <= last
  BY RankOrder
<1>6. RankInfo[k].start \in Nat /\ End(RankInfo[k]) \in Nat
  <2>1. RankInfo[k].start \in Nat /\ RankInfo[k].size \in Nat
    BY DramFacts
  <2>2. QED BY <2>1 DEF End
<1>7. first <= s /\ s + z <= last
  BY <1>4, <1>5, <1>6
<1>8. QED
  BY <1>1, <1>2, <1>3, <1>5, <1>7

\* A block can serve a reservation just when it has room for it below the limit, at an
\* address that is aligned, and gives it the highest such.
LEMMA AddressFacts ==
    ASSUME BlocksOk(mblock), NEW size \in ReserveSizes, NEW align \in Aligns, NEW limit \in Limits,
           NEW i \in Serving(size, align, limit)
    PROVE  /\ i \in 1 .. Len(mblock)
           /\ Address(mblock[i], size, align, limit) \in Nat
           /\ Address(mblock[i], size, align, limit) % align = 0
           /\ Address(mblock[i], size, align, limit) + size <= limit
           /\ mblock[i].start <= Address(mblock[i], size, align, limit)
           /\ Address(mblock[i], size, align, limit) + size <= End(mblock[i])
<1>1. i \in 1 .. Len(mblock) /\ limit > mblock[i].start
      /\ End(mblock[i]) > mblock[i].start
      /\ Address(mblock[i], size, align, limit) >= mblock[i].start
  BY DEF Serving, BlocksOk
<1>2. PICK s \in Nat, z \in Nat : /\ s = mblock[i].start /\ z = mblock[i].size /\ End(mblock[i]) = s + z
                                  /\ RankInfo[1].start \in Nat /\ RankInfo[1].start <= s
  BY <1>1, MapBlockFacts
<1>3. size \in Nat \ {0} /\ size <= RankInfo[1].start /\ align \in Nat \ {0} /\ limit \in Nat
  BY DramAssumption
<1>4. size <= s /\ s < limit /\ s < s + z
  BY <1>1, <1>2, <1>3
<1>5. PICK low \in Nat : low = Lower(limit, End(mblock[i])) /\ low <= limit /\ low <= s + z /\ s < low
  BY <1>2, <1>3, <1>4 DEF Lower
<1>6. PICK top \in Nat : top = low - size /\ top + size = low
  BY <1>3, <1>4, <1>5
<1>7. PICK a \in Nat : a = top - (top % align) /\ a <= top /\ a % align = 0
  <2>1. top - (top % align) \in 0 .. top /\ (top - (top % align)) % align = 0
    BY <1>3, RoundDown
  <2>2. QED BY <2>1
<1>8. a = Address(mblock[i], size, align, limit)
  BY <1>5, <1>6, <1>7 DEF Address
<1>9. a + size <= low
  BY <1>3, <1>6, <1>7
<1>10. a + size <= limit /\ a + size <= s + z
  BY <1>3, <1>5, <1>9
<1>11. QED
  BY <1>1, <1>2, <1>7, <1>8, <1>10

\* A block that has room for a reservation, below the limit and aligned, can serve it, and gives it
\* no lower an address.
LEMMA ServingFacts ==
    ASSUME BlocksOk(mblock), NEW size \in ReserveSizes, NEW align \in Aligns, NEW limit \in Limits,
           NEW i \in 1 .. Len(mblock), NEW a \in Nat, a % align = 0, a + size <= limit,
           mblock[i].start <= a, a + size <= End(mblock[i])
    PROVE  i \in Serving(size, align, limit) /\ a <= Address(mblock[i], size, align, limit)
<1>1. PICK s \in Nat, z \in Nat : s = mblock[i].start /\ z = mblock[i].size /\ End(mblock[i]) = s + z
  BY MapBlockFacts
<1>2. size \in Nat \ {0} /\ align \in Nat \ {0} /\ limit \in Nat
  BY DramAssumption
<1>3. s <= a /\ a + size <= s + z
  BY <1>1
<1>4. PICK low \in Nat : low = Lower(limit, End(mblock[i])) /\ low <= limit /\ low <= s + z /\ a + size <= low
  <2>1. PICK e \in Nat : e = End(mblock[i]) /\ e = s + z /\ a + size <= e
    BY <1>1, <1>3
  <2>2. PICK low \in Nat : low = Lower(limit, e) /\ low <= limit /\ low <= e /\ (low = limit \/ low = e)
    BY <1>2 DEF Lower
  <2>3. QED BY <2>1, <2>2
<1>5. PICK top \in Nat : top = low - size /\ top + size = low /\ a <= top
  <2>1. a + size <= low /\ a \in Nat /\ size \in Nat /\ low \in Nat
    BY <1>2, <1>4
  <2>2. low - size \in Nat /\ (low - size) + size = low /\ a <= low - size
    BY <2>1
  <2>3. QED BY <2>2
<1>6. PICK b \in Nat : b = top - (top % align) /\ b <= top /\ a <= b
  <2>1. top - (top % align) \in 0 .. top
        /\ \A n \in Nat : n % align = 0 /\ n <= top => n <= top - (top % align)
    BY <1>2, RoundDown
  <2>2. QED BY <2>1, <1>5
<1>7. b = Address(mblock[i], size, align, limit)
  BY <1>4, <1>5, <1>6 DEF Address
<1>8. b >= s /\ b + size <= limit
  <2>1. s \in Nat /\ a \in Nat /\ b \in Nat /\ s <= a /\ a <= b
    BY <1>3, <1>6
  <2>2. size \in Nat /\ low \in Nat /\ top \in Nat /\ limit \in Nat /\ b <= top /\ top + size = low /\ low <= limit
    BY <1>2, <1>4, <1>5, <1>6
  <2>3. b + size <= low
    BY <2>1, <2>2
  <2>4. QED BY <2>1, <2>2, <2>3
<1>9. size <= z /\ limit > s /\ s + z > s
  <2>1. s \in Nat /\ z \in Nat /\ a \in Nat /\ size \in Nat /\ size > 0 /\ limit \in Nat
    BY <1>2
  <2>2. s <= a /\ a + size <= s + z /\ a + size <= limit
    BY <1>3
  <2>3. QED BY <2>1, <2>2
<1>10. i \in DOMAIN mblock
  BY MapBlockFacts
<1>11. QED
  BY <1>1, <1>6, <1>7, <1>8, <1>9, <1>10 DEF Serving

\* The target: a block that can serve the reservation, and ends highest of these.
LEMMA TargetFacts ==
    ASSUME BlocksOk(mblock), NEW size \in ReserveSizes, NEW align \in Aligns, NEW limit \in Limits,
           Serving(size, align, limit) # {}
    PROVE  /\ Target(size, align, limit) \in Serving(size, align, limit)
           /\ \A j \in Serving(size, align, limit) : End(mblock[j]) <= End(mblock[Target(size, align, limit)])
<1>1. PICK S : S = Serving(size, align, limit) /\ S # {}
  OBVIOUS
<1>2. ASSUME NEW i \in S
      PROVE  /\ i \in 1 .. Len(mblock) /\ i \in Nat /\ End(mblock[i]) \in Nat /\ End(mblock[i]) # 0
             /\ End(RankInfo[Len(RankInfo)]) \in Nat /\ End(mblock[i]) <= End(RankInfo[Len(RankInfo)])
  <2>1. i \in 1 .. Len(mblock) /\ End(mblock[i]) > mblock[i].start
    BY <1>1 DEF Serving, BlocksOk
  <2>2. PICK s \in Nat, z \in Nat : /\ s = mblock[i].start /\ End(mblock[i]) = s + z
                                    /\ End(RankInfo[Len(RankInfo)]) \in Nat
                                    /\ End(mblock[i]) <= End(RankInfo[Len(RankInfo)])
    BY <2>1, MapBlockFacts
  <2>3. QED BY <2>1, <2>2
<1>3. PICK last \in Nat : last = End(RankInfo[Len(RankInfo)])
  BY <1>1, <1>2
<1>4. PICK E : E = {End(mblock[i]) : i \in S}
  OBVIOUS
<1>5. E \subseteq 1 .. last /\ E # {}
  <2>1. \A i \in S : End(mblock[i]) \in 1 .. last
    BY <1>2, <1>3
  <2>2. QED BY <2>1, <1>1, <1>4
<1>6. PICK high \in E : \A e \in E : e <= high
  BY <1>5, GreatestOf
<1>7. \A i \in S : End(mblock[i]) \in E
  BY <1>4
<1>8. PICK T : T = {i \in S : End(mblock[i]) = high}
  OBVIOUS
<1>9. T \subseteq Nat /\ T # {}
  BY <1>2, <1>4, <1>6, <1>8
<1>10. PICK i \in T : \A j \in T : i <= j
  BY <1>9, LeastOf
<1>11. i \in S /\ \A j \in S : \/ End(mblock[i]) > End(mblock[j])
                               \/ End(mblock[i]) = End(mblock[j]) /\ i <= j
  <2>1. i \in S /\ End(mblock[i]) = high
    BY <1>8
  <2>2. ASSUME NEW j \in S PROVE high > End(mblock[j]) \/ (high = End(mblock[j]) /\ i <= j)
    <3>1. End(mblock[j]) <= high /\ End(mblock[j]) \in Nat /\ high \in Nat
      BY <1>2, <1>6, <1>7, <2>1
    <3>2. CASE End(mblock[j]) = high
      BY <3>2, <1>8, <1>10
    <3>3. CASE End(mblock[j]) # high
      BY <3>1, <3>3
    <3>4. QED BY <3>2, <3>3
  <2>3. QED BY <2>1, <2>2
<1>12. PICK t : t = Target(size, align, limit)
  OBVIOUS
<1>13. t \in S /\ \A j \in S : \/ End(mblock[t]) > End(mblock[j])
                               \/ End(mblock[t]) = End(mblock[j]) /\ t <= j
  BY <1>1, <1>11, <1>12 DEF Target
<1>14. \A j \in S : End(mblock[j]) <= End(mblock[t])
  <2> SUFFICES ASSUME NEW j \in S PROVE End(mblock[j]) <= End(mblock[t])
    OBVIOUS
  <2>1. End(mblock[j]) \in Nat /\ End(mblock[t]) \in Nat
    BY <1>2, <1>13
  <2>2. QED BY <2>1, <1>13
<1>15. QED
  BY <1>1, <1>12, <1>13, <1>14

\* mblock_reserve_ext.
LEMMA ReserveKeeps ==
    ASSUME MapInv, NEW size \in ReserveSizes, NEW align \in Aligns, NEW limit \in Limits,
           Reserve(size, align, limit)
    PROVE  MapInv'
<1>1. BlocksOk(mblock) /\ RecordsOk(reserved, reservedNum)
      /\ PagesOf(mblock, Len(mblock)) \cap PagesOf(reserved, reservedNum) = {}
      /\ Dram = PagesOf(mblock, Len(mblock)) \cup PagesOf(reserved, reservedNum)
  BY DEF MapInv
<1>2. Serving(size, align, limit) # {} /\ reservedNum < ReservedMax /\ reservedNum' = reservedNum + 1
  BY DEF Reserve
<1>3. PICK t \in Serving(size, align, limit) : t = Target(size, align, limit)
  BY <1>1, <1>2, TargetFacts
<1>4. PICK addr \in Nat : /\ addr = Address(mblock[t], size, align, limit)
                          /\ t \in 1 .. Len(mblock)
                          /\ mblock[t].start <= addr /\ addr + size <= End(mblock[t])
  BY <1>1, AddressFacts
<1>5. PICK taken \in MapArea : taken = Area(addr, size)
  BY DramAssumption DEF MapArea, Area
<1>6. reserved' = [reserved EXCEPT ![reservedNum + 1] = taken] /\ mblock' = WithoutArea(mblock, t, taken)
  BY <1>3, <1>4, <1>5 DEF Reserve
<1>7. Within(taken, mblock[t])
  BY <1>4, <1>5 DEF Within, Area, End
<1>8. /\ BlocksOk(mblock')
      /\ PagesOf(mblock', Len(mblock')) = PagesOf(mblock, Len(mblock)) \ Pages(taken)
  <2>1. /\ BlocksOk(WithoutArea(mblock, t, taken))
        /\ PagesOf(WithoutArea(mblock, t, taken), Len(WithoutArea(mblock, t, taken)))
               = PagesOf(mblock, Len(mblock)) \ Pages(taken)
    BY <1>1, <1>4, <1>7, WithoutAreaFacts
  <2>2. QED BY <2>1, <1>6
<1>9. Pages(taken) \subseteq PagesOf(mblock, Len(mblock))
  <2>1. mblock[t].start \in Nat /\ End(mblock[t]) \in Nat
    <3>1. mblock[t].start \in Nat /\ mblock[t].size \in Nat /\ End(mblock[t]) = mblock[t].start + mblock[t].size
      BY <1>1, <1>4, MapBlockFacts
    <3>2. QED BY <3>1
  <2>2. taken.start \in Nat /\ End(taken) \in Nat
    BY DEF MapArea, End
  <2>3. Pages(taken) \subseteq Pages(mblock[t])
    BY <2>1, <2>2, <1>7 DEF Pages, Within
  <2>4. QED BY <2>3, <1>4 DEF PagesOf, PagesAt
<1>10. Adds(reserved', reservedNum', taken)
  <2>1. Pages(taken) \cap PagesOf(reserved, reservedNum) = {}
    BY <1>1, <1>9
  <2>2. Adds([reserved EXCEPT ![reservedNum + 1] = taken], reservedNum + 1, taken)
    BY <2>1, <1>1, <1>2, RecordAdds
  <2>3. QED BY <2>2, <1>2, <1>6
<1>11. RecordsOk(reserved', reservedNum')
       /\ PagesOf(reserved', reservedNum') = PagesOf(reserved, reservedNum) \cup Pages(taken)
  BY <1>10 DEF Adds
<1>12. /\ PagesOf(mblock', Len(mblock')) \cap PagesOf(reserved', reservedNum') = {}
       /\ Dram = PagesOf(mblock', Len(mblock')) \cup PagesOf(reserved', reservedNum')
  BY <1>1, <1>8, <1>9, <1>11
<1>13. Dram' = Dram
  BY DEF Dram, Pages, End
<1>14. QED
  BY <1>8, <1>11, <1>12, <1>13 DEF MapInv


---------------------------------------------------------------------------
(* The map is whole *)

\* What the preloader leaves.
LEMMA MapInitHolds ==
    ASSUME MblockInit
    PROVE  MapInv
<1>1. PICK n \in Nat : n = Len(RankInfo) /\ DOMAIN RankInfo = 1 .. n
  BY DramFacts
<1>2. PICK w : w = [k \in DOMAIN RankInfo |-> Block(RankInfo[k].start, RankInfo[k].size, k)]
  OBVIOUS
<1>3. ASSUME NEW k \in 1 .. n
      PROVE  /\ w[k] \in MapBlock /\ w[k].start = RankInfo[k].start /\ w[k].size = RankInfo[k].size
             /\ w[k].rank = k
             /\ RankInfo[k].start \in Nat /\ RankInfo[k].size \in Nat
             /\ End(w[k]) = RankInfo[k].start + RankInfo[k].size
             /\ End(RankInfo[k]) = RankInfo[k].start + RankInfo[k].size
  <2>1. k \in DOMAIN RankInfo /\ RankInfo[k].start \in Nat /\ RankInfo[k].size \in Nat
    BY <1>1, DramFacts
  <2>2. w[k] = Block(RankInfo[k].start, RankInfo[k].size, k)
    BY <2>1, <1>2
  <2>3. w[k] \in MapBlock /\ w[k].start = RankInfo[k].start /\ w[k].size = RankInfo[k].size /\ w[k].rank = k
    BY <2>1, <2>2 DEF Block, MapBlock
  <2>4. QED BY <2>1, <2>3 DEF End
<1>4. w \in Seq(MapBlock) /\ Len(w) = n
  <2>1. w = [k \in 1 .. n |-> w[k]] /\ \A k \in 1 .. n : w[k] \in MapBlock
    BY <1>1, <1>2, <1>3
  <2>2. w \in [1 .. n -> MapBlock]
    BY <2>1
  <2>3. QED BY <2>2
<1>5. InRanks(w)
  <2>1. \A k \in 1 .. n : Within(w[k], RankInfo[w[k].rank])
    BY <1>3 DEF Within
  <2>2. QED BY <2>1, <1>4 DEF InRanks
<1>6. Apart(w, n)
  <2> SUFFICES ASSUME NEW i \in 1 .. n, NEW j \in 1 .. n, i # j
               PROVE  PagesAt(w, i) \cap PagesAt(w, j) = {}
    BY DEF Apart
  <2>1. PICK si \in Nat, zi \in Nat : si = w[i].start /\ End(w[i]) = si + zi /\ End(RankInfo[i]) = si + zi
                                      /\ si = RankInfo[i].start
    BY <1>3
  <2>2. PICK sj \in Nat, zj \in Nat : sj = w[j].start /\ End(w[j]) = sj + zj /\ End(RankInfo[j]) = sj + zj
                                      /\ sj = RankInfo[j].start
    BY <1>3
  <2>3. PagesAt(w, i) = si .. (si + zi) - 1 /\ PagesAt(w, j) = sj .. (sj + zj) - 1
    BY <2>1, <2>2 DEF PagesAt, Pages
  <2>4. \A k, l \in DOMAIN RankInfo : k < l => End(RankInfo[k]) <= RankInfo[l].start
    BY DramAssumption
  <2>5. i < j \/ j < i
    OBVIOUS
  <2>6. si + zi <= sj \/ sj + zj <= si
    BY <2>1, <2>2, <2>4, <2>5, <1>1
  <2>7. QED BY <2>3, <2>6
<1>7. PagesOf(w, n) = Dram
  <2>1. \A k \in 1 .. n : PagesAt(w, k) = Pages(RankInfo[k])
    BY <1>3 DEF PagesAt, Pages
  <2>2. PagesOf(w, n) = UNION {PagesAt(w, k) : k \in 1 .. n}
    BY DEF PagesOf
  <2>3. Dram = UNION {Pages(RankInfo[k]) : k \in 1 .. n}
    BY <1>1 DEF Dram
  <2>4. \A x : x \in PagesOf(w, n) <=> x \in Dram
    BY <2>1, <2>2, <2>3
  <2>5. QED BY <2>4
<1>8. BlocksOk(w)
  BY <1>4, <1>5, <1>6 DEF BlocksOk
<1>9. PICK t \in 1 .. n : t = RankOf(Protected) /\ Within(Protected, RankInfo[t])
  BY <1>1, DramFacts, RankFacts
<1>10. Within(Protected, w[t])
  BY <1>3, <1>9 DEF Within
<1>11. mblock = WithoutArea(w, t, Protected)
  BY <1>2, <1>9 DEF MblockInit
<1>12. BlocksOk(mblock) /\ PagesOf(mblock, Len(mblock)) = Dram \ Pages(Protected)
  <2>1. t \in 1 .. Len(w) /\ Protected \in MapArea
    BY <1>4, DramFacts
  <2>2. /\ BlocksOk(WithoutArea(w, t, Protected))
        /\ PagesOf(WithoutArea(w, t, Protected), Len(WithoutArea(w, t, Protected)))
               = PagesOf(w, Len(w)) \ Pages(Protected)
    BY <2>1, <1>8, <1>10, WithoutAreaFacts
  <2>3. QED BY <2>2, <1>4, <1>7, <1>11
<1>13. Pages(Protected) \subseteq Dram
  <2>1. RankInfo[t].start \in Nat /\ End(RankInfo[t]) \in Nat /\ t \in DOMAIN RankInfo
    BY <1>1, <1>3
  <2>2. Protected.start \in Nat /\ End(Protected) \in Nat
    BY DramFacts DEF MapArea, End
  <2>3. Pages(Protected) \subseteq Pages(RankInfo[t])
    BY <2>1, <2>2, <1>9 DEF Within, Pages
  <2>4. QED BY <2>1, <2>3 DEF Dram
<1>14. RecordsOk(reserved, reservedNum) /\ PagesOf(reserved, reservedNum) = Pages(Protected)
  <2>1. reserved = [i \in 1 .. ReservedMax |-> IF i = 1 THEN Protected ELSE Empty] /\ reservedNum = 1
    BY DEF MblockInit
  <2>2. Empty \in MapArea /\ Protected \in MapArea /\ ReservedMax \in Nat \ {0}
    BY DramFacts DEF Empty, Area, MapArea
  <2>3. reserved \in [1 .. ReservedMax -> MapArea] /\ 1 \in 1 .. ReservedMax /\ reserved[1] = Protected
    BY <2>1, <2>2
  <2>4. \A i \in 2 .. ReservedMax : reserved[i] = Empty
    BY <2>1, <2>2
  <2>5. Apart(reserved, 1)
    BY DEF Apart
  <2>6. PagesOf(reserved, 1) = Pages(Protected)
    <3>1. \A k \in 1 .. 1 : k = 1
      OBVIOUS
    <3>2. 1 \in 1 .. 1
      OBVIOUS
    <3>3. \A x : x \in PagesOf(reserved, 1) <=> x \in PagesAt(reserved, 1)
      BY <3>1, <3>2 DEF PagesOf
    <3>4. QED BY <3>3, <2>3 DEF PagesAt
  <2>7. QED BY <2>1, <2>2, <2>3, <2>4, <2>5, <2>6 DEF RecordsOk
<1>15. QED
  BY <1>12, <1>13, <1>14 DEF MapInv

\* The calls.
LEMMA MapStep ==
    ASSUME MapInv, [MblockNext]_mblockVars
    PROVE  MapInv'
<1>1. RecordsOk(reserved, reservedNum)
  BY DEF MapInv
<1>2. ASSUME NEW i \in Records
      PROVE  i \in 1 .. ReservedMax /\ reserved[i].start \in Nat /\ reserved[i].size \in Nat
             /\ End(reserved[i]) = reserved[i].start + reserved[i].size
  <2>1. reservedNum \in 1 .. ReservedMax /\ ReservedMax \in Nat
    BY <1>1, DramFacts DEF RecordsOk
  <2>2. i \in 1 .. ReservedMax
    BY <2>1 DEF Records
  <2>3. reserved[i] \in MapArea
    BY <2>2, <1>1 DEF RecordsOk
  <2>4. QED BY <2>2, <2>3 DEF MapArea, End
<1>3. ASSUME NEW size \in ReserveSizes, NEW align \in Aligns, NEW limit \in Limits, Reserve(size, align, limit)
      PROVE  MapInv'
  BY <1>3, ReserveKeeps
<1>4. ASSUME NEW t \in Records, NEW start \in Pages(reserved[t]), NEW size \in 1 .. End(reserved[t]) - start,
             Create(Area(start, size))
      PROVE  MapInv'
  <2>1. start \in Nat /\ size \in Nat /\ size # 0
    BY <1>2 DEF Pages
  <2>2. PICK r \in MapArea : r = Area(start, size) /\ r.size # 0
    <3>1. Area(start, size) \in MapArea
      BY <2>1 DEF Area, MapArea
    <3>2. Area(start, size).size # 0
      BY <2>1 DEF Area
    <3>3. QED BY <3>1, <3>2
  <2>3. Create(r)
    BY <2>2, <1>4
  <2>4. QED BY <2>2, <2>3, CreateKeeps
<1>5. ASSUME NEW t \in Records \ {1}, NEW newsize \in 1 .. reserved[t].size - 1, Resize(t, newsize)
      PROVE  MapInv'
  <2>1. newsize \in Nat
    BY <1>2
  <2>2. QED BY <2>1, <1>5, ResizeKeeps
<1>6. ASSUME UNCHANGED mblockVars
      PROVE  MapInv'
  <2>1. mblock' = mblock /\ reserved' = reserved /\ reservedNum' = reservedNum /\ Dram' = Dram
    BY <1>6 DEF mblockVars, Dram, Pages, End
  <2>2. QED BY <2>1 DEF MapInv
<1>7. QED
  BY <1>3, <1>4, <1>5, <1>6 DEF MblockNext

\* The invariant of the map, for any ranks, protected memory and reservations.
LEMMA MapInvHolds == MblockSpec => []MapInv
<1>1. MblockInit => MapInv
  BY MapInitHolds
<1>2. MapInv /\ [MblockNext]_mblockVars => MapInv'
  BY MapStep
<1>3. QED
  BY <1>1, <1>2, PTL DEF MblockSpec

\* The map is whole when the invariant holds.
LEMMA TiledFacts ==
    ASSUME MapInv
    PROVE  MapTiled
<1>1. PICK n \in Nat, m \in Nat : n = Len(mblock) /\ m = reservedNum /\ DOMAIN mblock = 1 .. n /\ Records = 1 .. m
                                  /\ m \in 1 .. ReservedMax /\ ReservedMax \in Nat
  BY DramFacts DEF MapInv, BlocksOk, RecordsOk, Records
<1>2. /\ Dram = PagesOf(mblock, n) \cup PagesOf(reserved, m)
      /\ PagesOf(mblock, n) \cap PagesOf(reserved, m) = {}
      /\ Apart(mblock, n) /\ Apart(reserved, m) /\ reserved[1] = Protected
  BY <1>1 DEF MapInv, BlocksOk, RecordsOk
<1>3. PagesOf(mblock, n) = UNION {Pages(mblock[i]) : i \in DOMAIN mblock}
      /\ PagesOf(reserved, m) = UNION {Pages(reserved[i]) : i \in Records}
  BY <1>1 DEF PagesOf, PagesAt
<1>4. Dram = UNION ({Pages(mblock[i]) : i \in DOMAIN mblock} \cup {Pages(reserved[i]) : i \in Records})
  BY <1>2, <1>3
<1>5. \A i, j \in DOMAIN mblock : i # j => Pages(mblock[i]) \cap Pages(mblock[j]) = {}
  BY <1>1, <1>2 DEF Apart, PagesAt
<1>6. \A i, j \in Records : i # j => Pages(reserved[i]) \cap Pages(reserved[j]) = {}
  BY <1>1, <1>2 DEF Apart, PagesAt
<1>7. ASSUME NEW i \in DOMAIN mblock
      PROVE  /\ Within(mblock[i], RankInfo[mblock[i].rank])
             /\ \A j \in Records : Pages(mblock[i]) \cap Pages(reserved[j]) = {}
             /\ Pages(mblock[i]) \cap Pages(Protected) = {}
  <2>1. Pages(mblock[i]) \subseteq PagesOf(mblock, n)
    BY <1>1 DEF PagesOf, PagesAt
  <2>2. \A j \in Records : Pages(reserved[j]) \subseteq PagesOf(reserved, m)
    BY <1>1 DEF PagesOf, PagesAt
  <2>3. \A j \in Records : Pages(mblock[i]) \cap Pages(reserved[j]) = {}
    BY <2>1, <2>2, <1>2
  <2>4. 1 \in Records
    BY <1>1
  <2>5. Pages(mblock[i]) \cap Pages(Protected) = {}
    BY <2>3, <2>4, <1>2
  <2>6. Within(mblock[i], RankInfo[mblock[i].rank])
    BY <1>1 DEF MapInv, BlocksOk, InRanks
  <2>7. QED BY <2>3, <2>5, <2>6
<1>8. ASSUME NEW i \in (1 .. ReservedMax) \ Records PROVE reserved[i] = Empty
  <2>1. i \in reservedNum + 1 .. ReservedMax
    BY <1>1
  <2>2. QED BY <2>1 DEF MapInv, RecordsOk
<1>9. QED
  BY <1>4, <1>5, <1>6, <1>7, <1>8 DEF MapTiled

\* The room a reservation could have.
MapRoom(size, align, limit) ==
    {a \in Dram : /\ a % align = 0 /\ a + size <= limit
                  /\ \E i \in DOMAIN mblock : Within(Area(a, size), mblock[i])}

\* No room is higher than where the target puts the reservation.
LEMMA HighestFacts ==
    ASSUME BlocksOk(mblock), NEW size \in ReserveSizes, NEW align \in Aligns, NEW limit \in Limits,
           NEW i \in 1 .. Len(mblock), NEW a \in Nat, a % align = 0, a + size <= limit,
           mblock[i].start <= a, a + size <= End(mblock[i])
    PROVE  /\ Serving(size, align, limit) # {}
           /\ a <= Address(mblock[Target(size, align, limit)], size, align, limit)
<1>1. i \in Serving(size, align, limit) /\ a <= Address(mblock[i], size, align, limit)
  BY ServingFacts
<1>2. PICK t \in Serving(size, align, limit) : t = Target(size, align, limit) /\ End(mblock[i]) <= End(mblock[t])
  BY <1>1, TargetFacts
<1>3. PICK b \in Nat : /\ b = Address(mblock[t], size, align, limit) /\ t \in 1 .. Len(mblock)
                       /\ mblock[t].start <= b
  BY AddressFacts
<1>4. PICK si \in Nat, zi \in Nat : si = mblock[i].start /\ End(mblock[i]) = si + zi
  BY MapBlockFacts
<1>5. PICK st \in Nat, zt \in Nat : st = mblock[t].start /\ End(mblock[t]) = st + zt
  BY <1>3, MapBlockFacts
<1>6. size \in Nat \ {0}
  BY DramAssumption
<1>7. CASE t = i
  BY <1>1, <1>2, <1>7
<1>8. CASE t # i
  <2>1. PagesAt(mblock, i) \cap PagesAt(mblock, t) = {}
    BY <1>3, <1>8 DEF BlocksOk, Apart
  <2>2. PagesAt(mblock, i) = si .. (si + zi) - 1 /\ PagesAt(mblock, t) = st .. (st + zt) - 1
    BY <1>4, <1>5 DEF PagesAt, Pages
  <2>3. si <= a /\ a + size <= si + zi /\ si + zi <= st + zt
    BY <1>2, <1>4, <1>5
  <2>4. (si + zi) - 1 \in PagesAt(mblock, i)
    BY <2>2, <2>3, <1>6
  <2>5. ~(st <= (si + zi) - 1)
    <3> SUFFICES ASSUME st <= (si + zi) - 1 PROVE FALSE
      OBVIOUS
    <3>1. (si + zi) - 1 \in st .. (st + zt) - 1
      BY <2>3
    <3>2. QED BY <3>1, <2>1, <2>2, <2>4
  <2>6. a <= st
    BY <2>3, <2>5, <1>6
  <2>7. a <= b
    BY <2>6, <1>3, <1>5
  <2>8. QED BY <2>7, <1>1, <1>2, <1>3
<1>9. QED
  BY <1>7, <1>8

\* A reservation gets the highest room, and is refused only if there is none.
LEMMA HighFacts ==
    ASSUME MapInv
    PROVE  AsHighAsPossible
<1> SUFFICES ASSUME NEW size \in ReserveSizes, NEW align \in Aligns, NEW limit \in Limits
             PROVE  IF MapRoom(size, align, limit) = {} THEN Serving(size, align, limit) = {}
                    ELSE /\ Serving(size, align, limit) # {}
                         /\ Address(mblock[Target(size, align, limit)], size, align, limit) \in MapRoom(size, align, limit)
                         /\ \A a \in MapRoom(size, align, limit) :
                                a <= Address(mblock[Target(size, align, limit)], size, align, limit)
  BY DEF AsHighAsPossible, MapRoom
<1>1. BlocksOk(mblock) /\ DOMAIN mblock = 1 .. Len(mblock)
  BY DEF MapInv, BlocksOk
<1>2. size \in Nat \ {0}
  BY DramAssumption
<1>3. ASSUME NEW i \in Serving(size, align, limit)
      PROVE  Address(mblock[i], size, align, limit) \in MapRoom(size, align, limit)
  <2>1. PICK b \in Nat : /\ b = Address(mblock[i], size, align, limit) /\ i \in 1 .. Len(mblock)
                         /\ b % align = 0 /\ b + size <= limit
                         /\ mblock[i].start <= b /\ b + size <= End(mblock[i])
    BY <1>1, AddressFacts
  <2>2. PICK s \in Nat, z \in Nat : s = mblock[i].start /\ End(mblock[i]) = s + z
    BY <2>1, <1>1, MapBlockFacts
  <2>3. b \in Pages(mblock[i])
    BY <2>1, <2>2, <1>2 DEF Pages
  <2>4. b \in PagesOf(mblock, Len(mblock))
    BY <2>1, <2>3 DEF PagesOf, PagesAt
  <2>5. b \in Dram
    BY <2>4 DEF MapInv
  <2>6. Within(Area(b, size), mblock[i])
    BY <2>1 DEF Within, Area, End
  <2>7. QED BY <2>1, <2>5, <2>6, <1>1 DEF MapRoom
<1>4. ASSUME NEW a \in MapRoom(size, align, limit)
      PROVE  /\ Serving(size, align, limit) # {}
             /\ a <= Address(mblock[Target(size, align, limit)], size, align, limit)
  <2>1. a \in Dram /\ a % align = 0 /\ a + size <= limit
    BY DEF MapRoom
  <2>2. PICK i \in 1 .. Len(mblock) : Within(Area(a, size), mblock[i])
    BY <1>1 DEF MapRoom
  <2>3. mblock[i].start <= a /\ a + size <= End(mblock[i])
    BY <2>2 DEF Within, Area, End
  <2>4. a \in Nat
    <3>1. PICK k \in DOMAIN RankInfo : a \in Pages(RankInfo[k])
      BY <2>1 DEF Dram
    <3>2. RankInfo[k].start \in Nat /\ RankInfo[k].size \in Nat
      BY DramFacts
    <3>3. QED BY <3>1, <3>2 DEF Pages, End
  <2>5. QED BY <2>1, <2>3, <2>4, <1>1, HighestFacts
<1>5. CASE MapRoom(size, align, limit) = {}
  BY <1>3, <1>5
<1>6. CASE MapRoom(size, align, limit) # {}
  <2>1. Serving(size, align, limit) # {}
    BY <1>4, <1>6
  <2>2. Target(size, align, limit) \in Serving(size, align, limit)
    BY <2>1, <1>1, TargetFacts
  <2>3. Address(mblock[Target(size, align, limit)], size, align, limit) \in MapRoom(size, align, limit)
    BY <2>2, <1>3
  <2>4. QED BY <2>1, <2>3, <1>4, <1>6
<1>7. QED
  BY <1>5, <1>6

\* The map of the DRAM that the loader hands to the kernel is whole after any calls that find
\* room in its two tables, and every reservation is as high as it can be.  The code does not keep
\* calls from full tables (mblock_v2.c:232-233).
THEOREM MapKept == MblockSpec => []MapSound
<1>1. MapInv => MapSound
  BY TiledFacts, HighFacts DEF MapSound
<1>2. QED
  BY <1>1, MapInvHolds, PTL

=============================================================================
