------------------------------- MODULE Mblock -------------------------------
(***************************************************************************)
(* The map of the DRAM of lib/mblock/mblock_v2.c, which the preloader      *)
(* makes and the kernel gets: the free blocks, sorted, and the records of  *)
(* what is reserved, unsorted.  An image is loaded to memory reserved      *)
(* first; what is not needed is given back, whole or in part.              *)
(*                                                                         *)
(* The I/O thread and bootstrap2 both call this, but never at the same     *)
(* time (IoThread), so that every call is one action.  Addresses are in    *)
(* units of 4 KB pages, to which callers align them.                       *)
(***************************************************************************)
EXTENDS Integers, Sequences, FiniteSets, SequencesExt, FiniteSetsExt

CONSTANTS
    RankInfo,       \* orig_dram_info: a sequence of ranges, ascending
    Protected,      \* lca_reserved_mem or tee_reserved_mem: a range
    ReservedMax,    \* MBLOCK_RESERVED_NUM_MAX, the length of reserved[]
    BlockMax,       \* MBLOCK_NUM_MAX; the model keeps to both, the code to neither (232-233)
    ReserveSizes, Aligns, Limits

Area(start, size) == [start |-> start, size |-> size]

Empty == Area(0, 0)

End(r) == r.start + r.size

Pages(r) == r.start .. End(r) - 1

Within(r, s) == s.start <= r.start /\ End(r) <= End(s)

ASSUME DramAssumption ==
    /\ RankInfo \in Seq([start : Nat \ {0}, size : Nat \ {0}])
    /\ \A i, j \in DOMAIN RankInfo : i < j => End(RankInfo[i]) <= RankInfo[j].start
    /\ Protected \in [start : Nat, size : Nat \ {0}]
    /\ \E i \in DOMAIN RankInfo : Within(Protected, RankInfo[i])
    /\ ReservedMax \in Nat \ {0} /\ BlockMax \in Nat \ {0}
    /\ Aligns \subseteq Nat \ {0} /\ Limits \subseteq Nat
    \* The subtraction of a size from an address does not wrap: DRAM begins at 1 GB.
    /\ \A n \in ReserveSizes : n \in Nat \ {0} /\ n <= RankInfo[1].start

VARIABLES
    mblock,         \* the first mblock_num blocks: [start, size, rank]
    reserved,       \* the array reserved[]
    reservedNum

mblockVars == <<mblock, reserved, reservedNum>>

Block(start, size, rank) == [start |-> start, size |-> size, rank |-> rank]

Records == 1 .. reservedNum

Lower(m, n) == IF m < n THEN m ELSE n

\* What is left of block b without the area taken.
Remains(b, taken) ==
    IF taken.start = b.start
    THEN <<Block(End(taken), b.size - taken.size, b.rank)>>
    ELSE IF End(taken) = End(b)
    THEN <<Block(b.start, taken.start - b.start, b.rank)>>
    ELSE <<Block(b.start, taken.start - b.start, b.rank), Block(End(taken), End(b) - End(taken), b.rank)>>

\* The blocks of a list when the area taken is no longer in block t.
WithoutArea(list, t, taken) ==
    SubSeq(list, 1, t - 1) \o Remains(list[t], taken) \o SubSeq(list, t + 1, Len(list))

\* What a rank is for a range.
RankOf(r) == CHOOSE k \in DOMAIN RankInfo : Within(r, RankInfo[k])

\* What the preloader leaves: the ranks are free but for the protected memory, which it
\* reserved.
MblockInit ==
    /\ LET whole == [k \in DOMAIN RankInfo |-> Block(RankInfo[k].start, RankInfo[k].size, k)]
       IN  mblock = WithoutArea(whole, RankOf(Protected), Protected)
    /\ reserved = [i \in 1 .. ReservedMax |-> IF i = 1 THEN Protected ELSE Empty]
    /\ reservedNum = 1

---------------------------------------------------------------------------
(* mblock_reserve_ext *)

\* reserved_addr: the highest in block b.
Address(b, size, align, limit) ==
    LET top == Lower(limit, End(b)) - size
    IN  top - (top % align)

\* The blocks that can serve it.
Serving(size, align, limit) ==
    {i \in DOMAIN mblock :
        /\ size <= mblock[i].size /\ limit > mblock[i].start /\ End(mblock[i]) > mblock[i].start
        /\ LET addr == Address(mblock[i], size, align, limit)
           IN  addr >= mblock[i].start /\ addr + size <= limit}

\* target: the block that ends highest, the first of these.
Target(size, align, limit) ==
    CHOOSE i \in Serving(size, align, limit) :
        \A j \in Serving(size, align, limit) :
            \/ End(mblock[i]) > End(mblock[j])
            \/ End(mblock[i]) = End(mblock[j]) /\ i <= j

\* A reservation that has a name, as all have, is never refused because the arrays are
\* full: the condition is (full || name) ? strlen(name) >= .. : true.  The first two
\* conjuncts are the bound of the model.
Reserve(size, align, limit) ==
    /\ Len(mblock) < BlockMax /\ reservedNum < ReservedMax
    /\ reserved[reservedNum + 1].start = 0
    /\ Serving(size, align, limit) # {}
    /\ LET t == Target(size, align, limit)
           taken == Area(Address(mblock[t], size, align, limit), size)
       IN  /\ reserved' = [reserved EXCEPT ![reservedNum + 1] = taken]
           /\ mblock' = WithoutArea(mblock, t, taken)
    /\ reservedNum' = reservedNum + 1

---------------------------------------------------------------------------
(* mblock_create *)

InRank(r) == \E k \in DOMAIN RankInfo : Within(r, RankInfo[k])

\* The check of the protected memory: an end of the range lies in it.
MeetsProtected(r) ==
    \/ r.start >= Protected.start /\ r.start < End(Protected)
    \/ End(r) > Protected.start /\ End(r) < End(Protected)

MeetsFree(r) ==
    \E i \in DOMAIN mblock :
        \/ r.start >= mblock[i].start /\ r.start < End(mblock[i])
        \/ r.start < mblock[i].start /\ End(r) > mblock[i].start

\* The first record that has the range.
RecordOf(r) ==
    CHOOSE i \in Records : Within(r, reserved[i]) /\ \A j \in Records : Within(r, reserved[j]) => i <= j

\* Mutant: the last slot is not cleared after the shift, as in mblock_resize.
DropRecordKeepsLast(t) ==
    [i \in 1 .. ReservedMax |-> IF i \in t .. reservedNum - 1 THEN reserved[i + 1]
                                ELSE IF i = t THEN Empty ELSE reserved[i]]

\* The array without record t.
DropRecord(t) ==
    [i \in 1 .. ReservedMax |-> IF i \in t .. reservedNum - 1 THEN reserved[i + 1]
                                ELSE IF i = reservedNum THEN Empty ELSE reserved[i]]

\* The array with record t cut in two around r.
SplitRecord(t, r) ==
    [i \in 1 .. ReservedMax |->
        CASE i = t -> Area(reserved[t].start, r.start - reserved[t].start)
          [] i = t + 1 -> Area(End(r), End(reserved[t]) - End(r))
          [] i \in t + 2 .. reservedNum + 1 -> reserved[i - 1]
          [] OTHER -> reserved[i]]

\* Take the range out of its record: whole, from one end, or from the middle.
TakeFromRecord(t, r) ==
    \/ /\ r = reserved[t]
       /\ reserved' = DropRecord(t)
       /\ reservedNum' = reservedNum - 1
    \/ /\ r # reserved[t] /\ r.start = reserved[t].start
       /\ reserved' = [reserved EXCEPT ![t] = Area(End(r), reserved[t].size - r.size)]
       /\ UNCHANGED reservedNum
    \/ /\ r.start # reserved[t].start /\ End(r) = End(reserved[t])
       /\ reserved' = [reserved EXCEPT ![t].size = reserved[t].size - r.size]
       /\ UNCHANGED reservedNum
    \/ /\ r.start # reserved[t].start /\ End(r) # End(reserved[t])
       /\ reservedNum < ReservedMax
       /\ reserved' = SplitRecord(t, r)
       /\ reservedNum' = reservedNum + 1

\* The place of a new block in the sorted sequence.
InsertBlock(b) ==
    InsertAt(mblock, 1 + Cardinality({i \in DOMAIN mblock : \A j \in 1 .. i : mblock[j].start <= b.start}), b)

\* The blocks of the rank of r that end where it begins, or begin where it ends.
Left(r) == {i \in DOMAIN mblock : mblock[i].rank = RankOf(r) /\ End(mblock[i]) = r.start}
Right(r) == {i \in DOMAIN mblock : mblock[i].rank = RankOf(r) /\ mblock[i].start = End(r)}

\* The last one found is the candidate.
LastOf(S) == CHOOSE i \in S : \A j \in S : j <= i

GrowRight(i, r) == [mblock EXCEPT ![i] = Block(r.start, @.size + r.size, @.rank)]
GrowLeft(i, r) == [mblock EXCEPT ![i].size = @ + r.size]

\* mblock_create: r joins one neighbour, the bigger of two, or becomes a block.
Join(r) ==
    IF Left(r) = {} /\ Right(r) = {} THEN InsertBlock(Block(r.start, r.size, RankOf(r)))
    ELSE IF Left(r) = {} THEN GrowRight(LastOf(Right(r)), r)
    ELSE IF Right(r) = {} THEN GrowLeft(LastOf(Left(r)), r)
    ELSE IF mblock[LastOf(Right(r))].size >= mblock[LastOf(Left(r))].size THEN GrowRight(LastOf(Right(r)), r)
    ELSE GrowLeft(LastOf(Left(r)), r)

Create(r) ==
    /\ ~MeetsProtected(r) /\ InRank(r) /\ ~MeetsFree(r)
    /\ \E i \in Records : Within(r, reserved[i])
    /\ Len(mblock) < BlockMax
    /\ TakeFromRecord(RecordOf(r), r)
    /\ mblock' = Join(r)

---------------------------------------------------------------------------
(* mblock_resize *)

\* Shrink a record to newsize pages.  The code would also drop one, but nobody asks it to:
\* callers use mblock_create for that.
Resize(t, newsize) ==
    LET back == Area(reserved[t].start + newsize, reserved[t].size - newsize)
        near == {i \in DOMAIN mblock : mblock[i].rank = RankOf(back)
                                       /\ (End(mblock[i]) = back.start \/ mblock[i].start = End(back))}
        first == CHOOSE i \in near : \A j \in near : i <= j
    IN  /\ 0 < newsize /\ newsize < reserved[t].size
        /\ InRank(back) /\ Len(mblock) < BlockMax
        /\ reserved' = [reserved EXCEPT ![t].size = newsize]
        /\ UNCHANGED reservedNum
        /\ mblock' = IF near = {} THEN InsertBlock(Block(back.start, back.size, RankOf(back)))
                     ELSE IF End(mblock[first]) = back.start THEN GrowLeft(first, back)
                     ELSE GrowRight(first, back)

---------------------------------------------------------------------------

MblockNext ==
    \/ \E size \in ReserveSizes, align \in Aligns, limit \in Limits : Reserve(size, align, limit)
    \/ \E t \in Records : \E start \in Pages(reserved[t]) : \E size \in 1 .. End(reserved[t]) - start :
            Create(Area(start, size))
    \/ \E t \in Records \ {1} : \E newsize \in 1 .. reserved[t].size - 1 : Resize(t, newsize)

MblockSpec == MblockInit /\ [][MblockNext]_mblockVars

---------------------------------------------------------------------------
(* Properties *)

Dram == UNION {Pages(RankInfo[k]) : k \in DOMAIN RankInfo}

\* Every page of the DRAM is in one block or in one record, and in no second one, through
\* any order of calls; the protected memory stays reserved; blocks lie in their ranks; no
\* stale record behind the last one makes a reservation fail (mblock_v2.c:277).
MapTiled ==
    /\ Dram = UNION ({Pages(mblock[i]) : i \in DOMAIN mblock} \cup {Pages(reserved[i]) : i \in Records})
    /\ \A i, j \in DOMAIN mblock : i # j => Pages(mblock[i]) \cap Pages(mblock[j]) = {}
    /\ \A i, j \in Records : i # j => Pages(reserved[i]) \cap Pages(reserved[j]) = {}
    /\ \A i \in DOMAIN mblock : /\ Within(mblock[i], RankInfo[mblock[i].rank])
                                /\ \A j \in Records : Pages(mblock[i]) \cap Pages(reserved[j]) = {}
                                /\ Pages(mblock[i]) \cap Pages(Protected) = {}
    /\ \A i \in (1 .. ReservedMax) \ Records : reserved[i] = Empty

\* A reservation gets as high an address as any block has below the limit, as the comment
\* on mblock_reserve_ext says (mblock_v2.c:220), and is refused only if no block has one.
AsHighAsPossible ==
    \A size \in ReserveSizes, align \in Aligns, limit \in Limits :
        LET possible == {a \in Dram : /\ a % align = 0 /\ a + size <= limit
                                      /\ \E i \in DOMAIN mblock : Within(Area(a, size), mblock[i])}
            target == mblock[Target(size, align, limit)]
        IN  IF possible = {} THEN Serving(size, align, limit) = {}
            ELSE /\ Serving(size, align, limit) # {}
                 /\ Address(target, size, align, limit) \in possible
                 /\ \A a \in possible : a <= Address(target, size, align, limit)

\* The map is whole, and reservations make the best of it, as long as neither table is full:
\* Reserve, Create and Resize keep to ReservedMax and BlockMax, which the code does not (the
\* tests at mblock_v2.c:232-233 do not, for the precedence of their operators, and the other two
\* look at neither).  A call on a full table writes behind its end.
MapSound == MapTiled /\ AsHighAsPossible

\* setup_mem_property_use_mblock_info tells the kernel of the memory from the lower of the
\* first block and the lowest record to the higher of the last block and the highest
\* record: "mblock is ordered, we can assum first mblock have the lowest value"
\* (mblock_v2.c:93).
MemoryNode ==
    [start |-> Min({mblock[1].start} \cup {reserved[i].start : i \in Records}),
     end |-> Max({End(mblock[Len(mblock)])} \cup {End(reserved[i]) : i \in Records})]

\* The kernel is told of all the DRAM.
NodeIsDram == MemoryNode = [start |-> Min(Dram), end |-> Max(Dram) + 1]
=============================================================================
