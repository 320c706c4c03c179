-------------------------------- MODULE Heap --------------------------------
(***************************************************************************)
(* The heap of lib/heap/heap.c.  A free chunk is an address and a length;  *)
(* the free list is a sequence of them, which the code keeps in the order  *)
(* of the addresses and never searches in another.  A block is a chunk     *)
(* taken off the list: its pointer lies somewhere inside, behind a header  *)
(* that has the chunk's address and length.  Every operation changes the   *)
(* list in one critical section, so they are atomic.                       *)
(*                                                                         *)
(* The sizes asked for are far below 2^32: the sums of heap_alloc do not   *)
(* overflow.                                                               *)
(***************************************************************************)
EXTENDS Integers, Sequences, FiniteSets, SequencesExt

CONSTANTS
    HeapBase, HeapLen,
    Pointer,        \* sizeof(void *)
    AllocStruct,    \* sizeof(struct alloc_struct_begin)
    FreeChunk,      \* sizeof(struct free_heap_chunk)
    MinAlign,       \* the least alignment, if one is asked for
    Sizes, Alignments

ASSUME HeapAssumption ==
    /\ HeapBase \in Nat /\ HeapLen \in Nat \ {0}
    /\ Pointer \in Nat \ {0} /\ AllocStruct \in Nat \ {0} /\ FreeChunk \in Nat \ {0}
    /\ \A n \in {HeapBase, HeapLen, AllocStruct, FreeChunk, MinAlign} : n % Pointer = 0
    /\ MinAlign \in Nat \ {0} /\ Sizes \subseteq Nat /\ Alignments \subseteq Nat
    \* The alignments are powers of two, and so one divides the other.
    /\ \A a \in Alignments \ {0} : IF a < MinAlign THEN MinAlign % a = 0 ELSE a % MinAlign = 0

VARIABLES
    freeList,       \* theheap.free_list
    blocks          \* the allocations: [ptr, asked, align, at, len], the last two in the header

heapVars == <<freeList, blocks>>

Chunk(at, len) == [at |-> at, len |-> len]

HeapInit ==
    /\ freeList = <<Chunk(HeapBase, HeapLen)>>
    /\ blocks = {}

RoundUp(n, to) == ((n + to - 1) \div to) * to

Larger(m, n) == IF m > n THEN m ELSE n

\* Mutant: it is not merged with the next chunk.
InsertFreeChunkLastOnly(list, c) ==
    LET k == Cardinality({i \in DOMAIN list : \A j \in 1 .. i : list[j].at <= c.at})
        joinsLast == k > 0 /\ list[k].at + list[k].len = c.at
        grown == IF joinsLast THEN Chunk(list[k].at, list[k].len + c.len) ELSE c
    IN  SubSeq(list, 1, IF joinsLast THEN k - 1 ELSE k) \o <<grown>> \o SubSeq(list, k + 1, Len(list))

\* heap_insert_free_chunk: before the first chunk of a higher address, merged with the
\* one before it and with that one.
InsertFreeChunk(list, c) ==
    LET k == Cardinality({i \in DOMAIN list : \A j \in 1 .. i : list[j].at <= c.at})
        joinsLast == k > 0 /\ list[k].at + list[k].len = c.at
        grown == IF joinsLast THEN Chunk(list[k].at, list[k].len + c.len) ELSE c
        joinsNext == k < Len(list) /\ grown.at + grown.len = list[k + 1].at
        merged == IF joinsNext THEN Chunk(grown.at, grown.len + list[k + 1].len) ELSE grown
    IN  SubSeq(list, 1, IF joinsLast THEN k - 1 ELSE k)
            \o <<merged>>
            \o SubSeq(list, IF joinsNext THEN k + 2 ELSE k + 1, Len(list))

\* The alignment heap_alloc uses.
Alignment(align) == IF align = 0 THEN 0 ELSE Larger(align, MinAlign)

\* The length heap_alloc looks for.
Needed(size, align) ==
    RoundUp(Larger(size + AllocStruct, FreeChunk), Pointer) + Alignment(align)

\* The chunks of the list that are long enough.
Fitting(list, size, align) == {i \in DOMAIN list : list[i].len >= Needed(size, align)}

\* The first of them.
FirstFit(list, size, align) ==
    CHOOSE i \in Fitting(list, size, align) : \A j \in Fitting(list, size, align) : i <= j

\* Whether what is left makes a chunk of its own.
Splits(c, need) == c.len > need + FreeChunk

\* The block heap_alloc makes of the first fit.
BlockOf(list, size, align) ==
    LET c == list[FirstFit(list, size, align)]
        need == Needed(size, align)
        start == c.at + AllocStruct
    IN  [ptr |-> IF align = 0 THEN start ELSE RoundUp(start, Alignment(align)),
         asked |-> size,
         align |-> align,
         at |-> c.at,
         len |-> IF Splits(c, need) THEN need ELSE c.len]

\* The list after that: what is left is put where the chunk was.
ListAfter(list, size, align) ==
    LET i == FirstFit(list, size, align)
        need == Needed(size, align)
    IN  IF Splits(list[i], need)
        THEN ReplaceAt(list, i, Chunk(list[i].at + need, list[i].len - need))
        ELSE RemoveAt(list, i)

\* heap_alloc; with no chunk long enough it returns NULL.
HeapAlloc(size, align) ==
    /\ Fitting(freeList, size, align) # {}
    /\ blocks' = blocks \cup {BlockOf(freeList, size, align)}
    /\ freeList' = ListAfter(freeList, size, align)

\* heap_free
HeapFree(b) ==
    /\ freeList' = InsertFreeChunk(freeList, Chunk(b.at, b.len))
    /\ blocks' = blocks \ {b}

\* heap_realloc: a new block, without alignment, then the old one is freed; size 0 frees
\* it, and if no block is to be had the old one stays.
HeapRealloc(b, size) ==
    \/ /\ size # 0 /\ Fitting(freeList, size, 0) # {}
       /\ blocks' = (blocks \ {b}) \cup {BlockOf(freeList, size, 0)}
       /\ freeList' = InsertFreeChunk(ListAfter(freeList, size, 0), Chunk(b.at, b.len))
    \/ size = 0 /\ HeapFree(b)

HeapNext ==
    \/ \E size \in Sizes, align \in Alignments : HeapAlloc(size, align)
    \/ \E b \in blocks : HeapFree(b)
    \/ \E b \in blocks, size \in Sizes : HeapRealloc(b, size)

HeapSpec == HeapInit /\ [][HeapNext]_heapVars

---------------------------------------------------------------------------
(* Properties *)

Span(c) == c.at .. c.at + c.len - 1

\* Through any order of allocations and frees the free chunks and the blocks' chunks are
\* the heap, every byte of it once; the list is in the order of the addresses, and no two
\* chunks on it touch, so that what is freed can be had again in one piece (heap.c:160).
HeapTiled ==
    /\ \A i, j \in DOMAIN freeList : i < j => freeList[i].at + freeList[i].len < freeList[j].at
    /\ \A b \in blocks, c \in blocks : b # c => Span(b) \cap Span(c) = {}
    /\ \A b \in blocks, i \in DOMAIN freeList : Span(b) \cap Span(freeList[i]) = {}
    /\ HeapBase .. HeapBase + HeapLen - 1 =
           UNION ({Span(b) : b \in blocks} \cup {Span(freeList[i]) : i \in DOMAIN freeList})

\* A block's bytes and the header before them lie in its chunk, however the pointer was
\* moved to align it, and the chunk is long enough to go back to the list (heap.c:252).
BlocksFit ==
    \A b \in blocks :
        /\ b.at + AllocStruct <= b.ptr
        /\ b.ptr + b.asked <= b.at + b.len
        /\ b.align # 0 => b.ptr % b.align = 0
        /\ b.len >= FreeChunk /\ b.at % Pointer = 0

\* The heap is whole, and what it gave out lies in it.
HeapSound == HeapTiled /\ BlocksFit
=============================================================================
