------------------------------ MODULE BlockDev ------------------------------
(***************************************************************************)
(* The adapter between byte ranges and blocks,                             *)
(* combo_emmc_ufs_generic_inter.c: every partition read and write goes     *)
(* through it.  A range is handled in three parts: the first block, if the *)
(* range begins inside it, the whole blocks, and the last block, if the    *)
(* range ends inside it.  The first and the last go through mt_part_buf,   *)
(* which all callers share under g_part_lock; the whole ones straight from *)
(* the caller's buffer, or, if that is not aligned, in pieces through an   *)
(* allocated buffer as long as memory allows.                              *)
(*                                                                         *)
(* The driver and the heap are external: a transfer of blocks may fail, a  *)
(* write that fails may have written some of them, and memalign may not    *)
(* find the memory.                                                        *)
(***************************************************************************)
EXTENDS Integers, Sequences, FiniteSets

CONSTANTS
    Callers,        \* threads, of one request each
    Requests,       \* the requests they may make
    BlockSize,      \* blksz
    DeviceSize      \* bytes of the device

Nobody == "nobody"

ASSUME BlockDevAssumption ==
    /\ Nobody \notin Callers
    /\ BlockSize \in Nat \ {0}
    /\ DeviceSize \in Nat
    /\ \A r \in Requests : /\ r.op \in {"read", "write"} /\ r.aligned \in BOOLEAN
                           /\ r.at \in Nat /\ r.size \in Nat \ {0} /\ r.at + r.size <= DeviceSize

VARIABLES
    device,         \* address -> the byte there: <<caller, index in its buffer>>, Erased at first
    partBuf,        \* mt_part_buf, a block
    partBufFreed,   \* it was given to free()
    partLock,       \* g_part_lock: its holder, or Nobody
    job,            \* caller -> its request and how far it is
    got,            \* caller -> the buffer it reads to
    meant           \* history: address -> what the requests done so far mean it to be

deviceVars == <<device, partBuf, partBufFreed>>
blockVars == <<deviceVars, partLock, job, got, meant>>

Erased == <<"erased">>
Anything == <<"any">>

Addresses == 0 .. DeviceSize - 1

Job(r, step) ==
    [request |-> r, step |-> step, pos |-> 0, left |-> 0, piece |-> 0, rest |-> FALSE]

BlockDevInit ==
    /\ device = [a \in Addresses |-> Erased]
    /\ partBuf = [k \in 0 .. BlockSize - 1 |-> Erased]
    /\ partBufFreed = FALSE
    /\ partLock = Nobody
    /\ \E req \in [Callers -> Requests] : job = [c \in Callers |-> Job(req[c], "start")]
    /\ got = [c \in Callers |-> <<>>]
    /\ meant = device

---------------------------------------------------------------------------

At(c) == job[c].request.at
Size(c) == job[c].request.size
Writes(c) == job[c].request.op = "write"

\* src or dst, which moves on with the parts.
Position(c) == At(c) + job[c].pos
RangeEnd(c) == At(c) + Size(c)

\* aligned_start, aligned_end
Aligned(a) == a - (a % BlockSize)

Shorter(m, n) == IF m < n THEN m ELSE n

\* part_len of the first block.
HeadLength(c) == Shorter(BlockSize - (At(c) % BlockSize), Size(c))

\* Mutant: dst < end is not looked at.
TailWantedAlways(c) == RangeEnd(c) % BlockSize # 0

TailWanted(c) == RangeEnd(c) % BlockSize # 0 /\ Position(c) < RangeEnd(c)

\* blkcnt
WholeBlocks(c) == (Aligned(RangeEnd(c)) - Aligned(Position(c))) \div BlockSize

GoTo(c, step) == job' = [job EXCEPT ![c].step = step]

\* n bytes of c's buffer from index k on go to address a: what the device then holds.
Stored(c, a, k, n) ==
    [b \in Addresses |-> IF b \in a .. a + n - 1 THEN <<c, k + b - a>> ELSE device[b]]

\* n bytes of source from address a on come to index k of c's buffer.
Fetched(c, source, a, k, n) ==
    [i \in (DOMAIN got[c]) \cup (k .. k + n - 1) |-> IF i \in k .. k + n - 1 THEN source[a + i - k] ELSE got[c][i]]

Step(c, step) == partLock = c /\ job[c].step = step /\ ~partBufFreed

\* mutex_acquire
Acquire(c) ==
    /\ job[c].step = "start" /\ partLock = Nobody /\ ~partBufFreed
    /\ partLock' = c
    /\ GoTo(c, IF At(c) % BlockSize # 0 THEN "head" ELSE "middle")
    /\ UNCHANGED <<deviceVars, got, meant>>

\* block_read of the block where the range begins, or ends, to mt_part_buf.
ReadBlock(c, step, next) ==
    /\ Step(c, step)
    /\ LET from == Aligned(IF step = "head" THEN At(c) ELSE RangeEnd(c))
       IN  partBuf' = [k \in DOMAIN partBuf |-> device[from + k]]
    /\ GoTo(c, next)
    /\ UNCHANGED <<device, partBufFreed, partLock, got, meant>>

\* The block in mt_part_buf, with n bytes of the caller's from index k on at its place p,
\* is written back; it reaches the device if the driver can write it.
WriteBack(c, block, p, k, n, reaches) ==
    LET merged == [j \in DOMAIN partBuf |-> IF j \in p .. p + n - 1 THEN <<c, k + j - p>> ELSE partBuf[j]]
    IN  /\ partBuf' = merged
        /\ device' = [a \in Addresses |->
                        IF reaches /\ Aligned(a) = block THEN merged[a - block] ELSE device[a]]

WriteHead(c, reaches) == WriteBack(c, Aligned(At(c)), At(c) % BlockSize, 0, HeadLength(c), reaches)
WriteTail(c, reaches) == WriteBack(c, Aligned(RangeEnd(c)), 0, job[c].pos, RangeEnd(c) % BlockSize, reaches)

HeadDone(c) ==
    /\ Step(c, "headDone")
    /\ IF Writes(c)
       THEN WriteHead(c, TRUE) /\ UNCHANGED got
       ELSE /\ got' = [got EXCEPT ![c] = Fetched(c, partBuf, At(c) % BlockSize, 0, HeadLength(c))]
            /\ UNCHANGED <<device, partBuf>>
    /\ job' = [job EXCEPT ![c].pos = HeadLength(c), ![c].step = "middle"]
    /\ UNCHANGED <<partBufFreed, partLock, meant>>

AfterMiddle(c) == IF TailWanted(c) THEN "tail" ELSE "release"

\* The lengths mt_part_alloc_buffer_align tries for n blocks: each half of the one before.
Halvings(n) == {m \in 1 .. n : \E i \in 0 .. n : m = n \div (2 ^ i)}

\* Whole blocks, if any, in one piece, or in pieces of what could be allocated; with no
\* memory at all it is mt_part_buf, one block long.
Middle(c) ==
    /\ Step(c, "middle")
    /\ LET n == WholeBlocks(c)
       IN  IF n = 0
           THEN GoTo(c, AfterMiddle(c))
           ELSE \E piece \in IF job[c].request.aligned THEN {n} ELSE Halvings(n) :
                    job' = [job EXCEPT ![c].left = n, ![c].piece = piece, ![c].step = "pieces"]
    /\ UNCHANGED <<deviceVars, partLock, got, meant>>

\* The whole blocks go through mt_part_buf, and it is freed in the end.  What uses it after
\* that is undefined, and not followed.
MiddleFrees(c) ==
    /\ Step(c, "middle")
    /\ ~job[c].request.aligned /\ WholeBlocks(c) > 0
    /\ partBufFreed' = TRUE
    /\ UNCHANGED <<device, partBuf, partLock, job, got, meant>>

\* A piece, or at last the rest, shorter than a piece: after that one src and dst stay
\* where they are, as blkcnt is set to 0 before it is added to them.
Piece(c) ==
    /\ Step(c, "pieces") /\ job[c].left > 0
    /\ LET whole == job[c].left >= job[c].piece
           n == BlockSize * Shorter(job[c].left, job[c].piece)
       IN  /\ IF Writes(c)
              THEN device' = Stored(c, Aligned(Position(c)), job[c].pos, n) /\ UNCHANGED got
              ELSE /\ got' = [got EXCEPT ![c] = Fetched(c, device, Aligned(Position(c)), job[c].pos, n)]
                   /\ UNCHANGED device
           /\ job' = [job EXCEPT ![c].left = IF whole THEN @ - job[c].piece ELSE 0,
                                 ![c].pos = IF whole THEN @ + n ELSE @,
                                 ![c].rest = ~whole]
    /\ UNCHANGED <<partBuf, partBufFreed, partLock, meant>>

PiecesDone(c) ==
    /\ Step(c, "pieces") /\ job[c].left = 0
    /\ GoTo(c, AfterMiddle(c))
    /\ UNCHANGED <<deviceVars, partLock, got, meant>>

TailDone(c) ==
    /\ Step(c, "tailDone")
    /\ IF Writes(c)
       THEN WriteTail(c, TRUE) /\ UNCHANGED got
       ELSE /\ got' = [got EXCEPT ![c] = Fetched(c, partBuf, 0, job[c].pos, RangeEnd(c) % BlockSize)]
            /\ UNCHANGED <<device, partBuf>>
    /\ GoTo(c, "release")
    /\ UNCHANGED <<partBufFreed, partLock, meant>>

\* How many bytes of a request that ended well are right.  After the rest, the last of the whole
\* blocks that go through the allocated buffer, the code sets blkcnt to 0 before it moves src and
\* dst by it (153-155, 263-265), so that both stay.  If part of a block follows, a write takes it
\* from the wrong place, and a read puts it over the rest; size is returned all the same.
Sure(c) ==
    IF ~job[c].rest \/ RangeEnd(c) % BlockSize = 0 THEN Size(c)
    ELSE IF Writes(c) THEN Aligned(RangeEnd(c)) - At(c)
    ELSE job[c].pos

\* mutex_release, and size is returned.
Release(c) ==
    /\ Step(c, "release")
    /\ partLock' = Nobody
    /\ GoTo(c, "done")
    /\ meant' = IF ~Writes(c) THEN meant
                ELSE [a \in Addresses |->
                        IF a \in At(c) .. At(c) + Sure(c) - 1 THEN <<c, a - At(c)>>
                        ELSE IF a \in At(c) .. RangeEnd(c) - 1 THEN Anything
                        ELSE meant[a]]
    /\ UNCHANGED <<deviceVars, got>>

\* The lock is released, and -EIO returned: what a write was to store is anyone's guess.
GiveUp(c) ==
    /\ partLock' = Nobody
    /\ GoTo(c, "failed")
    /\ meant' = IF ~Writes(c) THEN meant
                ELSE [a \in Addresses |-> IF a \in At(c) .. RangeEnd(c) - 1 THEN Anything ELSE meant[a]]
    /\ UNCHANGED <<partBufFreed, got>>

\* A block is not read, or not all of a piece is read or written: n blocks have been.
Fails(c, n) ==
    /\ \/ (Step(c, "head") \/ Step(c, "tail")) /\ n = 0
       \/ /\ Step(c, "pieces") /\ n < Shorter(job[c].left, job[c].piece)
          /\ n > 0 => Writes(c)
    /\ device' = IF n = 0 THEN device ELSE Stored(c, Aligned(Position(c)), job[c].pos, n * BlockSize)
    /\ UNCHANGED partBuf
    /\ GiveUp(c)

\* The driver reports that it could not write mt_part_buf back, whether it reached the
\* device or not.
WriteBackFails(c, reaches) ==
    /\ Writes(c)
    /\ \/ Step(c, "headDone") /\ WriteHead(c, reaches)
       \/ Step(c, "tailDone") /\ WriteTail(c, reaches)
    /\ GiveUp(c)

BlockDevNext ==
    \E c \in Callers :
        \/ Acquire(c)
        \/ ReadBlock(c, "head", "headDone")
        \/ HeadDone(c)
        \/ Middle(c)
        \/ MiddleFrees(c)
        \/ Piece(c)
        \/ PiecesDone(c)
        \/ ReadBlock(c, "tail", "tailDone")
        \/ TailDone(c)
        \/ Release(c)
        \/ \E n \in 0 .. DeviceSize : Fails(c, n)
        \/ \E reaches \in BOOLEAN : WriteBackFails(c, reaches)

BlockDevSpec == BlockDevInit /\ [][BlockDevNext]_blockVars

---------------------------------------------------------------------------
(* Properties *)

\* Requests take effect one after the other, each as a whole: between them every byte is
\* the one the last successful write of its address meant, so that a write inside a block
\* keeps its neighbours, whoever writes them and wherever the range begins and ends
\* (combo_emmc_ufs_generic_inter.c:205, 274); a write that failed changed no byte outside
\* its range; and a read returns what was there.  Excepted is what Sure leaves out, the part of a
\* block behind a rest, which the code gets wrong though it reports success: of it the property
\* says nothing, neither of the bytes on the device after such a write nor of those such a read
\* returns from the rest on.
BytesExact ==
    /\ partLock = Nobody => \A a \in Addresses : meant[a] \in {Anything, device[a]}
    /\ \A c \in Callers :
        Step(c, "release") /\ ~Writes(c) =>
            \A k \in 0 .. Sure(c) - 1 : k \in DOMAIN got[c] /\ got[c][k] = device[At(c) + k]
=============================================================================
