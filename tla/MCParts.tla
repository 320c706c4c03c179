------------------------------ MODULE MCParts ------------------------------
(***************************************************************************)
(* The components that stand alone, one moving in each behaviour: they     *)
(* share a run, and each is checked by itself.                             *)
(***************************************************************************)
EXTENDS SparseStream, FastbootUsb, TimerQueue, Heap, MCMblock, BlockDev, Env, LogStore, IoThread, Emmc

VARIABLE part       \* the component that moves

Parts == {"stream", "fastboot", "timers", "heap", "mblock", "blocks", "env", "log", "boot", "mmc"}

partsVars ==
    <<streamVars, fastbootVars, timerVars, heapVars, mblockVars, blockVars, envVars, logVars, bootVars, mmcVars>>

---------------------------------------------------------------------------
(* Values *)

MCSeqs(S, n) == UNION {[1 .. k -> S] : k \in 0 .. n}

\* Chunks shorter and longer than a page, a fill of more than one cache and one that ends
\* inside it; every cut of a page in every kind of chunk comes about.
MCChunks ==
    {[type |-> "raw", bytes |-> 8], [type |-> "raw", bytes |-> 28], [type |-> "fill", bytes |-> 12],
     [type |-> "skip", bytes |-> 8], [type |-> "crc", bytes |-> 0], [type |-> "other", bytes |-> 8]}

\* Whole images, some with bytes behind the last chunk, and images cut off.
MCImages ==
    [fileHeader : {4}, chunkHeader : {6}, chunks : MCSeqs(MCChunks, 2), sent : {2, 24, 46, 90}]
    \cup [fileHeader : {6}, chunkHeader : {6, 8}, chunks : MCSeqs(MCChunks, 2), sent : {90}]
    \cup [fileHeader : {4}, chunkHeader : {8}, chunks : [1 .. 3 -> {c \in MCChunks : c.type # "other"}],
          sent : {60, 90}]

MCRequest(op, from, length, aligned) == [op |-> op, at |-> from, size |-> length, aligned |-> aligned]

\* All three parts with five whole blocks between, which 5 \div 2 does not divide; inside one
\* block; up to its end; across two; and neighbours of these in one block.
MCRequests ==
    {MCRequest("read", 1, 18, FALSE), MCRequest("write", 1, 18, FALSE), MCRequest("read", 1, 18, TRUE),
     MCRequest("write", 1, 1, TRUE), MCRequest("write", 2, 1, TRUE), MCRequest("write", 4, 5, TRUE),
     MCRequest("write", 17, 2, TRUE)}

MCTransfer(op, hardware, first, count) == [op |-> op, part |-> hardware, first |-> first, count |-> count]

\* Of one transfer and of two, of one block and of several, from both partitions.
MCTransfers ==
    {MCTransfer("read", "user", 0, 3), MCTransfer("write", "boot1", 1, 2), MCTransfer("read", "user", 0, 1)}

\* While there is a log, an operation on the settings takes the place of so many characters, and
\* only switches on: so its interleavings with them can be enumerated.
ConfigCost == 3
LogBudget ==
    \/ logStatus \in {"full", "error"}
    \/ chars' + ConfigCost * configs' <= MaxChars /\ config'.sets.value # "off"

---------------------------------------------------------------------------

MCSmallImage == [fileHeader |-> 4, chunkHeader |-> 6, chunks |-> <<>>, sent |-> 2]

\* A component that does not move has one initial state.
PartsInit ==
    /\ part \in Parts
    /\ part = "stream" \/ (image = MCSmallImage /\ remain = 0)
    /\ part = "timers" \/ now = 0
    /\ part = "log" \/ szPl = 1
    /\ part = "blocks" \/ job = [c \in Callers |-> Job(MCRequest("write", 1, 1, TRUE), "start")]
    /\ StreamInit /\ FastbootInit /\ TimersInit /\ HeapInit /\ MblockInit
    /\ part = "mmc" \/ request = MCTransfer("read", "user", 0, 1)
    /\ BlockDevInit /\ EnvInit /\ LogInit /\ BootInit /\ MmcInit

PartsNext ==
    \/ /\ part = "stream" /\ StreamNext
       /\ UNCHANGED <<fastbootVars, timerVars, heapVars, mblockVars, blockVars, envVars, logVars, bootVars, mmcVars>>
    \/ /\ part = "fastboot" /\ FastbootNext
       /\ UNCHANGED <<streamVars, timerVars, heapVars, mblockVars, blockVars, envVars, logVars, bootVars, mmcVars>>
    \/ /\ part = "timers" /\ TimersNext
       /\ UNCHANGED <<streamVars, fastbootVars, heapVars, mblockVars, blockVars, envVars, logVars, bootVars, mmcVars>>
    \/ /\ part = "heap" /\ HeapNext
       /\ UNCHANGED <<streamVars, fastbootVars, timerVars, mblockVars, blockVars, envVars, logVars, bootVars, mmcVars>>
    \/ /\ part = "mblock" /\ MblockNext
       /\ UNCHANGED <<streamVars, fastbootVars, timerVars, heapVars, blockVars, envVars, logVars, bootVars, mmcVars>>
    \/ /\ part = "blocks" /\ BlockDevNext
       /\ UNCHANGED <<streamVars, fastbootVars, timerVars, heapVars, mblockVars, envVars, logVars, bootVars, mmcVars>>
    \/ /\ part = "env" /\ EnvNext
       /\ UNCHANGED <<streamVars, fastbootVars, timerVars, heapVars, mblockVars, blockVars, logVars, bootVars, mmcVars>>
    \/ /\ part = "log" /\ LogNext /\ LogBudget
       /\ UNCHANGED <<streamVars, fastbootVars, timerVars, heapVars, mblockVars, blockVars, envVars, bootVars, mmcVars>>
    \/ /\ part = "boot" /\ BootNext
       /\ UNCHANGED <<streamVars, fastbootVars, timerVars, heapVars, mblockVars, blockVars, envVars, logVars, mmcVars>>
    \/ /\ part = "mmc" /\ MmcNext
       /\ UNCHANGED <<streamVars, fastbootVars, timerVars, heapVars, mblockVars, blockVars, envVars, logVars, bootVars>>

\* The fairness of the component that moves.
PartsSpec ==
    /\ PartsInit /\ [][PartsNext /\ UNCHANGED part]_<<partsVars, part>>
    /\ WF_streamVars(part = "stream" /\ StreamNext)
    /\ WF_fastbootVars(part = "fastboot" /\ ThreadNext)
    /\ WF_timerVars(part = "timers" /\ TimePasses)
    /\ WF_timerVars(part = "timers" /\ TickBegins)
    /\ WF_timerVars(part = "timers" /\ TickStep)
    /\ SF_timerVars(part = "timers" /\ ThreadInserts)
    /\ WF_bootVars(part = "boot" /\ ThreadStep)
    /\ SF_bootVars(part = "boot" /\ Advance("io", "load", "loaded"))
    /\ WF_bootVars(part = "boot" /\ IoWakes)
    /\ WF_mmcVars(part = "mmc" /\ MmcStep)
    /\ WF_mmcVars(part = "mmc" /\ dma = "on" /\ DmaEnds)
    /\ WF_mmcVars(part = "mmc" /\ Interrupt)

\* The kernel is started in the end, if the bring-up is what moves.
PartsBoot == part = "boot" => BootGoesOn
=============================================================================
