--------------------------- MODULE ParallelDownload ---------------------------
(***************************************************************************)
(* The download engine of transfer_parallel.c: download_data reads the     *)
(* image from USB into one half of a double cache (the reader, the calling *)
(* thread) while write_storage_proc writes the other half to storage (the  *)
(* writer, a thread of its own).  Four auto-unsignalling events pass the   *)
(* halves to and fro, two more let the reader wait for the writer's end,   *)
(* and either side may fail at any time.                                   *)
(*                                                                         *)
(* A page is what one usb_read brings into a cache (SYSOB_CACHE_PAGE =     *)
(* SYSOB_BIG_CACHE); pages are numbered 1 .. pages.  Each event has one    *)
(* waiter, so event_wait is a step enabled by the flag that takes it down  *)
(* and event_signal is a step that puts it up (Kernel.tla has the kernel   *)
(* they rest on).  The engine is rebuilt for every download; the status of *)
(* the sparse and of the bulk path are static and are not.                 *)
(***************************************************************************)
EXTENDS Naturals

CONSTANTS
    Kinds,          \* the kinds of image downloaded, a subset of {"sparse", "bulk"}
    FaultyKinds,    \* those whose writes to storage may fail
    MaxPages,       \* bound: pages of an image
    MaxDownloads    \* bound: downloads in a behaviour

ASSUME DownloadAssumption ==
    /\ Kinds \subseteq {"sparse", "bulk"}
    /\ FaultyKinds \subseteq Kinds
    /\ MaxPages \in Nat
    /\ MaxDownloads \in Nat

VARIABLES
    rpc, wpc,           \* where the reader and the writer are
    rstop, wstop,       \* the signals of stop_engine each has given
    live,               \* the engine context exists
    cacheAvailable,     \* cache -> the event of that name
    contentAvailable,   \* cache -> the event of that name
    thrREnd, thrWEnd,   \* the events thrR_end_ev and thrW_end_ev
    flipR, flipW,       \* flipIdxR (the writer's cache), flipIdxW (the reader's)
    content,            \* cache -> the page in it
    length,             \* cache -> content_length is not 0
    padding,            \* cache -> the page whose tail is in its padding, or 0
    statusUsb, statusStorage,
    firstRun,
    bytesRead,          \* the pages read from USB
    sparseStatus,       \* static unsparse_status.handle_status is STATUS_OK
    bulkStatus,         \* static bulk_status.handle_status is STATUS_OK
    offset,             \* bulk_status.image_address_offset, in pages
    kind, pages, fits,  \* the image of this download
    stored,             \* partition: position -> page, 0 if not written
    fault,              \* something failed in this download
    result,             \* what download_data returned
    downloads

engineVars == <<live, cacheAvailable, contentAvailable, thrREnd, thrWEnd>>
readerVars == <<rpc, rstop, flipW, bytesRead, statusUsb>>
writerVars == <<wpc, wstop, flipR, statusStorage, firstRun>>
bufferVars == <<content, length, padding>>
staticVars == <<sparseStatus, bulkStatus, offset>>
imageVars == <<kind, pages, fits, stored, fault, result, downloads>>
vars == <<engineVars, readerVars, writerVars, bufferVars, staticVars, imageVars>>

Caches == {0, 1}
Both(b) == [i \in Caches |-> b]
Other(i) == 1 - i       \* cache_shift

Init ==
    /\ rpc = "idle" /\ wpc = "exit"
    /\ rstop = 0 /\ wstop = 0
    /\ live = FALSE
    /\ cacheAvailable = Both(FALSE)
    /\ contentAvailable = Both(FALSE)
    /\ thrREnd = FALSE /\ thrWEnd = FALSE
    /\ flipR = 0 /\ flipW = 0
    /\ content = Both(0)
    /\ length = Both(FALSE)
    /\ padding = Both(0)
    /\ statusUsb = TRUE /\ statusStorage = TRUE
    /\ firstRun = FALSE
    /\ bytesRead = 0
    /\ sparseStatus = TRUE /\ bulkStatus = TRUE
    /\ offset = 0
    /\ kind = "sparse" /\ pages = 0 /\ fits = TRUE
    /\ stored = [i \in 1 .. MaxPages |-> 0]
    /\ fault = FALSE
    /\ result = "none"
    /\ downloads = 0

\* download_data up to thread_create: a new engine and a new context.
Begin(k, n, f) ==
    /\ rpc = "idle" /\ downloads < MaxDownloads
    /\ downloads' = downloads + 1
    /\ kind' = k /\ pages' = n /\ fits' = f
    /\ stored' = [i \in 1 .. MaxPages |-> 0]
    /\ fault' = FALSE
    /\ result' = "none"
    /\ live' = TRUE
    /\ cacheAvailable' = Both(TRUE)
    /\ contentAvailable' = Both(FALSE)
    /\ thrREnd' = FALSE /\ thrWEnd' = FALSE
    /\ flipR' = 0 /\ flipW' = 0
    /\ padding' = Both(0)
    /\ statusUsb' = TRUE /\ statusStorage' = TRUE
    /\ firstRun' = TRUE
    /\ bytesRead' = 0
    /\ rpc' = "create"
    /\ rstop' = 0 /\ wstop' = 0
    /\ UNCHANGED <<wpc, content, length, staticVars>>

\* thread_create and thread_resume of the writer.
CreateWriter ==
    /\ rpc = "create"
    /\ wpc' = "wait"
    /\ rpc' = "wait"
    /\ UNCHANGED <<engineVars, rstop, flipW, bytesRead, statusUsb, wstop, flipR, statusStorage,
                   firstRun, bufferVars, staticVars, imageVars>>

\* thread_create finds no memory: STATUS_THREAD, nothing is read.
CreateFails ==
    /\ rpc = "create"
    /\ fault' = TRUE
    /\ result' = "error"
    /\ live' = FALSE
    /\ rpc' = "idle"
    /\ UNCHANGED <<cacheAvailable, contentAvailable, thrREnd, thrWEnd, rstop, flipW, bytesRead,
                   statusUsb, writerVars, bufferVars, staticVars, kind, pages, fits, stored, downloads>>

---------------------------------------------------------------------------
(* read_usb_proc *)

\* Mutant: <= for < in the loop's condition.
ReaderWaitReadsOneMore ==
    /\ rpc = "wait" /\ cacheAvailable[flipW]
    /\ cacheAvailable' = [cacheAvailable EXCEPT ![flipW] = FALSE]
    /\ length' = [length EXCEPT ![flipW] = FALSE]
    /\ rpc' = IF bytesRead <= pages THEN "read" ELSE "last"
    /\ UNCHANGED <<live, contentAvailable, thrREnd, thrWEnd, rstop, flipW, bytesRead, statusUsb,
                   writerVars, content, padding, staticVars, imageVars>>

\* Mutant: cache_available without EVENT_FLAG_AUTOUNSIGNAL.
ReaderWaitLeavesEvent ==
    /\ rpc = "wait" /\ cacheAvailable[flipW]
    /\ length' = [length EXCEPT ![flipW] = FALSE]
    /\ rpc' = IF bytesRead < pages THEN "read" ELSE "last"
    /\ UNCHANGED <<engineVars, rstop, flipW, bytesRead, statusUsb,
                   writerVars, content, padding, staticVars, imageVars>>

ReaderWait ==
    /\ rpc = "wait" /\ cacheAvailable[flipW]
    /\ cacheAvailable' = [cacheAvailable EXCEPT ![flipW] = FALSE]
    /\ length' = [length EXCEPT ![flipW] = FALSE]
    /\ rpc' = IF bytesRead < pages THEN "read" ELSE "last"
    /\ UNCHANGED <<live, contentAvailable, thrREnd, thrWEnd, rstop, flipW, bytesRead, statusUsb,
                   writerVars, content, padding, staticVars, imageVars>>

UsbRead ==
    /\ rpc = "read"
    /\ content' = [content EXCEPT ![flipW] = bytesRead + 1]
    /\ length' = [length EXCEPT ![flipW] = TRUE]
    /\ bytesRead' = bytesRead + 1
    /\ rpc' = "check"
    /\ UNCHANGED <<engineVars, rstop, flipW, statusUsb, writerVars, padding, staticVars, imageVars>>

\* usb_read fails, or brings fewer bytes than it was asked for.
UsbError ==
    /\ rpc = "read"
    /\ statusUsb' = FALSE
    /\ fault' = TRUE
    /\ rpc' = "stop"
    /\ UNCHANGED <<engineVars, rstop, flipW, bytesRead, writerVars, bufferVars, staticVars,
                   kind, pages, fits, stored, result, downloads>>

ReaderCheck ==
    /\ rpc = "check"
    /\ rpc' = IF statusUsb /\ statusStorage THEN "publish" ELSE "stop"
    /\ UNCHANGED <<engineVars, rstop, flipW, bytesRead, statusUsb, writerVars, bufferVars,
                   staticVars, imageVars>>

\* The last one is the zero-length package that tells the writer to end.
ReaderPublish ==
    /\ rpc \in {"publish", "last"}
    /\ contentAvailable' = [contentAvailable EXCEPT ![flipW] = TRUE]
    /\ IF rpc = "publish" THEN flipW' = Other(flipW) /\ rpc' = "wait"
                          ELSE UNCHANGED flipW /\ rpc' = "stop"
    /\ UNCHANGED <<live, cacheAvailable, thrREnd, thrWEnd, rstop, bytesRead, statusUsb,
                   writerVars, bufferVars, staticVars, imageVars>>

\* stop_engine(EOP_DATA_PROVIDER), one event at a time.
ReaderStop ==
    /\ rpc = "stop"
    /\ rstop' = rstop + 1
    /\ contentAvailable' = [i \in Caches |-> i = rstop \/ contentAvailable[i]]
    /\ thrWEnd' = (rstop = 2 \/ thrWEnd)
    /\ rpc' = IF rstop = 2 THEN "joinR" ELSE "stop"
    /\ UNCHANGED <<live, cacheAvailable, thrREnd, flipW, bytesRead, statusUsb,
                   writerVars, bufferVars, staticVars, imageVars>>

ReaderJoinR ==
    /\ rpc = "joinR" /\ thrREnd
    /\ thrREnd' = FALSE
    /\ rpc' = "joinW"
    /\ UNCHANGED <<live, cacheAvailable, contentAvailable, thrWEnd, rstop, flipW, bytesRead,
                   statusUsb, writerVars, bufferVars, staticVars, imageVars>>

Outcome == IF statusStorage /\ statusUsb THEN "ok" ELSE "error"

\* The second wait, destroy_engine and the return of download_data.
Return ==
    /\ rpc = "joinW" /\ thrWEnd
    /\ thrWEnd' = FALSE
    /\ live' = FALSE
    /\ result' = Outcome
    /\ rpc' = "idle"
    /\ UNCHANGED <<cacheAvailable, contentAvailable, thrREnd, rstop, flipW, bytesRead, statusUsb,
                   writerVars, bufferVars, staticVars, kind, pages, fits, stored, fault, downloads>>

---------------------------------------------------------------------------
(* write_storage_proc *)

WriterWait ==
    /\ wpc = "wait" /\ contentAvailable[flipR]
    /\ contentAvailable' = [contentAvailable EXCEPT ![flipR] = FALSE]
    /\ wpc' = IF statusUsb THEN "write" ELSE "stop"
    /\ UNCHANGED <<live, cacheAvailable, thrREnd, thrWEnd, readerVars, wstop, flipR,
                   statusStorage, firstRun, bufferVars, staticVars, imageVars>>

\* The return of write_data: its status ends the thread, and so does the
\* zero-length package.
WriteDataReturns(ok) ==
    /\ statusStorage' = ok
    /\ wpc' = IF ok /\ length[flipR] THEN "release" ELSE "stop"
    /\ UNCHANGED <<wstop, flipR, engineVars, readerVars, content, length,
                   kind, pages, fits, result, downloads>>

\* Mutant: init_unsparse_status does not reset handle_status.
SparseStatusKept == sparseStatus

\* The static status as write_data finds it: the first package resets it.
SparseStatus == IF firstRun THEN TRUE ELSE sparseStatus

\* write_data of the first package finds that the image is too large.
WriteTooLarge ==
    /\ wpc = "write" /\ firstRun /\ ~fits
    /\ IF kind = "sparse" THEN sparseStatus' = SparseStatus /\ UNCHANGED offset
                          ELSE offset' = 0 /\ UNCHANGED sparseStatus
    /\ fault' = TRUE
    /\ WriteDataReturns(FALSE)
    /\ UNCHANGED <<firstRun, bulkStatus, padding, stored>>

\* Mutant: the length of the padding is not carried.
CarriedLost(i, carry) == 0

\* The page whose tail goes to the other cache's padding.
Carried(i, carry) == IF carry THEN i ELSE 0

\* write_sparse_data of a page: the tail of a page that a chunk continues is
\* carried to the padding of the other cache.
WriteSparse(ok, carry) ==
    LET i == content[flipR]
        p == padding[flipR]
    IN /\ wpc = "write" /\ kind = "sparse" /\ (firstRun => fits)
       /\ firstRun' = FALSE
       /\ ok \/ (length[flipR] /\ "sparse" \in FaultyKinds)
       /\ carry => ok /\ length[flipR] /\ i < pages
       /\ fault' = (fault \/ ~ok)
       /\ sparseStatus' = (SparseStatus /\ ok)
       /\ stored' = [j \in 1 .. MaxPages |->
                       IF ok /\ length[flipR] /\ (j = p \/ (j = i /\ ~carry)) THEN j ELSE stored[j]]
       /\ padding' = IF ok /\ length[flipR]
                     THEN [padding EXCEPT ![Other(flipR)] = Carried(i, carry)]
                     ELSE padding
       /\ WriteDataReturns(sparseStatus')
       /\ UNCHANGED <<bulkStatus, offset>>

BulkOffset == IF firstRun THEN 0 ELSE offset

\* write_bulk_data: emmc_write comes first, at the current offset, which moves
\* on unless the static status says that something failed; write_data returns
\* the status of the sparse path.
WriteBulk(ok) ==
    LET off == BulkOffset
    IN /\ wpc = "write" /\ kind = "bulk" /\ (firstRun => fits)
       /\ firstRun' = FALSE
       /\ ok \/ (length[flipR] /\ "bulk" \in FaultyKinds)
       /\ fault' = (fault \/ ~ok)
       /\ bulkStatus' = (bulkStatus /\ ok)
       /\ offset' = IF length[flipR] /\ bulkStatus' THEN off + 1 ELSE off
       /\ stored' = IF ok /\ length[flipR] THEN [stored EXCEPT ![off + 1] = content[flipR]]
                                           ELSE stored
       /\ WriteDataReturns(sparseStatus)
       /\ UNCHANGED <<sparseStatus, padding>>

WriterRelease ==
    /\ wpc = "release"
    /\ cacheAvailable' = [cacheAvailable EXCEPT ![flipR] = TRUE]
    /\ flipR' = Other(flipR)
    /\ wpc' = "wait"
    /\ UNCHANGED <<live, contentAvailable, thrREnd, thrWEnd, readerVars, wstop, statusStorage,
                   firstRun, bufferVars, staticVars, imageVars>>

\* Mutant: stop_engine(EOP_DATA_CONSUMER) signals thrR_end_ev first.
WriterStopEndsFirst ==
    /\ wpc = "stop"
    /\ wstop' = wstop + 1
    /\ cacheAvailable' = [i \in Caches |-> i + 1 = wstop \/ cacheAvailable[i]]
    /\ thrREnd' = (wstop = 0 \/ thrREnd)
    /\ wpc' = IF wstop = 2 THEN "exit" ELSE "stop"
    /\ UNCHANGED <<live, contentAvailable, thrWEnd, readerVars, flipR, statusStorage, firstRun,
                   bufferVars, staticVars, imageVars>>

\* Mutant: it signals the end only.
WriterStopEndsOnly ==
    /\ wpc = "stop"
    /\ wstop' = 3
    /\ thrREnd' = TRUE
    /\ wpc' = "exit"
    /\ UNCHANGED <<live, cacheAvailable, contentAvailable, thrWEnd, readerVars, flipR,
                   statusStorage, firstRun, bufferVars, staticVars, imageVars>>

\* stop_engine(EOP_DATA_CONSUMER), one event at a time, then thread_exit.
WriterStop ==
    /\ wpc = "stop"
    /\ wstop' = wstop + 1
    /\ cacheAvailable' = [i \in Caches |-> i = wstop \/ cacheAvailable[i]]
    /\ thrREnd' = (wstop = 2 \/ thrREnd)
    /\ wpc' = IF wstop = 2 THEN "exit" ELSE "stop"
    /\ UNCHANGED <<live, contentAvailable, thrWEnd, readerVars, flipR, statusStorage, firstRun,
                   bufferVars, staticVars, imageVars>>

---------------------------------------------------------------------------

Reader ==
    \/ CreateWriter \/ CreateFails
    \/ ReaderWait \/ UsbRead \/ UsbError \/ ReaderCheck \/ ReaderPublish
    \/ ReaderStop \/ ReaderJoinR \/ Return

Writer ==
    \/ WriterWait \/ WriteTooLarge \/ WriterRelease \/ WriterStop
    \/ \E ok, carry \in BOOLEAN : WriteSparse(ok, carry)
    \/ \E ok \in BOOLEAN : WriteBulk(ok)

Next ==
    \/ \E k \in Kinds, n \in 0 .. MaxPages, f \in BOOLEAN : Begin(k, n, f)
    \/ Reader
    \/ Writer

Spec == Init /\ [][Next]_vars

\* Both threads run: the writer has the highest priority, the reader runs while
\* the writer waits, and usb_read and emmc_write return.
FairSpec == Spec /\ WF_vars(Reader) /\ WF_vars(Writer)

---------------------------------------------------------------------------
(* Properties *)

EngineType ==
    /\ live \in BOOLEAN
    /\ cacheAvailable \in [Caches -> BOOLEAN]
    /\ contentAvailable \in [Caches -> BOOLEAN]
    /\ thrREnd \in BOOLEAN /\ thrWEnd \in BOOLEAN

ReaderType ==
    /\ rpc \in {"idle", "create", "wait", "read", "check", "publish", "last", "stop", "joinR", "joinW"}
    /\ rstop \in 0 .. 3
    /\ flipW \in Caches
    /\ bytesRead \in 0 .. MaxPages
    /\ statusUsb \in BOOLEAN

WriterType ==
    /\ wpc \in {"wait", "write", "release", "stop", "exit"}
    /\ wstop \in 0 .. 3
    /\ flipR \in Caches
    /\ statusStorage \in BOOLEAN /\ firstRun \in BOOLEAN

BufferType ==
    /\ content \in [Caches -> 0 .. MaxPages]
    /\ length \in [Caches -> BOOLEAN]
    /\ padding \in [Caches -> 0 .. MaxPages]

StaticType ==
    /\ sparseStatus \in BOOLEAN /\ bulkStatus \in BOOLEAN
    /\ offset \in Nat

ImageType ==
    /\ kind \in {"sparse", "bulk"} /\ pages \in 0 .. MaxPages /\ fits \in BOOLEAN
    /\ stored \in [1 .. MaxPages -> 0 .. MaxPages]
    /\ fault \in BOOLEAN
    /\ result \in {"none", "ok", "error"}
    /\ downloads \in 0 .. MaxDownloads

TypeOK ==
    EngineType /\ ReaderType /\ WriterType /\ BufferType /\ StaticType /\ ImageType

\* usb_read never fills the half of the cache that emmc_write is reading, on no
\* path, error paths with their blanket signals included.
NoCacheRace == ~(rpc = "read" /\ wpc = "write" /\ flipR = flipW)

\* The engine context is on the stack of download_data: the writer has passed
\* its last use of it when destroy_engine and the return take it away.
NoUseAfterReturn == wpc # "exit" => live

\* download_data reports success only if the whole image is on the partition:
\* "status_t status_storage ; // if something is wrong, should exit."
\* (transfer_parallel.c:61), and the host is told "Transmission OK".
SuccessMeansStored == result = "ok" => \A i \in 1 .. pages : stored[i] = i

\* A sparse download fails only because something in it failed: the static
\* status that decides, of transfer_parallel.c:147, brings nothing over from the
\* download before, nor does the engine's.
FailureMeansFault == result = "error" /\ kind = "sparse" => fault

\* Neither thread waits for the other for ever, whichever of them fails when.
DownloadEnds == rpc # "idle" ~> rpc = "idle"

\* How much of the image is stored, without a gap.
Written == CHOOSE n \in 0 .. pages :
              /\ \A i \in 1 .. n : stored[i] = i
              /\ n < pages => stored[n + 1] # n + 1

Promise == INSTANCE Download WITH busy <- rpc # "idle", written <- Written

\* The engine implements what download_data promises its caller.
ImplementsDownload == Promise!Spec
=============================================================================
