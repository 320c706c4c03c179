--------------------------- MODULE FastbootProofs ----------------------------
(***************************************************************************)
(* The way of an image from the host to the partition.  The transport: a   *)
(* request and a completion belong to the transfer the thread waits for,   *)
(* and the host takes part in the same transfer, for every number of INFO  *)
(* lines and every session.  The sparse image state machine: it stays      *)
(* inside its buffers, and the image arrives: what is on the partition is  *)
(* what the image says, all of it when the download succeeds, for every    *)
(* layout of an image, every length of a page that holds a header, and     *)
(* wherever the packages end.                                              *)
(***************************************************************************)
EXTENDS FastbootUsb, SparseStream, SequenceTheorems, WellFoundedInduction, TLAPS

---------------------------------------------------------------------------
(* The transport *)

Places == {"offline", "loop", "submit", "queue", "wait", "handler"}

TransferTypes ==
    /\ pc \in Places
    /\ queued \in [{"in", "out"} -> BOOLEAN]
    /\ txnDone \in BOOLEAN
    /\ upset \in BOOLEAN

\* RequestOwned is not inductive: a completion and a request must not stand side by side,
\* or the end of the wait for the one would leave the other behind.
OneOrTheOther == ~upset => (txnDone => \A e \in {"in", "out"} : ~queued[e])

OwnedInv == TransferTypes /\ RequestOwned /\ OneOrTheOther

\* Nothing is queued when fastboot_init has returned.
LEMMA OwnedInit == FastbootInit => OwnedInv
  BY DEF FastbootInit, OwnedInv, TransferTypes, Places, RequestOwned, OneOrTheOther

\* The steps of the thread keep the invariant.
LEMMA ThreadKeeps == OwnedInv /\ ThreadNext => OwnedInv'
<1> SUFFICES ASSUME OwnedInv, ThreadNext PROVE OwnedInv'
  OBVIOUS
<1> USE DEF OwnedInv, TransferTypes, Places, RequestOwned, OneOrTheOther, usbVars, loopVars
<1>1. CASE Online
  BY <1>1 DEF Online
<1>2. CASE ReadCommand
  BY <1>2 DEF ReadCommand, Submit
<1>3. CASE LeaveLoop
  BY <1>3 DEF LeaveLoop
<1>4. CASE CheckOnline
  BY <1>4 DEF CheckOnline
<1>5. CASE QueueRequest
  BY <1>5 DEF QueueRequest, Endpoint
<1>6. CASE TransferDone
  BY <1>6 DEF TransferDone, Continue, Oops, Submit
<1>7. CASE TransferTimesOut
  BY <1>7 DEF TransferTimesOut, Oops, Timed, Endpoint
<1>8. CASE Info
  BY <1>8 DEF Info, Submit
<1>9. CASE Download
  BY <1>9 DEF Download, Submit
<1>10. CASE DownloadRefused
  BY <1>10 DEF DownloadRefused
<1>11. CASE Answer
  BY <1>11 DEF Answer, Submit
<1>12. CASE HandlerReturns
  BY <1>12 DEF HandlerReturns
<1> QED
  BY <1>1, <1>2, <1>3, <1>4, <1>5, <1>6, <1>7, <1>8, <1>9, <1>10, <1>11, <1>12 DEF ThreadNext

\* So do the interrupts, whenever they come.
LEMMA InterruptsKeep == OwnedInv /\ InterruptNext => OwnedInv'
<1> SUFFICES ASSUME OwnedInv, InterruptNext PROVE OwnedInv'
  OBVIOUS
<1> USE DEF OwnedInv, TransferTypes, Places, RequestOwned, OneOrTheOther, usbVars, loopVars
<1>1. ASSUME NEW e \in {"in", "out"}, TransferInterrupt(e) PROVE OwnedInv'
  <2>1. queued' \in [{"in", "out"} -> BOOLEAN] /\ txnDone' \in BOOLEAN /\ pc' = pc /\ upset' = upset /\ transfer' = transfer
    BY <1>1 DEF TransferInterrupt, CompleteRequests
  <2>2. \A f \in {"in", "out"} : queued'[f] <=> queued[f] /\ f # e
    BY <1>1 DEF TransferInterrupt, CompleteRequests
  <2>3. ~upset => pc = "wait" /\ \A f \in {"in", "out"} : ~queued'[f]
    BY <1>1, <2>2 DEF TransferInterrupt
  <2> QED
    BY <2>1, <2>3
<1>2. CASE Suspend
  <2>1. queued' \in [{"in", "out"} -> BOOLEAN] /\ \A f \in {"in", "out"} : ~queued'[f]
    BY <1>2 DEF Suspend, CompleteRequests
  <2>2. txnDone' \in BOOLEAN /\ pc' = pc /\ upset' = (upset \/ pc # "wait" \/ txnDone)
    BY <1>2 DEF Suspend, CompleteRequests
  <2> QED
    BY <2>1, <2>2
<1>3. CASE Reset
  BY <1>3 DEF Reset
<1>4. ASSUME NEW value \in BOOLEAN, SetConfiguration(value) PROVE OwnedInv'
  BY <1>4 DEF SetConfiguration
<1> QED
  BY <1>1, <1>2, <1>3, <1>4 DEF InterruptNext

\* Invariance.  The request, the event and the status of a transfer are used for no other
\* (RequestOwned; fastboot.c:84), whatever the order of interrupts and of the thread's steps.
THEOREM RequestsAreOwned == FastbootSpec => []RequestOwned
<1>1. OwnedInv /\ [FastbootNext]_fastbootVars => OwnedInv'
  <2>1. OwnedInv /\ UNCHANGED fastbootVars => OwnedInv'
    BY DEF OwnedInv, TransferTypes, RequestOwned, OneOrTheOther, fastbootVars, usbVars, loopVars
  <2> QED
    BY <2>1, ThreadKeeps, InterruptsKeep DEF FastbootNext
<1>2. OwnedInv => RequestOwned
  BY DEF OwnedInv
<1> QED
  BY OwnedInit, <1>1, <1>2, PTL DEF FastbootSpec
---------------------------------------------------------------------------
(* The two ends in step *)

Transfers == {"command", "data", "DATA", "info", "answer"}

\* What the transfer of a kind is in the eyes of the host, and what follows it.
Expected(t) == CASE t = "command" -> "idle"
                 [] t = "data" -> "data"
                 [] OTHER -> "answer"

Following(t) == CASE t = "answer" -> "idle"
                  [] t = "DATA" -> "data"
                  [] OTHER -> "answer"

Loops ==
    /\ configured \in BOOLEAN /\ txnStatus \in BOOLEAN
    /\ pc \in {"submit", "queue", "wait"} =>
         /\ transfer \in Transfers
         /\ transfer \in {"data", "DATA", "info"} => fastbootState = "COMMAND"
         /\ transfer = "answer" => fastbootState = "COMPLETE"

\* Nothing is queued and no completion waits.
Clean == ~txnDone /\ ~queued["in"] /\ ~queued["out"]

\* No command is at work.
AtRest == pc \in {"offline", "loop"} \/ (pc = "handler" /\ fastbootState # "COMMAND")

\* Whatever has upset the two ends: the host is idle once no command is at work and nothing
\* is left over, so that the next session begins in step.
Settles ==
    /\ ~configured \/ ~txnStatus => host = "idle"
    /\ AtRest /\ Clean => host = "idle"
    /\ pc = "wait" /\ ~txnDone /\ ~queued[Endpoint(transfer)] => host = "idle"
    /\ pc = "wait" /\ transfer = "answer" => host = "idle" \/ queued["in"]

\* In step the host has got as far in the command as the thread has.
Agreed ==
    ~upset /\ configured =>
        /\ pc = "handler" /\ fastbootState = "COMMAND" => host = "answer"
        /\ pc \in {"submit", "queue"} => host = Expected(transfer)
        /\ pc = "wait" /\ queued[Endpoint(transfer)] => host = Expected(transfer)
        /\ pc = "wait" /\ txnDone /\ txnStatus => host = Following(transfer)

StepInv == OwnedInv /\ Loops /\ Settles /\ Agreed

LEMMA InitInStep == FastbootInit => StepInv
<1>1. FastbootInit => Loops /\ Settles /\ Agreed
  BY DEF FastbootInit, Loops, Settles, AtRest, Agreed
<1> QED
  BY <1>1, OwnedInit DEF StepInv

\* A transfer uses one of the two endpoints.
LEMMA Endpoints == \A t : Endpoint(t) \in {"in", "out"}
  BY DEF Endpoint

\* The steps of the thread keep the two ends in step.
LEMMA ThreadKeepsStep == StepInv /\ ThreadNext => Loops' /\ Settles' /\ Agreed'
<1> SUFFICES ASSUME StepInv, ThreadNext PROVE Loops' /\ Settles' /\ Agreed'
  OBVIOUS
<1> USE DEF StepInv, OwnedInv, TransferTypes, Places, RequestOwned, Loops, Transfers, Clean, AtRest, Settles, Agreed, usbVars, loopVars
<1>1. CASE Online
  BY <1>1 DEF Online
<1>2. CASE ReadCommand
  <2>1. ~upset => host = "idle"
    BY <1>2 DEF ReadCommand
  <2> QED
    BY <1>2, <2>1 DEF ReadCommand, Submit, Expected
<1>3. CASE LeaveLoop
  BY <1>3 DEF LeaveLoop
<1>4. CASE CheckOnline
  BY <1>4, Endpoints DEF CheckOnline
<1>5. CASE QueueRequest
  BY <1>5, Endpoints DEF QueueRequest, Endpoint
<1>6. CASE TransferDone
  <2>1. CASE ~txnStatus
    BY <1>6, <2>1 DEF TransferDone, Oops
  <2>2. CASE txnStatus
    BY <1>6, <2>2 DEF TransferDone, Continue, Submit, Expected, Following
  <2> QED
    BY <2>1, <2>2
<1>7. CASE TransferTimesOut
  BY <1>7 DEF TransferTimesOut, Oops, Timed, Endpoint
<1>8. CASE Info
  BY <1>8 DEF Info, Submit, Expected
<1>9. CASE Download
  BY <1>9 DEF Download, Submit, Expected
<1>10. CASE DownloadRefused
  BY <1>10 DEF DownloadRefused
<1>11. CASE Answer
  BY <1>11 DEF Answer, Submit, Expected
<1>12. CASE HandlerReturns
  BY <1>12 DEF HandlerReturns
<1> QED
  BY <1>1, <1>2, <1>3, <1>4, <1>5, <1>6, <1>7, <1>8, <1>9, <1>10, <1>11, <1>12 DEF ThreadNext

\* So do the interrupts and the host.
LEMMA InterruptsKeepStep == StepInv /\ InterruptNext => Loops' /\ Settles' /\ Agreed'
<1> SUFFICES ASSUME StepInv, InterruptNext PROVE Loops' /\ Settles' /\ Agreed'
  OBVIOUS
<1> USE DEF StepInv, OwnedInv, TransferTypes, Places, RequestOwned, Loops, Transfers, Clean, AtRest, Settles, Agreed, loopVars
<1>1. ASSUME NEW e \in {"in", "out"}, TransferInterrupt(e) PROVE Loops' /\ Settles' /\ Agreed'
  <2>1. txnDone' /\ txnStatus' /\ configured' /\ UNCHANGED <<pc, transfer, fastbootState, upset>>
    BY <1>1 DEF TransferInterrupt, CompleteRequests
  <2>2. host' = Following(transfer)
    BY <1>1 DEF TransferInterrupt, Following
  <2>3. \A f \in {"in", "out"} : queued'[f] <=> queued[f] /\ f # e
    BY <1>1 DEF TransferInterrupt, CompleteRequests
  <2>4. ~upset => pc = "wait" /\ \A f \in {"in", "out"} : ~queued'[f]
    BY <1>1, <2>3, Endpoints DEF TransferInterrupt
  <2>5. transfer = "answer" => host' = "idle"
    BY <2>2 DEF Following
  <2> QED
    BY <2>1, <2>2, <2>4, <2>5, Endpoints
<1>2. CASE Suspend
  <2>1. host' = "idle" /\ configured' = FALSE /\ txnStatus' = FALSE /\ UNCHANGED <<pc, transfer, fastbootState>>
    BY <1>2 DEF Suspend, CompleteRequests
  <2>2. Loops'
    BY <2>1
  <2>3. Settles'
    BY <2>1
  <2>4. Agreed'
    BY <2>1
  <2> QED
    BY <2>2, <2>3, <2>4
<1>3. CASE Reset
  BY <1>3 DEF Reset, Expected
<1>4. ASSUME NEW value \in BOOLEAN, SetConfiguration(value) PROVE Loops' /\ Settles' /\ Agreed'
  BY <1>4 DEF SetConfiguration, Expected
<1> QED
  BY <1>1, <1>2, <1>3, <1>4 DEF InterruptNext

\* Invariance.  As long as nothing has put the two ends out of step, the host takes part in the
\* transfer the thread waits for, with at most one answer to a command (InStep;
\* fastboot.c:351), and a session that begins with nothing left over begins in step.
THEOREM EndsAreInStep == FastbootSpec => []InStep
<1>1. StepInv /\ [FastbootNext]_fastbootVars => StepInv'
  <2>1. StepInv /\ UNCHANGED fastbootVars => StepInv'
    BY DEF StepInv, OwnedInv, TransferTypes, RequestOwned, OneOrTheOther, Loops, Settles, AtRest, Clean, Agreed,
           fastbootVars, usbVars, loopVars
  <2> QED
    BY <2>1, ThreadKeeps, ThreadKeepsStep, InterruptsKeep, InterruptsKeepStep DEF StepInv, FastbootNext
<1>2. StepInv => InStep
  BY DEF StepInv, OwnedInv, TransferTypes, Agreed, InStep, Expected
<1> QED
  BY InitInStep, <1>1, <1>2, PTL DEF FastbootSpec

---------------------------------------------------------------------------
(* The sparse image state machine *)

Phases == {"SPARSE_HEADER", "CHUNK_HEADER", "CHUNK_DATA", "CHUNK_FILL", "CHUNK_CRC"}
Outcomes == {"OK", "SPARSE_INCOMPLETE", "EMMC_ERR", "UNKNOWN_CHUNK_TYPE"}

\* What the variables hold.
TypesKept ==
    /\ stage \in {"idle", "package", "handle", "end"}
    /\ phase \in Phases /\ status \in Outcomes
    /\ image \in Images
    /\ received \in Nat /\ content \in Nat /\ buf \in Nat /\ size \in Nat
    /\ padding \in Seq(Int) /\ data \in Seq(Int) /\ unhandled \in Seq(Int)

\* Every length is even: that is why a package cannot end inside a fill value or a CRC, of
\* which the code takes two units without a look at the count.
Parity ==
    /\ Even(received) /\ Even(size) /\ received <= image.sent
    /\ Even(Len(padding)) /\ Even(Len(unhandled))
    /\ status \in {"OK", "SPARSE_INCOMPLETE"} => remain \in Nat /\ Even(remain)

\* What is left of the package ends where the package ends; between two packages nothing
\* is known to be left, and a tail is shorter than a storage block.
Counts ==
    /\ stage = "handle" => buf + size <= Len(data) /\ (size > 0 => buf + size = Len(data))
    /\ Len(unhandled) <= ChunkHeader /\ Len(padding) < StorageBlock
    /\ status = "SPARSE_INCOMPLETE" => size < StorageBlock
    /\ stage = "package" => status = "OK"

\* The file's header is looked for in the first package alone, which has all of it or less
\* than the code looks at.
FirstPackage ==
    /\ stage = "idle" => phase = "SPARSE_HEADER"
    /\ phase = "SPARSE_HEADER" =>
        /\ stage \in {"idle", "package"} => received = 0 /\ padding = <<>> /\ status = "OK"
        /\ stage = "handle" => /\ size > 0 /\ status = "OK"
                               /\ size < SparseHeader \/ size >= image.fileHeader

\* The inductive invariant of BuffersHold.
BuffersInv == TypesKept /\ Parity /\ Counts /\ FirstPackage

---------------------------------------------------------------------------

\* The even numbers the model names.
LEMMA EvenNumbers == Even(0) /\ Even(2)
  BY DEF Even

\* Even lengths add up to an even length.
LEMMA EvenSum == ASSUME NEW m \in Nat, NEW n \in Nat, Even(m), Even(n) PROVE Even(m + n)
  BY DEF Even

\* What the assumptions say of one image.
LEMMA ImageFacts ==
  ASSUME NEW img \in Images
  PROVE  /\ img.fileHeader \in Nat /\ Even(img.fileHeader) /\ img.fileHeader <= Page
         /\ img.chunkHeader \in {ChunkHeader, ChunkHeader + 2}
         /\ img.sent \in Nat /\ Even(img.sent)
         /\ img.sent >= img.fileHeader \/ img.sent < SparseHeader
<1>1. Page \in Nat /\ Page >= img.fileHeader
  BY SizesAssumption
<1>2. img.fileHeader \in Nat
  BY ImagesAssumption
<1> QED
  BY <1>1, <1>2, ImagesAssumption DEF Seed

\* What the assumptions say of one chunk.
LEMMA ChunkFacts ==
  ASSUME NEW img \in Images, NEW i \in DOMAIN img.chunks
  PROVE  img.chunks[i].type \in Types /\ img.chunks[i].bytes \in Nat /\ Even(img.chunks[i].bytes)
<1> DEFINE Chunks == [type : Types, bytes : Nat]
<1>1. img.chunks \in Seq(Chunks) /\ Even(img.chunks[i].bytes)
  BY ImagesAssumption
<1>2. img.chunks[i] \in Chunks
  <2> HIDE DEF Chunks
  <2> QED
    BY <1>1
<1> QED
  BY <1>1, <1>2

\* What the assumptions say of the lengths.
LEMMA Sizes ==
  /\ Page \in Nat /\ Even(Page)
  /\ StorageBlock \in Nat /\ StorageBlock > 0 /\ Even(StorageBlock)
  /\ ChunkHeader \in Nat /\ ChunkHeader > 0 /\ Even(ChunkHeader)
  /\ SparseHeader \in Nat /\ SparseHeader > 0
BY SizesAssumption

\* A copy of a stretch of the package is as long as it was asked for.
LEMMA BytesLength ==
  ASSUME data \in Seq(Int), NEW k \in Nat, NEW n \in Nat
  PROVE  Bytes(k, n) \in Seq(Int) /\ Len(Bytes(k, n)) = n
<1>1. \A j \in 1 .. n : (IF k + j <= Len(data) THEN data[k + j] ELSE Beyond) \in Int
  BY DEF Beyond
<1>2. Bytes(k, n) \in [1 .. n -> Int]
  BY <1>1 DEF Bytes
<1> QED
  BY <1>2

\* A multiple of an even number is even.
LEMMA EvenProduct == ASSUME NEW h \in Nat, NEW k \in Nat PROVE Even(2 * (h * k))
<1>1. h * k \in Nat
  OBVIOUS
<1> QED
  BY <1>1 DEF Even

\* What is left over after whole storage blocks.
LEMMA BlocksOf ==
  ASSUME NEW n \in Nat, Even(n)
  PROVE  /\ Blocks(n) \in Nat /\ Blocks(n) <= n /\ Even(Blocks(n))
         /\ n - Blocks(n) \in Nat /\ Even(n - Blocks(n)) /\ n - Blocks(n) < StorageBlock
<1>1. n % StorageBlock \in Nat /\ n % StorageBlock < StorageBlock /\ n % StorageBlock <= n
  BY Sizes
<1>2. n - (n % StorageBlock) = StorageBlock * (n \div StorageBlock) /\ n \div StorageBlock \in Nat
  BY Sizes
<1>3. PICK h \in Nat : StorageBlock = 2 * h
  BY Sizes DEF Even
<1>4. StorageBlock * (n \div StorageBlock) = 2 * (h * (n \div StorageBlock))
  BY <1>2, <1>3
<1>5. Even(n - (n % StorageBlock))
  BY <1>2, <1>3, <1>4, EvenProduct
<1>6. n - (n - (n % StorageBlock)) = n % StorageBlock /\ n - (n % StorageBlock) \in Nat /\ n >= n - (n % StorageBlock)
  BY <1>1
<1>7. Even(n % StorageBlock)
  <2>1. PICK r \in Nat : r = n % StorageBlock /\ r <= n
    BY <1>1
  <2>2. n % 2 = 0 /\ (n - r) % 2 = 0
    BY <1>5, <2>1 DEF Even
  <2>3. r % 2 = 0
    BY <2>1, <2>2
  <2> QED
    BY <2>1, <2>3 DEF Even
<1> QED
  BY <1>1, <1>5, <1>6, <1>7 DEF Blocks

---------------------------------------------------------------------------

\* A fresh machine, or one an earlier download left, is inside its buffers.
LEMMA BuffersInit == StreamInit => BuffersInv
<1> SUFFICES ASSUME StreamInit PROVE BuffersInv
  OBVIOUS
<1>1. image \in Images /\ image.sent \in Nat
  BY ImageFacts DEF StreamInit
<1>2. unhandled \in Seq(Int) /\ Len(unhandled) \in {0, 2} /\ remain \in {0, 2}
  <2>1. <<>> \in Seq(Int) /\ Len(<<>>) = 0
    OBVIOUS
  <2>2. <<Beyond, Beyond>> \in Seq(Int) /\ Len(<<Beyond, Beyond>>) = 2
    BY DEF Beyond
  <2> QED
    BY <2>1, <2>2 DEF StreamInit, Seed
<1>3. Len(unhandled) <= ChunkHeader /\ Even(Len(unhandled)) /\ Even(remain) /\ remain \in Nat
  <2>1. ChunkHeader >= 2
    BY Sizes DEF Even
  <2>2. ChunkHeader \in Nat
    BY Sizes
  <2>3. Len(unhandled) <= ChunkHeader
    <3>1. Len(unhandled) = 0 \/ Len(unhandled) = 2
      BY <1>2
    <3> QED
      BY <2>1, <2>2, <3>1
  <2>4. Even(Len(unhandled))
    <3>1. CASE Len(unhandled) = 0
      BY <3>1, EvenNumbers
    <3>2. CASE Len(unhandled) = 2
      BY <3>2, EvenNumbers
    <3> QED
      BY <1>2, <3>1, <3>2
  <2>5. Even(remain) /\ remain \in Nat
    <3>1. CASE remain = 0
      BY <3>1, EvenNumbers
    <3>2. CASE remain = 2
      BY <3>2, EvenNumbers
    <3> QED
      BY <1>2, <3>1, <3>2
  <2> QED
    BY <2>3, <2>4, <2>5
<1>4. Even(0) /\ Len(<<>>) = 0
  BY EvenNumbers
<1> QED
  BY <1>1, <1>2, <1>3, <1>4, Sizes DEF StreamInit, BuffersInv, TypesKept, Phases, Outcomes, Parity, Counts, FirstPackage

\* A new download: empty paddings and nothing of the stream.
LEMMA BeginKeeps == BuffersInv /\ Begin => BuffersInv'
<1> SUFFICES ASSUME BuffersInv, Begin PROVE BuffersInv'
  OBVIOUS
<1>1. /\ padding' = <<>> /\ size' = 0 /\ buf' = 0
      /\ status' = "OK" /\ phase' = "SPARSE_HEADER" /\ stage' \in {"end", "package"}
      /\ UNCHANGED <<image, received, content, data, unhandled, remain>>
  BY DEF Begin, SetStatus, unsparseVars
<1>2. received = 0 /\ status = "OK"
  BY DEF Begin, BuffersInv, FirstPackage
<1>3. padding' \in Seq(Int) /\ Len(padding') = 0
  BY <1>1
<1>4. TypesKept'
  BY <1>1, <1>3 DEF BuffersInv, TypesKept, Phases, Outcomes
<1>5. Parity'
  BY <1>1, <1>2, <1>3, EvenNumbers DEF BuffersInv, Parity
<1>6. Counts'
  BY <1>1, <1>3, Sizes DEF BuffersInv, Counts
<1>7. FirstPackage'
  BY <1>1, <1>2 DEF FirstPackage
<1> QED
  BY <1>4, <1>5, <1>6, <1>7 DEF BuffersInv

\* The next package, as long as the page or the rest of the stream, behind the tail.
LEMMA PackageKeeps == BuffersInv /\ Package => BuffersInv'
<1> SUFFICES ASSUME BuffersInv, Package PROVE BuffersInv'
  OBVIOUS
<1> DEFINE piece == [j \in 1 .. content' |-> received + j]
<1>1. /\ image.sent \in Nat /\ Even(image.sent) /\ image.fileHeader \in Nat /\ image.fileHeader <= Page
      /\ image.sent >= image.fileHeader \/ image.sent < SparseHeader
  BY ImageFacts DEF BuffersInv, TypesKept
<1>2. received \in Nat /\ Even(received) /\ received <= image.sent /\ Even(Len(padding)) /\ Len(padding) \in Nat
  BY DEF BuffersInv, TypesKept, Parity
<1>3. content' = Page \/ content' = image.sent - received
  BY DEF Package, Smaller
<1>4. content' <= image.sent - received
  BY <1>1, <1>2, Sizes DEF Package, Smaller
<1>5. content' \in Nat
  BY <1>1, <1>2, <1>3, Sizes
<1>6. Even(content')
  <2>1. Even(image.sent - received)
    BY <1>1, <1>2 DEF Even
  <2> QED
    BY <2>1, <1>3, Sizes
<1>15. received' = received + content' /\ data' = padding \o piece
  BY DEF Package
<1>16. received' \in Nat /\ Even(received') /\ received' <= image.sent
  <2>1. Even(received')
    BY <1>2, <1>5, <1>6, <1>15, EvenSum
  <2>2. received \in Nat /\ image.sent \in Nat
    BY <1>1, <1>2
  <2>3. received' = received + content'
    BY <1>15
  <2>4. received' \in Nat /\ received' <= image.sent
    <3>1. \A r, c, n \in Nat : c <= n - r => r + c \in Nat /\ r + c <= n
      OBVIOUS
    <3>2. received + content' \in Nat /\ received + content' <= image.sent
      BY <2>2, <1>4, <1>5, <3>1
    <3> QED
      BY <2>3, <3>2
  <2> QED
    BY <2>1, <2>4
<1>17. piece \in Seq(Int) /\ Len(piece) = content'
  <2>1. \A j \in 1 .. content' : received + j \in Int
    BY <1>2
  <2>2. piece \in [1 .. content' -> Int]
    BY <2>1
  <2> QED
    BY <2>2, <1>5
<1>18. data' \in Seq(Int) /\ Len(data') = Len(padding) + content'
  <2> HIDE DEF piece
  <2> QED
    BY <1>15, <1>17, ConcatProperties DEF BuffersInv, TypesKept
<1>7. size' = Len(data') /\ size' \in Nat /\ Even(size') /\ buf' = 0
  <2>1. PICK m \in Nat : m = Len(padding)
    BY <1>2
  <2>2. PICK n \in Nat : n = content'
    BY <1>5
  <2>3. m + n \in Nat /\ Even(m + n)
    <3>1. Even(m) /\ Even(n)
      BY <2>1, <2>2, <1>2, <1>6
    <3> QED
      BY <3>1, EvenSum
  <2>4. size' = Len(data') /\ buf' = 0
    BY DEF Package
  <2>5. size' = m + n
    BY <2>1, <2>2, <2>4, <1>18
  <2> QED
    BY <2>3, <2>4, <2>5
<1>8. data' # <<>> => size' > 0
  BY <1>18, <1>7
<1>9. stage = "package" /\ stage' = IF data' = <<>> THEN "end" ELSE "handle"
  BY DEF Package
<1>10. UNCHANGED <<image, padding, phase, status, unhandled, remain>>
  BY DEF Package, unsparseVars
<1>11. TypesKept'
  BY <1>5, <1>16, <1>18, <1>7, <1>9, <1>10 DEF BuffersInv, TypesKept
<1>12. Parity'
  BY <1>16, <1>7, <1>10 DEF BuffersInv, Parity
<1>13. Counts'
  <2>1. status = "OK" /\ buf' + size' = Len(data')
    BY <1>7, <1>9 DEF BuffersInv, Counts
  <2> QED
    BY <2>1, <1>7, <1>9, <1>10 DEF BuffersInv, Counts
<1>14. FirstPackage'
  <2> SUFFICES ASSUME phase = "SPARSE_HEADER", stage' = "handle"
               PROVE  size' > 0 /\ status' = "OK" /\ (size' < SparseHeader \/ size' >= image.fileHeader)
    BY <1>9, <1>10 DEF FirstPackage
  <2>1. received = 0 /\ Len(padding) = 0 /\ status = "OK"
    BY <1>9 DEF BuffersInv, FirstPackage, Counts
  <2>2. size' = Page \/ size' = image.sent
    <3>1. size' = content'
      <4>1. PICK n \in Nat : n = content'
        BY <1>5
      <4>2. size' = 0 + n
        BY <4>1, <2>1, <1>18, <1>7
      <4>3. 0 + n = n
        OBVIOUS
      <4> QED
        BY <4>1, <4>2, <4>3
    <3> QED
      BY <3>1, <2>1, <1>1, <1>3, Sizes
  <2> QED
    BY <2>1, <2>2, <1>1, <1>8, <1>9, <1>10, Sizes
<1> QED
  BY <1>11, <1>12, <1>13, <1>14 DEF BuffersInv

\* A tail shorter than a block goes to the padding.
LEMMA ReturnKeeps == BuffersInv /\ Return => BuffersInv'
<1> SUFFICES ASSUME BuffersInv, Return PROVE BuffersInv'
  OBVIOUS
<1>1. Bytes(buf, size) \in Seq(Int) /\ Len(Bytes(buf, size)) = size
  BY BytesLength DEF BuffersInv, TypesKept
<1>2. stage = "handle" /\ (size = 0 \/ status # "OK") /\ phase # "SPARSE_HEADER"
  BY DEF Return, BuffersInv, FirstPackage, TypesKept
<1>3. padding' \in Seq(Int) /\ Even(Len(padding')) /\ Len(padding') < StorageBlock
  <2>1. CASE status = "SPARSE_INCOMPLETE"
    BY <2>1, <1>1, EvenNumbers DEF Return, BuffersInv, Parity, Counts
  <2>2. CASE status = "OK"
    BY <2>2, Sizes, EvenNumbers DEF Return
  <2>3. CASE status \notin {"OK", "SPARSE_INCOMPLETE"}
    BY <2>3, EvenNumbers DEF Return, BuffersInv, TypesKept, Parity, Counts
  <2> QED
    BY <2>1, <2>2, <2>3
<1>4. /\ status' \in Outcomes /\ status' # "SPARSE_INCOMPLETE"
      /\ status' = "OK" => status \in {"OK", "SPARSE_INCOMPLETE"}
      /\ stage' \in {"end", "package"} /\ (stage' = "package" => status' = "OK")
  BY DEF Return, BuffersInv, TypesKept, Outcomes
<1>5. UNCHANGED <<image, received, content, data, buf, size, phase, unhandled, remain>>
  BY EvenNumbers DEF Return, unsparseVars
<1> QED
  BY <1>2, <1>3, <1>4, <1>5, EvenNumbers DEF BuffersInv, TypesKept, Parity, Counts, FirstPackage

---------------------------------------------------------------------------
(* One call of write_sparse_data_internal. *)

\* The calls that look for a header take no more than there is, or save what there is.
LEMMA HeaderStepsKeep ==
  ASSUME BuffersInv, FileHeader \/ NoFileHeader \/ SkipRest \/ SaveHeader \/ UnknownChunk
  PROVE  BuffersInv'
<1>1. CASE FileHeader
  <2>1. image.fileHeader \in Nat /\ Even(image.fileHeader) /\ size >= image.fileHeader
    <3>1. image.fileHeader \in Nat /\ Even(image.fileHeader)
      BY ImageFacts DEF BuffersInv, TypesKept
    <3>2. size \in Nat /\ size >= SparseHeader /\ (size < SparseHeader \/ size >= image.fileHeader)
      BY <1>1 DEF FileHeader, Handling, BuffersInv, TypesKept, FirstPackage
    <3> QED
      BY <3>1, <3>2, Sizes
  <2>2. size' = size - image.fileHeader /\ buf' = buf + image.fileHeader
    BY <1>1, <2>1 DEF FileHeader, SetStatus, Minus
  <2>3. size' \in Nat /\ Even(size') /\ buf' \in Nat /\ buf' + size' = buf + size
    <3>1. size \in Nat /\ Even(size) /\ buf \in Nat
      BY DEF BuffersInv, TypesKept, Parity
    <3> QED
      BY <2>1, <2>2, <3>1 DEF Even
  <2>4. Len(unhandled') = 0 /\ unhandled' = <<>> /\ remain' = 0 /\ phase' = "CHUNK_HEADER" /\ status' = "OK"
    BY <1>1 DEF FileHeader, SetStatus
  <2>5. stage = "handle" /\ size > 0 /\ UNCHANGED <<stage, image, received, content, padding, data>>
    BY <1>1, EvenNumbers DEF FileHeader, Handling, packageVars
  <2> QED
    <3>1. TypesKept'
      BY <2>3, <2>4, <2>5 DEF BuffersInv, TypesKept, Phases, Outcomes
    <3>2. Parity'
      BY <2>3, <2>4, <2>5, EvenNumbers DEF BuffersInv, Parity
    <3>3. Counts'
      <4>1. buf + size = Len(data) /\ Len(padding) < StorageBlock
        BY <2>5 DEF BuffersInv, Counts
      <4>2. buf' + size' = Len(data') /\ Len(padding') < StorageBlock
        BY <4>1, <2>3, <2>5
      <4>3. Len(unhandled') <= ChunkHeader
        BY <2>4, Sizes
      <4>4. buf' + size' <= Len(data')
        <5>1. buf' \in Nat /\ size' \in Nat
          BY <2>3
        <5> QED
          BY <4>2, <5>1
      <4> QED
        BY <4>2, <4>3, <4>4, <2>4, <2>5 DEF Counts
    <3>4. FirstPackage'
      BY <2>4, <2>5 DEF FirstPackage
    <3> QED
      BY <3>1, <3>2, <3>3, <3>4 DEF BuffersInv
<1>2. CASE NoFileHeader
  BY <1>2, EvenNumbers DEF NoFileHeader, streamVars, packageVars, unsparseVars, BuffersInv, TypesKept, Parity, Counts, FirstPackage
<1>3. CASE SkipRest
  BY <1>3, EvenNumbers DEF SkipRest, Handling, SetStatus, packageVars, unsparseVars,
              BuffersInv, TypesKept, Phases, Outcomes, Parity, Counts, FirstPackage
<1>4. CASE SaveHeader
  <2>1. unhandled' = Bytes(buf, size) /\ unhandled' \in Seq(Int) /\ Len(unhandled') = size
    BY <1>4, BytesLength DEF SaveHeader, BuffersInv, TypesKept
  <2>2. Len(unhandled) \in Nat /\ Len(unhandled) + size < image.chunkHeader
    BY <1>4 DEF SaveHeader, BuffersInv, TypesKept
  <2>3. image.chunkHeader \in {ChunkHeader, ChunkHeader + 2}
    BY ImageFacts DEF BuffersInv, TypesKept
  <2>4. size <= ChunkHeader
    <3>1. size \in Nat /\ Even(size)
      BY DEF BuffersInv, TypesKept, Parity
    <3>2. size < ChunkHeader + 2
      BY <3>1, <2>2, <2>3, Sizes
    <3> QED
      BY <3>1, <3>2, Sizes DEF Even
  <2>5. size' = 0 /\ buf' = buf /\ phase' = "CHUNK_HEADER" /\ status' = "OK" /\ stage = "handle" /\ size > 0 /\ status = "OK"
    BY <1>4 DEF SaveHeader, Handling, SetStatus
  <2>6. UNCHANGED <<stage, image, received, content, padding, data, remain>>
    BY <1>4, EvenNumbers DEF SaveHeader, packageVars
  <2> QED
    BY <2>1, <2>4, <2>5, <2>6, Sizes, EvenNumbers DEF BuffersInv, TypesKept, Phases, Outcomes, Parity, Counts, FirstPackage
<1>5. CASE UnknownChunk
  <2>1. unhandled' = <<>> /\ Len(unhandled') = 0 /\ status' = "UNKNOWN_CHUNK_TYPE" /\ phase = "CHUNK_HEADER"
    BY <1>5 DEF UnknownChunk, Handling
  <2>2. stage = "handle" /\ UNCHANGED <<stage, image, received, content, padding, data, buf, size, phase>>
    BY <1>5, EvenNumbers DEF UnknownChunk, Handling, packageVars
  <2> QED
    BY <2>1, <2>2, Sizes, EvenNumbers DEF BuffersInv, TypesKept, Outcomes, Parity, Counts, FirstPackage
<1> QED
  BY <1>1, <1>2, <1>3, <1>4, <1>5

\* A complete header.
LEMMA ChunkStartKeeps == BuffersInv /\ ChunkStart => BuffersInv'
<1> SUFFICES ASSUME BuffersInv, ChunkStart PROVE BuffersInv'
  OBVIOUS
<1>1. PICK i \in ChunkRead :
        /\ SetStatus("OK", CASE image.chunks[i].type = "raw" -> "CHUNK_DATA"
                             [] image.chunks[i].type = "skip" -> "CHUNK_HEADER"
                             [] image.chunks[i].type = "fill" -> "CHUNK_FILL"
                             [] image.chunks[i].type = "crc" -> "CHUNK_CRC", Minus(size, Used), buf + Used)
        /\ remain' = IF image.chunks[i].type = "skip" THEN 0 ELSE image.chunks[i].bytes
  BY DEF ChunkStart
<1>2. i \in DOMAIN image.chunks /\ image.chunks[i].type # "other"
  BY <1>1 DEF ChunkRead
<1>3. image.chunks[i].bytes \in Nat /\ Even(image.chunks[i].bytes) /\ image.chunks[i].type \in Types
  BY <1>2, ChunkFacts, EvenNumbers DEF BuffersInv, TypesKept
<1>4. status' = "OK" /\ phase' \in Phases /\ phase' # "SPARSE_HEADER" /\ size' = Minus(size, Used) /\ buf' = buf + Used
  <2>1. phase' = CASE image.chunks[i].type = "raw" -> "CHUNK_DATA"
                   [] image.chunks[i].type = "skip" -> "CHUNK_HEADER"
                   [] image.chunks[i].type = "fill" -> "CHUNK_FILL"
                   [] image.chunks[i].type = "crc" -> "CHUNK_CRC"
    BY <1>1 DEF SetStatus
  <2>2. phase' \in {"CHUNK_DATA", "CHUNK_HEADER", "CHUNK_FILL", "CHUNK_CRC"}
    BY <2>1, <1>2, <1>3 DEF Types
  <2> QED
    BY <1>1, <2>2 DEF SetStatus, Phases
<1>5. image.chunkHeader \in {ChunkHeader, ChunkHeader + 2} /\ Len(unhandled) \in Nat
      /\ Len(unhandled) + size >= image.chunkHeader /\ Len(unhandled) <= ChunkHeader
  BY ImageFacts DEF ChunkStart, BuffersInv, TypesKept, Counts
<1>6. Used \in Nat /\ Even(Used) /\ size >= Used
  <2>1. size \in Nat /\ Even(size) /\ Even(Len(unhandled))
    BY DEF BuffersInv, TypesKept, Parity
  <2>2. image.chunkHeader \in Nat /\ Even(image.chunkHeader) /\ Len(unhandled) <= image.chunkHeader
    BY <1>5, Sizes DEF Even
  <2> QED
    BY <1>5, <2>1, <2>2 DEF Used, Even
<1>7. size' = size - Used /\ size' \in Nat /\ Even(size') /\ buf' \in Nat /\ buf' + size' = buf + size
  <2>1. size \in Nat /\ Even(size) /\ buf \in Nat
    BY DEF BuffersInv, TypesKept, Parity
  <2>2. size' = size - Used
    BY <1>4, <1>6, <2>1 DEF Minus
  <2> QED
    BY <1>4, <1>6, <2>1, <2>2 DEF Even
<1>8. remain' \in Nat /\ Even(remain')
  BY <1>1, <1>3, EvenNumbers
<1>9. unhandled' = <<>> /\ Len(unhandled') = 0 /\ stage = "handle" /\ size > 0
      /\ UNCHANGED <<stage, image, received, content, padding, data>>
  BY EvenNumbers DEF ChunkStart, Handling, packageVars
<1> QED
  <2>1. TypesKept'
    BY <1>4, <1>7, <1>9 DEF BuffersInv, TypesKept, Outcomes
  <2>2. Parity'
    BY <1>4, <1>7, <1>8, <1>9, EvenNumbers DEF BuffersInv, Parity
  <2>3. Counts'
    BY <1>4, <1>7, <1>9, Sizes DEF BuffersInv, Counts
  <2>4. FirstPackage'
    BY <1>4, <1>9 DEF FirstPackage
  <2> QED
    BY <2>1, <2>2, <2>3, <2>4 DEF BuffersInv

\* The fill value and the CRC: two units are left, because the count is even.
LEMMA SeedStepsKeep == ASSUME BuffersInv, Crc \/ \E n \in 0 .. Room : Fill(n) PROVE BuffersInv'
<1>1. /\ stage = "handle" /\ size > 0 /\ status = "OK" /\ phase # "SPARSE_HEADER"
      /\ UNCHANGED <<stage, image, received, content, padding, data, unhandled>>
  BY EvenNumbers DEF Crc, Fill, Handling, packageVars
<1>2. size >= 2 /\ remain \in Nat /\ Even(remain)
  <2>1. size \in Nat /\ Even(size)
    BY DEF BuffersInv, TypesKept, Parity
  <2>2. size >= 2
    BY <1>1, <2>1 DEF Even
  <2> QED
    BY <1>1, <2>2 DEF BuffersInv, Parity
<1>3. \/ /\ status' = "EMMC_ERR" /\ UNCHANGED <<phase, size, buf>>
      \/ /\ status' = "OK" /\ phase' = "CHUNK_HEADER" /\ size' = size - 2 /\ buf' = buf + 2
         /\ remain' = 0
  BY <1>2 DEF Crc, Fill, SetStatus, Minus, Seed, BuffersInv, TypesKept
<1>4. CASE status' = "EMMC_ERR"
  <2>1. UNCHANGED <<phase, size, buf>>
    BY <1>3, <1>4
  <2> QED
    BY <1>1, <1>4, <2>1, EvenNumbers DEF BuffersInv, TypesKept, Outcomes, Parity, Counts, FirstPackage
<1>5. CASE status' = "OK"
  <2>1. phase' = "CHUNK_HEADER" /\ size' = size - 2 /\ buf' = buf + 2 /\ remain' = 0
    BY <1>3, <1>5
  <2>2. size' \in Nat /\ Even(size') /\ buf' \in Nat /\ buf' + size' = buf + size
    <3>1. size \in Nat /\ Even(size) /\ buf \in Nat
      BY DEF BuffersInv, TypesKept, Parity
    <3> QED
      BY <2>1, <1>2, <3>1 DEF Even
  <2> QED
    BY <1>1, <1>5, <2>1, <2>2, EvenNumbers DEF BuffersInv, TypesKept, Phases, Outcomes, Parity, Counts, FirstPackage
<1> QED
  BY <1>3, <1>4, <1>5

\* Raw data.
LEMMA DataStepsKeep ==
  ASSUME BuffersInv, WriteRest \/ WritePart \/ CarryTail \/ \E n \in 0 .. Room : WriteFails(n)
  PROVE  BuffersInv'
<1>1. /\ stage = "handle" /\ size > 0 /\ status = "OK" /\ phase = "CHUNK_DATA"
      /\ UNCHANGED <<stage, image, received, content, padding, data, unhandled>>
  BY EvenNumbers DEF WriteRest, WritePart, CarryTail, WriteFails, Handling, packageVars, unsparseVars
<1>2. remain \in Nat /\ Even(remain) /\ Even(size) /\ size \in Nat /\ buf \in Nat
  BY <1>1, EvenNumbers DEF BuffersInv, TypesKept, Parity
<1>3. CASE WriteRest
  <2>1. size' = size - remain /\ buf' = buf + remain /\ remain' = 0 /\ status' = "OK" /\ phase' = "CHUNK_HEADER" /\ size >= remain
    BY <1>3 DEF WriteRest, SetStatus
  <2>2. size' \in Nat /\ Even(size') /\ buf' \in Nat /\ buf' + size' = buf + size
    BY <2>1, <1>2 DEF Even
  <2> QED
    BY <1>1, <2>1, <2>2, EvenNumbers DEF BuffersInv, TypesKept, Phases, Outcomes, Parity, Counts, FirstPackage
<1>4. CASE WritePart
  <2>1. /\ size' = size - Blocks(size) /\ buf' = buf + Blocks(size) /\ remain' = remain - Blocks(size)
        /\ status' = "OK" /\ phase' = "CHUNK_DATA" /\ size < remain
    BY <1>4 DEF WritePart, SetStatus
  <2>2. /\ Blocks(size) \in Nat /\ Blocks(size) <= size /\ Even(Blocks(size))
        /\ size - Blocks(size) \in Nat /\ Even(size - Blocks(size))
    BY <1>2, BlocksOf, EvenNumbers
  <2>3. size' \in Nat /\ Even(size') /\ buf' \in Nat /\ buf' + size' = buf + size /\ remain' \in Nat /\ Even(remain')
    BY <2>1, <2>2, <1>2 DEF Even
  <2> QED
    BY <1>1, <2>1, <2>3, EvenNumbers DEF BuffersInv, TypesKept, Phases, Outcomes, Parity, Counts, FirstPackage
<1>5. CASE CarryTail
  <2>1. UNCHANGED <<size, buf, phase, remain>> /\ status' = "SPARSE_INCOMPLETE" /\ size < StorageBlock
    BY <1>1, <1>5 DEF CarryTail, SetStatus, unsparseVars
  <2> QED
    BY <1>1, <1>2, <2>1, EvenNumbers DEF BuffersInv, TypesKept, Outcomes, Parity, Counts, FirstPackage
<1>6. CASE \E n \in 0 .. Room : WriteFails(n)
  <2>1. UNCHANGED <<size, buf, phase>> /\ status' = "EMMC_ERR"
    BY <1>6 DEF WriteFails
  <2> QED
    BY <1>1, <2>1, EvenNumbers DEF BuffersInv, TypesKept, Outcomes, Parity, Counts, FirstPackage
<1> QED
  BY <1>3, <1>4, <1>5, <1>6

---------------------------------------------------------------------------

\* Invariance.  The pointer and the count stay in the package, a saved header in
\* unhandle_buf and a tail in the padding, wherever the packages end (BuffersHold;
\* sparse_state_machine.c:160, 168, transfer_parallel.c:193).
THEOREM BuffersAreKept == StreamSpec => []BuffersHold
<1>1. BuffersInv /\ [StreamNext]_streamVars => BuffersInv'
  <2>1. BuffersInv /\ UNCHANGED streamVars => BuffersInv'
    BY DEF streamVars, packageVars, unsparseVars, BuffersInv, TypesKept, Parity, Counts, FirstPackage
  <2>2. BuffersInv /\ StreamNext => BuffersInv'
    BY BeginKeeps, PackageKeeps, ReturnKeeps, HeaderStepsKeep, ChunkStartKeeps, SeedStepsKeep, DataStepsKeep DEF StreamNext
  <2> QED
    BY <2>1, <2>2
<1>2. BuffersInv => BuffersHold
  BY DEF BuffersInv, Counts, BuffersHold
<1> QED
  BY BuffersInit, <1>1, <1>2, PTL DEF StreamSpec

---------------------------------------------------------------------------
(* The layout of an image *)

\* Every set of naturals that is not empty has a least element.
LEMMA LeastNatural ==
    ASSUME NEW S \in SUBSET Nat, S # {}
    PROVE  \E n \in S : \A m \in S : n <= m
<1> DEFINE R == {x \in Nat \X Nat : x[1] < x[2]}
<1>1. IsWellFoundedOn(R, Nat)
  BY NatLessThanWellFounded DEF OpToRel
<1>2. PICK n \in S : \A m \in S : <<m, n>> \notin R
  BY <1>1, WFMin
<1>3. \A m \in S : ~(m < n)
  BY <1>2
<1>4. QED BY <1>2, <1>3

\* The sums of the first numbers of a sequence, from first on.
Sums(f, m, first, s) ==
    f \in [1 .. m -> Nat] /\ \A i \in 1 .. m : f[i] = IF i = 1 THEN first ELSE f[i - 1] + s[i - 1]

\* There is such a sequence of every length.
LEMMA SumsExist ==
    ASSUME NEW first \in Nat, NEW n \in Nat, NEW s \in [1 .. n -> Nat]
    PROVE  \E f : Sums(f, n, first, s)
<1> DEFINE Good(m, f) == Sums(f, m, first, s)
           Bad == {m \in 0 .. n : ~\E f : Good(m, f)}
<1> USE DEF Sums
<1>0. Bad = {} => \E f : Good(n, f)
  <2> HIDE DEF Good, Sums
  <2>1. n \in 0 .. n
    OBVIOUS
  <2>2. QED BY <2>1
<1>1. SUFFICES ASSUME Bad # {} PROVE FALSE
  BY <1>0
<1>2. PICK m \in Bad : \A k \in Bad : m <= k
  <2>1. Bad \in SUBSET Nat
    OBVIOUS
  <2> HIDE DEF Bad
  <2>2. QED BY <1>1, <2>1, LeastNatural
<1>3. m \in 0 .. n /\ ~\E f : Good(m, f)
  OBVIOUS
<1>4. CASE m = 0
  <2>1. Good(0, <<>>)
    OBVIOUS
  <2>2. QED BY <1>3, <1>4, <2>1
<1>5. CASE m # 0
  <2>1. m - 1 \in 0 .. n /\ m - 1 \notin Bad
    <3>1. m - 1 \in 0 .. n /\ ~ (m <= m - 1)
      BY <1>3, <1>5
    <3> HIDE DEF Bad
    <3>2. QED BY <1>2, <3>1
  <2>2. PICK f : Good(m - 1, f)
    BY <2>1
  <2> DEFINE v == IF m = 1 THEN first ELSE f[m - 1] + s[m - 1]
             g == [i \in 1 .. m |-> IF i = m THEN v ELSE f[i]]
  <2>3. v \in Nat
    BY <1>3, <1>5, <2>2
  <2>4. \A i \in 1 .. m - 1 : f[i] \in Nat
    BY <2>2
  <2>5. g \in [1 .. m -> Nat]
    <3> HIDE DEF v
    <3>1. \A i \in 1 .. m : i # m => i \in 1 .. m - 1
      BY <1>3
    <3>2. QED BY <2>3, <2>4, <3>1
  <2>6. ASSUME NEW i \in 1 .. m PROVE g[i] = IF i = 1 THEN first ELSE g[i - 1] + s[i - 1]
    <3>1. CASE i = m
      <4>1. i # 1 => i - 1 \in 1 .. m /\ g[i - 1] = f[i - 1]
        BY <1>3, <3>1
      <4>2. g[i] = v
        BY <3>1
      <4>3. QED BY <3>1, <4>1, <4>2
    <3>2. CASE i # m
      <4>1. i \in 1 .. m - 1 /\ (i # 1 => i - 1 \in 1 .. m - 1 /\ i - 1 # m /\ i - 1 \in 1 .. m)
        BY <1>3, <3>2
      <4>2. f[i] = IF i = 1 THEN first ELSE f[i - 1] + s[i - 1]
        BY <2>2, <4>1
      <4>3. g[i] = f[i] /\ (i # 1 => g[i - 1] = f[i - 1])
        BY <3>2, <4>1
      <4>4. QED BY <4>2, <4>3
    <3>3. QED BY <3>1, <3>2
  <2> HIDE DEF g
  <2>7. Good(m, g)
    BY <2>5, <2>6
  <2>8. QED BY <1>3, <2>7
<1>6. QED BY <1>4, <1>5

\* Whatever obeys the recursion is a sequence of numbers, and grows.
LEMMA SumsAreNumbers ==
    ASSUME NEW first \in Nat, NEW n \in Nat, NEW s, \A i \in 1 .. n - 1 : s[i] \in Nat, NEW f,
           \A i \in 1 .. n : f[i] = IF i = 1 THEN first ELSE f[i - 1] + s[i - 1]
    PROVE  \A i \in 1 .. n : f[i] \in Nat
<1> SUFFICES ASSUME NEW i0 \in 1 .. n, f[i0] \notin Nat PROVE FALSE
  OBVIOUS
<1> DEFINE Bad == {i \in 1 .. n : f[i] \notin Nat}
<1>1. PICK i \in Bad : \A k \in Bad : i <= k
  <2>1. Bad \in SUBSET Nat /\ i0 \in Bad
    OBVIOUS
  <2> HIDE DEF Bad
  <2>2. QED BY <2>1, LeastNatural
<1>2. i \in 1 .. n /\ f[i] \notin Nat
  OBVIOUS
<1>3. i # 1
  BY <1>2
<1>4. i - 1 \in 1 .. n /\ ~ (i <= i - 1) /\ i - 1 \in 1 .. n - 1
  BY <1>2, <1>3
<1>5. f[i - 1] \in Nat
  <2>1. i - 1 \notin Bad
    <3> HIDE DEF Bad
    <3>1. QED BY <1>1, <1>4
  <2>2. QED BY <1>4, <2>1
<1>6. f[i] = f[i - 1] + s[i - 1] /\ s[i - 1] \in Nat
  BY <1>2, <1>3, <1>4
<1>7. QED BY <1>2, <1>5, <1>6

\* A later sum is at least an earlier one and the number added to it.
LEMMA SumsGrow ==
    ASSUME NEW n \in Nat, NEW s, \A i \in 1 .. n - 1 : s[i] \in Nat, NEW f, \A i \in 1 .. n : f[i] \in Nat,
           \A i \in 1 .. n - 1 : f[i + 1] = f[i] + s[i]
    PROVE  \A i, j \in 1 .. n : i < j => f[i] + s[i] <= f[j]
<1> SUFFICES ASSUME NEW i \in 1 .. n, NEW j0 \in 1 .. n, i < j0, ~ (f[i] + s[i] <= f[j0]) PROVE FALSE
  OBVIOUS
<1> DEFINE Bad == {j \in 1 .. n : i < j /\ ~ (f[i] + s[i] <= f[j])}
<1>1. PICK j \in Bad : \A k \in Bad : j <= k
  <2>1. Bad \in SUBSET Nat /\ j0 \in Bad
    OBVIOUS
  <2> HIDE DEF Bad
  <2>2. QED BY <2>1, LeastNatural
<1>2. j \in 1 .. n /\ i < j /\ ~ (f[i] + s[i] <= f[j]) /\ i \in 1 .. n - 1
  OBVIOUS
<1>3. j # i + 1
  BY <1>2
<1>4. j - 1 \in 1 .. n /\ i < j - 1 /\ j - 1 \in 1 .. n - 1 /\ ~ (j <= j - 1) /\ (j - 1) + 1 = j
  BY <1>2, <1>3
<1>5. f[i] + s[i] <= f[j - 1]
  <2>1. j - 1 \notin Bad
    <3> HIDE DEF Bad
    <3>1. QED BY <1>1, <1>4
  <2>2. QED BY <1>4, <2>1
<1>6. f[j] = f[j - 1] + s[j - 1] /\ f[j - 1] \in Nat /\ s[j - 1] \in Nat /\ f[i] \in Nat /\ s[i] \in Nat
  BY <1>2, <1>4
<1>7. f[i] + s[i] <= f[j]
  <2>1. \A x, y, z \in Nat : x <= y => x <= y + z
    OBVIOUS
  <2>2. f[i] + s[i] \in Nat
    BY <1>6
  <2>3. QED BY <1>5, <1>6, <2>1, <2>2
<1>8. QED BY <1>2, <1>7

\* The lengths of a chunk.
LEMMA ChunkLengths ==
    ASSUME NEW img \in Images, NEW i \in DOMAIN img.chunks
    PROVE  /\ Body(img.chunks[i]) \in Nat /\ Covered(img.chunks[i]) \in Nat
           /\ i \in 1 .. Len(img.chunks)
BY ChunkFacts, ImagesAssumption DEF Body, Covered, Types, Seed

\* Where the headers of an image lie: each behind the body of the chunk before.
LEMMA HeadersLie ==
    ASSUME NEW img \in Images
    PROVE  LET n == Len(img.chunks)
           IN  /\ n \in Nat /\ DOMAIN img.chunks = 1 .. n
               /\ \A i \in 1 .. n : HeaderAt[img][i] \in Nat
               /\ n # 0 => HeaderAt[img][1] = img.fileHeader + 1
               /\ \A i \in 1 .. n - 1 :
                    HeaderAt[img][i + 1] = HeaderAt[img][i] + (img.chunkHeader + Body(img.chunks[i]))
               /\ \A i, j \in 1 .. n : i < j =>
                    HeaderAt[img][i] + (img.chunkHeader + Body(img.chunks[i])) <= HeaderAt[img][j]
<1> DEFINE n == Len(img.chunks)
           s == [i \in 1 .. n |-> img.chunkHeader + Body(img.chunks[i])]
           first == img.fileHeader + 1
           h == CHOOSE at : at = [i \in DOMAIN img.chunks |->
                   IF i = 1 THEN img.fileHeader + 1 ELSE at[i - 1] + img.chunkHeader + Body(img.chunks[i - 1])]
<1>1. n \in Nat /\ DOMAIN img.chunks = 1 .. n
  BY ImagesAssumption
<1>2. img.chunkHeader \in Nat /\ first \in Nat
  BY ImageFacts, Sizes
<1>3. s \in [1 .. n -> Nat] /\ \A i \in 1 .. n : s[i] = img.chunkHeader + Body(img.chunks[i]) /\ Body(img.chunks[i]) \in Nat
  BY <1>1, <1>2, ChunkLengths
<1>4. PICK f \in [1 .. n -> Nat] : \A i \in 1 .. n : f[i] = IF i = 1 THEN first ELSE f[i - 1] + s[i - 1]
  <2> HIDE DEF n, s, first
  <2>1. \E f : Sums(f, n, first, s)
    BY <1>1, <1>2, <1>3, SumsExist
  <2>2. QED BY <2>1 DEF Sums
<1>5. ASSUME NEW i \in 1 .. n
      PROVE  f[i] = IF i = 1 THEN first ELSE f[i - 1] + img.chunkHeader + Body(img.chunks[i - 1])
  <2>1. i # 1 => i - 1 \in 1 .. n
    BY <1>1
  <2>2. i # 1 => f[i - 1] \in Nat /\ Body(img.chunks[i - 1]) \in Nat /\ s[i - 1] = img.chunkHeader + Body(img.chunks[i - 1])
    BY <1>3, <1>4, <2>1
  <2>3. QED BY <1>2, <1>4, <2>2
<1>6. f = [i \in DOMAIN img.chunks |->
             IF i = 1 THEN img.fileHeader + 1 ELSE f[i - 1] + img.chunkHeader + Body(img.chunks[i - 1])]
  BY <1>1, <1>4, <1>5
<1>7. HeaderAt[img] = h
  BY DEF HeaderAt
<1>8. h = [i \in DOMAIN img.chunks |->
             IF i = 1 THEN img.fileHeader + 1 ELSE h[i - 1] + img.chunkHeader + Body(img.chunks[i - 1])]
  BY <1>6
<1> HIDE DEF h
<1>9. \A i \in 1 .. n : h[i] = IF i = 1 THEN first ELSE h[i - 1] + img.chunkHeader + Body(img.chunks[i - 1])
  BY <1>1, <1>8
<1>10. \A i \in 1 .. n : h[i] \in Nat
  <2> SUFFICES ASSUME NEW i0 \in 1 .. n, h[i0] \notin Nat PROVE FALSE
    OBVIOUS
  <2> DEFINE Bad == {i \in 1 .. n : h[i] \notin Nat}
  <2>1. PICK i \in Bad : \A k \in Bad : i <= k
    <3>1. Bad \in SUBSET Nat /\ i0 \in Bad
      OBVIOUS
    <3> HIDE DEF Bad
    <3>2. QED BY <3>1, LeastNatural
  <2>2. i \in 1 .. n /\ h[i] \notin Nat
    OBVIOUS
  <2>3. i # 1
    BY <1>2, <1>9, <2>2
  <2>4. i - 1 \in 1 .. n /\ ~ (i <= i - 1)
    BY <1>1, <2>2, <2>3
  <2>5. h[i - 1] \in Nat
    <3>1. i - 1 \notin Bad
      <4> HIDE DEF Bad
      <4>1. QED BY <2>1, <2>4
    <3>2. QED BY <2>4, <3>1
  <2>6. h[i] = h[i - 1] + img.chunkHeader + Body(img.chunks[i - 1]) /\ Body(img.chunks[i - 1]) \in Nat
    BY <1>3, <1>9, <2>2, <2>3, <2>4
  <2>7. QED BY <1>2, <2>2, <2>5, <2>6
<1>11. \A i \in 1 .. n - 1 : h[i + 1] = h[i] + s[i]
  <2> TAKE i \in 1 .. n - 1
  <2>1. i + 1 \in 1 .. n /\ i + 1 # 1 /\ (i + 1) - 1 = i /\ i \in 1 .. n
    BY <1>1
  <2>2. h[i + 1] = h[i] + img.chunkHeader + Body(img.chunks[i])
    BY <1>9, <2>1
  <2>3. h[i] \in Nat /\ s[i] = img.chunkHeader + Body(img.chunks[i]) /\ Body(img.chunks[i]) \in Nat
    BY <1>3, <1>10, <2>1
  <2>4. QED BY <1>2, <2>2, <2>3
<1>12. \A i, j \in 1 .. n : i < j => h[i] + s[i] <= h[j]
  <2>1. \A i \in 1 .. n - 1 : s[i] \in Nat
    BY <1>1, <1>3
  <2> HIDE DEF n, s
  <2>2. QED BY <1>1, <1>10, <1>11, <2>1, SumsGrow
<1>13. n # 0 => h[1] = first
  BY <1>1, <1>9
<1>14. \A i \in 1 .. n - 1 : h[i + 1] = h[i] + (img.chunkHeader + Body(img.chunks[i]))
  <2>1. \A i \in 1 .. n - 1 : i \in 1 .. n
    BY <1>1
  <2>2. QED BY <1>3, <1>11, <2>1, Zenon
<1>15. \A i, j \in 1 .. n : i < j => h[i] + (img.chunkHeader + Body(img.chunks[i])) <= h[j]
  BY <1>3, <1>12, Zenon
<1>16. QED BY <1>1, <1>7, <1>10, <1>13, <1>14, <1>15, Zenon

\* Where the output of the chunks begins, and that of the last one ends.
LEMMA OutputsLie ==
    ASSUME NEW img \in Images
    PROVE  LET n == Len(img.chunks)
           IN  /\ \A i \in 1 .. n + 1 : AddressAt[img][i] \in Nat
               /\ AddressAt[img][1] = 0
               /\ \A i \in 1 .. n : AddressAt[img][i + 1] = AddressAt[img][i] + Covered(img.chunks[i])
               /\ \A i \in 1 .. n : \A j \in 1 .. n + 1 : i < j =>
                    AddressAt[img][i] + Covered(img.chunks[i]) <= AddressAt[img][j]
<1> DEFINE n == Len(img.chunks)
           s == [i \in 1 .. n + 1 |-> IF i \in 1 .. n THEN Covered(img.chunks[i]) ELSE 0]
           h == CHOOSE at : at = [i \in 1 .. n + 1 |-> IF i = 1 THEN 0 ELSE at[i - 1] + Covered(img.chunks[i - 1])]
<1>1. n \in Nat /\ DOMAIN img.chunks = 1 .. n /\ n + 1 \in Nat
  BY ImagesAssumption
<1>2. s \in [1 .. n + 1 -> Nat] /\ \A i \in 1 .. n : i \in 1 .. n + 1 /\ s[i] = Covered(img.chunks[i]) /\ Covered(img.chunks[i]) \in Nat
  BY <1>1, ChunkLengths
<1>3. PICK f \in [1 .. n + 1 -> Nat] : \A i \in 1 .. n + 1 : f[i] = IF i = 1 THEN 0 ELSE f[i - 1] + s[i - 1]
  <2> DEFINE m == n + 1
  <2>1. \E f : Sums(f, m, 0, s)
    <3>1. m \in Nat /\ s \in [1 .. m -> Nat] /\ 0 \in Nat
      BY <1>1, <1>2
    <3> HIDE DEF n, s, m
    <3>2. QED BY <3>1, SumsExist
  <2>2. QED BY <2>1 DEF Sums
<1>4. ASSUME NEW i \in 1 .. n + 1
      PROVE  f[i] = IF i = 1 THEN 0 ELSE f[i - 1] + Covered(img.chunks[i - 1])
  <2>1. i # 1 => i - 1 \in 1 .. n
    BY <1>1
  <2>2. i # 1 => s[i - 1] = Covered(img.chunks[i - 1])
    BY <1>2, <2>1
  <2>3. QED BY <1>3, <2>2
<1>5. f = [i \in 1 .. n + 1 |-> IF i = 1 THEN 0 ELSE f[i - 1] + Covered(img.chunks[i - 1])]
  BY <1>3, <1>4
<1>6. AddressAt[img] = h
  BY DEF AddressAt
<1>7. h = [i \in 1 .. n + 1 |-> IF i = 1 THEN 0 ELSE h[i - 1] + Covered(img.chunks[i - 1])]
  BY <1>5
<1> HIDE DEF h
<1>8. \A i \in 1 .. n + 1 : h[i] = IF i = 1 THEN 0 ELSE h[i - 1] + s[i - 1]
  <2> TAKE i \in 1 .. n + 1
  <2>1. h[i] = IF i = 1 THEN 0 ELSE h[i - 1] + Covered(img.chunks[i - 1])
    BY <1>7
  <2>2. i # 1 => i - 1 \in 1 .. n
    BY <1>1
  <2>3. i # 1 => s[i - 1] = Covered(img.chunks[i - 1])
    BY <1>2, <2>2
  <2>4. QED BY <2>1, <2>3
<1>9. PICK m \in Nat : m = n + 1 /\ m - 1 = n
  BY <1>1
<1>10. \A i \in 1 .. m - 1 : s[i] \in Nat
  BY <1>2, <1>9
<1>11. \A i \in 1 .. m : h[i] \in Nat
  <2>1. \A i \in 1 .. m : h[i] = IF i = 1 THEN 0 ELSE h[i - 1] + s[i - 1]
    BY <1>8, <1>9
  <2>2. 0 \in Nat
    OBVIOUS
  <2> HIDE DEF n, s
  <2>3. QED BY <1>10, <2>1, <2>2, SumsAreNumbers
<1>12. \A i \in 1 .. m - 1 : h[i + 1] = h[i] + s[i]
  <2> TAKE i \in 1 .. m - 1
  <2>1. i + 1 \in 1 .. n + 1 /\ i + 1 # 1 /\ (i + 1) - 1 = i
    BY <1>1, <1>9
  <2>2. QED BY <1>8, <2>1
<1>13. \A i, j \in 1 .. m : i < j => h[i] + s[i] <= h[j]
  <2> HIDE DEF n, s
  <2>1. QED BY <1>10, <1>11, <1>12, SumsGrow
<1>14. h[1] = 0
  <2>1. 1 \in 1 .. n + 1
    BY <1>1
  <2>2. QED BY <1>8, <2>1
<1>15. \A i \in 1 .. n : h[i + 1] = h[i] + Covered(img.chunks[i])
  <2>1. \A i \in 1 .. n : i \in 1 .. m - 1
    BY <1>9
  <2>2. QED BY <1>2, <1>12, <2>1, Zenon
<1>16. \A i \in 1 .. n : \A j \in 1 .. n + 1 : i < j => h[i] + Covered(img.chunks[i]) <= h[j]
  <2>1. \A i \in 1 .. n : i \in 1 .. m
    BY <1>2, <1>9
  <2>2. QED BY <1>2, <1>9, <1>13, <2>1, Zenon
<1>17. QED BY <1>6, <1>9, <1>11, <1>14, <1>15, <1>16, Zenon

---------------------------------------------------------------------------
(* What the image means *)

\* The chunks of the image.
Count == Len(image.chunks)

\* The position of the unit behind the header of chunk i.
BodyAt(i) == HeaderAt[image][i] + image.chunkHeader

\* The position where the header of the chunk after chunk p begins.
Start(p) == IF p = 0 THEN image.fileHeader + 1 ELSE BodyAt(p) + Body(image.chunks[p])

\* Where chunk i, and its output, lie.
LEMMA Layout ==
    ASSUME image \in Images
    PROVE  /\ Count \in Nat /\ DOMAIN image.chunks = 1 .. Count
           /\ image.chunkHeader \in Nat /\ image.chunkHeader > 0 /\ image.fileHeader \in Nat
           /\ \A i \in 1 .. Count :
                /\ HeaderAt[image][i] \in Nat /\ BodyAt(i) \in Nat /\ BodyAt(i) = HeaderAt[image][i] + image.chunkHeader
                /\ HeaderAt[image][i] = Start(i - 1)
                /\ AddressAt[image][i] \in Nat
                /\ image.chunks[i].bytes \in Nat /\ image.chunks[i].type \in Types
                /\ Body(image.chunks[i]) \in Nat /\ Covered(image.chunks[i]) \in Nat
                /\ AddressAt[image][i + 1] = AddressAt[image][i] + Covered(image.chunks[i])
           /\ AddressAt[image][1] = 0
           /\ \A p \in 0 .. Count : Start(p) \in Nat /\ AddressAt[image][p + 1] \in Nat
<1> DEFINE n == Len(image.chunks)
<1>1. /\ n \in Nat /\ DOMAIN image.chunks = 1 .. n
      /\ \A i \in 1 .. n : HeaderAt[image][i] \in Nat
      /\ n # 0 => HeaderAt[image][1] = image.fileHeader + 1
      /\ \A i \in 1 .. n - 1 : HeaderAt[image][i + 1] = HeaderAt[image][i] + (image.chunkHeader + Body(image.chunks[i]))
  BY HeadersLie
<1>2. /\ \A i \in 1 .. n + 1 : AddressAt[image][i] \in Nat
      /\ AddressAt[image][1] = 0
      /\ \A i \in 1 .. n : AddressAt[image][i + 1] = AddressAt[image][i] + Covered(image.chunks[i])
  BY OutputsLie
<1>3. image.chunkHeader \in Nat /\ image.chunkHeader > 0 /\ image.fileHeader \in Nat
  BY ImageFacts, Sizes
<1>4. \A i \in 1 .. n : /\ image.chunks[i].bytes \in Nat /\ image.chunks[i].type \in Types
                        /\ Body(image.chunks[i]) \in Nat /\ Covered(image.chunks[i]) \in Nat
  BY <1>1, ChunkFacts, ChunkLengths
<1>5. \A i \in 1 .. n : BodyAt(i) = HeaderAt[image][i] + image.chunkHeader /\ BodyAt(i) \in Nat
  BY <1>1, <1>3 DEF BodyAt
<1>6. \A p \in 0 .. n : Start(p) \in Nat /\ AddressAt[image][p + 1] \in Nat
  <2> TAKE p \in 0 .. n
  <2>1. CASE p = 0
    BY <1>2, <1>3, <2>1 DEF Start
  <2>2. CASE p # 0
    <3>1. p \in 1 .. n /\ p + 1 \in 1 .. n + 1
      BY <1>1, <2>2
    <3>2. QED BY <1>2, <1>4, <1>5, <2>2, <3>1 DEF Start
  <2>3. QED BY <2>1, <2>2
<1>7. ASSUME NEW i \in 1 .. n PROVE HeaderAt[image][i] = Start(i - 1)
  <2>1. CASE i = 1
    BY <1>1, <2>1 DEF Start
  <2>2. CASE i # 1
    <3>1. i - 1 \in 1 .. n - 1 /\ i - 1 \in 1 .. n /\ (i - 1) + 1 = i
      BY <1>1, <2>2
    <3>2. HeaderAt[image][i] = HeaderAt[image][i - 1] + (image.chunkHeader + Body(image.chunks[i - 1]))
      BY <1>1, <3>1
    <3>3. Start(i - 1) = (HeaderAt[image][i - 1] + image.chunkHeader) + Body(image.chunks[i - 1])
      BY <1>5, <2>2, <3>1 DEF Start
    <3>4. HeaderAt[image][i - 1] \in Nat /\ Body(image.chunks[i - 1]) \in Nat
      BY <1>1, <1>4, <3>1
    <3>5. QED BY <1>3, <3>2, <3>3, <3>4
  <2>3. QED BY <2>1, <2>2
<1>8. \A i \in 1 .. n : AddressAt[image][i] \in Nat
  BY <1>1, <1>2
<1>9. n = Count
  BY DEF Count
<1> HIDE DEF n
<1>10. QED BY <1>1, <1>2, <1>3, <1>4, <1>5, <1>6, <1>7, <1>8, <1>9

\* What chunks there are, each stands for its own addresses.
LEMMA Apart ==
    ASSUME image \in Images
    PROVE  /\ \A i, j \in 1 .. Count : i < j => BodyAt(i) + Body(image.chunks[i]) <= HeaderAt[image][j]
           /\ \A i \in 1 .. Count : \A j \in 1 .. Count + 1 : i < j =>
                 AddressAt[image][i] + Covered(image.chunks[i]) <= AddressAt[image][j]
<1> DEFINE n == Len(image.chunks)
<1>1. \A i, j \in 1 .. n : i < j => HeaderAt[image][i] + (image.chunkHeader + Body(image.chunks[i])) <= HeaderAt[image][j]
  BY HeadersLie
<1>2. \A i \in 1 .. n : \A j \in 1 .. n + 1 : i < j => AddressAt[image][i] + Covered(image.chunks[i]) <= AddressAt[image][j]
  BY OutputsLie
<1>3. \A i \in 1 .. n : BodyAt(i) + Body(image.chunks[i]) = HeaderAt[image][i] + (image.chunkHeader + Body(image.chunks[i]))
  <2> SUFFICES ASSUME NEW i \in 1 .. n
               PROVE  BodyAt(i) + Body(image.chunks[i]) = HeaderAt[image][i] + (image.chunkHeader + Body(image.chunks[i]))
    OBVIOUS
  <2>1. n = Count
    BY DEF Count
  <2>2. /\ HeaderAt[image][i] \in Nat /\ BodyAt(i) = HeaderAt[image][i] + image.chunkHeader
        /\ Body(image.chunks[i]) \in Nat /\ image.chunkHeader \in Nat
    BY <2>1, Layout
  <2> QED BY <2>2
<1>4. QED BY <1>1, <1>2, <1>3 DEF Count

\* What belongs at an address that chunk i stands for.
LEMMA MeaningIs ==
    ASSUME image \in Images, NEW i \in 1 .. Count,
           NEW a \in AddressAt[image][i] .. AddressAt[image][i] + Covered(image.chunks[i]) - 1
    PROVE  /\ image.chunks[i].type = "skip" => Meaning(a) = Old
           /\ image.chunks[i].type = "raw" => Meaning(a) = BodyAt(i) + (a - AddressAt[image][i])
           /\ image.chunks[i].type = "fill" => Meaning(a) = BodyAt(i) + ((a - AddressAt[image][i]) % Seed)
<1> DEFINE there == {j \in DOMAIN image.chunks : AddressAt[image][j] <= a /\ a < AddressAt[image][j] + Covered(image.chunks[j])}
<1>1. /\ Count \in Nat /\ DOMAIN image.chunks = 1 .. Count
      /\ \A j \in 1 .. Count : AddressAt[image][j] \in Nat /\ Covered(image.chunks[j]) \in Nat
  BY Layout
<1>2. i \in there
  BY <1>1
<1>3. ASSUME NEW j \in there PROVE j = i
  <2>1. j \in 1 .. Count /\ AddressAt[image][j] <= a /\ a < AddressAt[image][j] + Covered(image.chunks[j])
    BY <1>1
  <2>2. AddressAt[image][i] <= a /\ a < AddressAt[image][i] + Covered(image.chunks[i]) /\ a \in Int
    BY <1>1
  <2>3. j < i => AddressAt[image][j] + Covered(image.chunks[j]) <= AddressAt[image][i]
    BY <1>1, <2>1, Apart
  <2>4. i < j => AddressAt[image][i] + Covered(image.chunks[i]) <= AddressAt[image][j]
    BY <1>1, <2>1, Apart
  <2>5. /\ AddressAt[image][j] \in Nat /\ Covered(image.chunks[j]) \in Nat /\ j \in Nat
        /\ AddressAt[image][i] \in Nat /\ Covered(image.chunks[i]) \in Nat /\ i \in Nat
    BY <1>1, <2>1
  <2>6. ~(j < i)
    BY <2>1, <2>2, <2>3, <2>5
  <2>7. ~(i < j)
    BY <2>1, <2>2, <2>4, <2>5
  <2>8. QED BY <2>5, <2>6, <2>7
<1>4. there = {i}
  BY <1>2, <1>3
<1> DEFINE k == CHOOSE j \in there : TRUE
<1>5. k = i
  <2> HIDE DEF there
  <2>1. QED BY <1>4
<1>6. Meaning(a) = IF there = {} THEN Old
                   ELSE CASE image.chunks[k].type = "skip" -> Old
                     [] image.chunks[k].type = "raw" -> HeaderAt[image][k] + image.chunkHeader + (a - AddressAt[image][k])
                     [] image.chunks[k].type = "fill" -> HeaderAt[image][k] + image.chunkHeader + ((a - AddressAt[image][k]) % Seed)
  BY DEF Meaning
<1>7. there # {}
  BY <1>2
<1> HIDE DEF there, k
<1>8. QED BY <1>5, <1>6, <1>7 DEF BodyAt

\* Nothing belongs behind the output of the last chunk.
LEMMA NothingBeyond ==
    ASSUME image \in Images, NEW a \in Int, a >= AddressAt[image][Count + 1]
    PROVE  Meaning(a) = Old
<1> DEFINE there == {j \in DOMAIN image.chunks : AddressAt[image][j] <= a /\ a < AddressAt[image][j] + Covered(image.chunks[j])}
           i == CHOOSE j \in there : TRUE
<1>1. ASSUME NEW j \in there PROVE FALSE
  <2>0. Count \in Nat /\ DOMAIN image.chunks = 1 .. Count
    BY Layout
  <2>1. j \in 1 .. Count /\ a < AddressAt[image][j] + Covered(image.chunks[j]) /\ Count + 1 \in 1 .. Count + 1 /\ j < Count + 1
         /\ Count \in 0 .. Count
    BY <2>0
  <2>2. AddressAt[image][j] + Covered(image.chunks[j]) <= AddressAt[image][Count + 1]
    BY <2>1, Apart
  <2>3. AddressAt[image][j] \in Nat /\ Covered(image.chunks[j]) \in Nat /\ AddressAt[image][Count + 1] \in Nat
    BY <2>1, Layout
  <2>4. QED BY <2>1, <2>2, <2>3
<1>2. there = {}
  BY <1>1
<1>3. Meaning(a) = IF there = {} THEN Old
                   ELSE CASE image.chunks[i].type = "skip" -> Old
                     [] image.chunks[i].type = "raw" -> HeaderAt[image][i] + image.chunkHeader + (a - AddressAt[image][i])
                     [] image.chunks[i].type = "fill" -> HeaderAt[image][i] + image.chunkHeader + ((a - AddressAt[image][i]) % Seed)
  BY DEF Meaning
<1> HIDE DEF there, i
<1> QED
  BY <1>2, <1>3

---------------------------------------------------------------------------
(* The image arrives *)

\* No error so far.
Alive == status \in {"OK", "SPARSE_INCOMPLETE"}

\* What the machine has of the stream and has not consumed, and the position where it begins.
Left == IF stage = "handle" THEN size ELSE Len(padding)
Here == received - Left + 1

\* The package and the padding are the last stretch of the stream.
Stretch ==
    /\ stage = "handle" =>
        /\ \A k \in 1 .. Len(data) : data[k] = received - Len(data) + k
        /\ content = Page \/ received = image.sent
    /\ stage = "package" => \A k \in 1 .. Len(padding) : padding[k] = received - Len(padding) + k
    /\ stage = "end" /\ status = "OK" /\ phase # "SPARSE_HEADER" => received = image.sent
    /\ status = "SPARSE_INCOMPLETE" => stage = "handle" /\ phase = "CHUNK_DATA"

\* Nothing is written before the file's header, with which the first package begins.
AtFileHeader ==
    phase = "SPARSE_HEADER" =>
        /\ \A a \in DOMAIN partition : partition[a] = Old
        /\ stage = "handle" => size = received

\* The saved piece is the beginning of the next header, or the stream ended inside it.
InHeader ==
    \/ /\ Here = Start(processed) + Len(unhandled)
       /\ Len(unhandled) < image.chunkHeader
       /\ \A k \in 1 .. Len(unhandled) : unhandled[k] = Start(processed) + (k - 1)
       /\ unhandled # <<>> /\ stage = "handle" => size \in {0, content}
    \/ /\ received = image.sent /\ Here < Start(processed) + image.chunkHeader
       /\ stage = "handle" => size = 0

\* The output has come to the beginning of the next chunk's.
AtChunkHeader ==
    /\ offset = AddressAt[image][processed + 1]
    /\ processed < Count => InHeader

\* In raw data: the units that remain are those of the chunk's end, in the stream as in
\* the output; a tail that was carried over is shorter.
InRaw ==
    LET c == image.chunks[processed]
    IN  /\ c.type = "raw" /\ remain <= c.bytes
        /\ Here = BodyAt(processed) + (c.bytes - remain)
        /\ offset = AddressAt[image][processed] + (c.bytes - remain)
        /\ stage # "handle" /\ padding # <<>> => Len(padding) < remain
        /\ status = "SPARSE_INCOMPLETE" => size < remain

\* A fill value is next, and none of it is written.
AtFill ==
    LET c == image.chunks[processed]
    IN  /\ c.type = "fill" /\ remain = c.bytes
        /\ Here = BodyAt(processed)
        /\ offset = AddressAt[image][processed]

\* A CRC is next.
AtCrc ==
    /\ image.chunks[processed].type = "crc"
    /\ Here = BodyAt(processed)
    /\ offset = AddressAt[image][processed + 1]

\* Where in the image the machine is, as long as nothing failed.
Place ==
    /\ phase = "CHUNK_HEADER" => AtChunkHeader
    /\ phase # "CHUNK_HEADER" => processed >= 1 /\ unhandled = <<>>
    /\ phase = "CHUNK_DATA" => InRaw
    /\ phase = "CHUNK_FILL" => AtFill
    /\ phase = "CHUNK_CRC" => AtCrc
    /\ phase # "CHUNK_DATA" /\ stage # "handle" => padding = <<>>

\* The output is what the image says, up to the offset.
Right == \A a \in DOMAIN partition : partition[a] = Meaning(a) \/ (a >= offset /\ partition[a] = Old)

\* The machine follows the image.
Follows ==
    /\ processed \in 0 .. Count
    /\ Alive => Place
    /\ status = "UNKNOWN_CHUNK_TYPE" => processed < Count /\ image.chunks[processed + 1].type = "other"
    /\ Right

\* The partition is as long as it was.
OutputTypes == offset \in Nat /\ partition = [a \in 0 .. Room - 1 |-> partition[a]]

\* The inductive invariant: the machine stays in its buffers, and follows the image from
\* the file's header on.
StreamInv ==
    /\ BuffersInv /\ OutputTypes /\ Stretch /\ AtFileHeader
    /\ phase # "SPARSE_HEADER" => Follows

---------------------------------------------------------------------------

\* A step leaves the image alone, and so what it means.
LEMMA SameImage ==
    ASSUME image' = image
    PROVE  /\ Count' = Count
           /\ \A i : BodyAt(i)' = BodyAt(i)
           /\ \A p : Start(p)' = Start(p)
           /\ \A a : Meaning(a)' = Meaning(a)
<1>1. Count' = Count
  BY DEF Count
<1>2. \A i : BodyAt(i)' = BodyAt(i)
  BY DEF BodyAt
<1>3. \A p : Start(p)' = Start(p)
  BY <1>2 DEF Start
<1>4. \A a : Meaning(a)' = Meaning(a)
  BY DEF Meaning
<1> QED
  BY <1>1, <1>2, <1>3, <1>4

\* A step that writes nothing leaves the output right.
LEMMA RightKept ==
    ASSUME Right, image' = image, partition' = partition, offset' = offset
    PROVE  Right'
BY SameImage DEF Right

\* A write of what belongs there, n units at the offset, of which m are counted.
LEMMA WriteIsRight ==
    ASSUME OutputTypes, Right, image' = image, NEW source, NEW n \in Nat, NEW m \in 0 .. n,
           partition' = Written(source, n), offset' = offset + m,
           \A a \in offset .. offset + n - 1 : source[a - offset + 1] = Meaning(a)
    PROVE  OutputTypes' /\ Right'
<1>1. offset \in Nat /\ DOMAIN partition = 0 .. Room - 1 /\ Room \in Nat
  BY SizesAssumption DEF OutputTypes
<1>2. partition' = [a \in 0 .. Room - 1 |-> IF a \in offset .. offset + n - 1 THEN source[a - offset + 1] ELSE partition[a]]
  BY <1>1 DEF Written
<1>3. OutputTypes'
  BY <1>1, <1>2 DEF OutputTypes
<1>4. ASSUME NEW a \in 0 .. Room - 1
      PROVE  partition'[a] = Meaning(a) \/ (a >= offset' /\ partition'[a] = Old)
  <2>1. CASE a \in offset .. offset + n - 1
    <3>1. partition'[a] = source[a - offset + 1]
      BY <1>2, <2>1
    <3> QED BY <2>1, <3>1
  <2>2. CASE a \notin offset .. offset + n - 1
    <3>1. partition'[a] = partition[a]
      BY <1>2, <2>2
    <3>2. partition[a] = Meaning(a) \/ (a >= offset /\ partition[a] = Old)
      BY <1>1 DEF Right
    <3>3. a >= offset => a >= offset + m
      BY <1>1, <2>2
    <3> QED BY <3>1, <3>2, <3>3
  <2> QED BY <2>1, <2>2
<1>5. DOMAIN partition' = 0 .. Room - 1
  BY <1>2
<1>6. \A a : Meaning(a)' = Meaning(a)
  BY SameImage
<1> QED
  BY <1>3, <1>4, <1>5, <1>6 DEF Right

\* What is left of the package are the next units of the stream.
LEMMA BytesAre ==
    ASSUME StreamInv, stage = "handle", size > 0, NEW n \in 0 .. size
    PROVE  /\ Bytes(buf, n) \in Seq(Int) /\ Len(Bytes(buf, n)) = n
           /\ \A j \in 1 .. n : Bytes(buf, n)[j] = Here + (j - 1)
           /\ Here \in Int /\ Here = received - size + 1
<1>1. buf \in Nat /\ size \in Nat /\ received \in Nat /\ data \in Seq(Int) /\ buf + size = Len(data)
      /\ n \in Nat
  BY DEF StreamInv, BuffersInv, TypesKept, Counts
<1>2. Here \in Int /\ Here = received - size + 1
  BY <1>1 DEF Here, Left
<1>3. Bytes(buf, n) \in Seq(Int) /\ Len(Bytes(buf, n)) = n
  BY <1>1, BytesLength
<1>4. ASSUME NEW j \in 1 .. n PROVE Bytes(buf, n)[j] = Here + (j - 1)
  <2>1. buf + j \in 1 .. Len(data) /\ buf + j <= Len(data)
    BY <1>1
  <2>2. Bytes(buf, n)[j] = data[buf + j]
    BY <2>1 DEF Bytes
  <2>3. data[buf + j] = received - Len(data) + (buf + j)
    BY <2>1 DEF StreamInv, Stretch
  <2>4. PICK l \in Nat : l = Len(data)
    <3>1. data \in Seq(Int)
      BY <1>1
    <3> QED BY <3>1
  <2>5. received - l + (buf + j) = received - size + 1 + (j - 1)
    BY <1>1, <2>4
  <2> QED BY <1>2, <2>2, <2>3, <2>4, <2>5
<1> QED BY <1>2, <1>3, <1>4

\* What holds of the numbers of every state.
LEMMA Numbers ==
    ASSUME StreamInv
    PROVE  /\ image \in Images /\ Count \in Nat
           /\ received \in Nat /\ content \in Nat /\ size \in Nat /\ buf \in Nat /\ offset \in Nat
           /\ Len(padding) \in Nat /\ Len(unhandled) \in Nat /\ received <= image.sent /\ image.sent \in Nat
           /\ padding = <<>> <=> Len(padding) = 0
           /\ unhandled = <<>> <=> Len(unhandled) = 0
           /\ Here \in Int /\ Left \in Nat /\ Here = received - Left + 1
           /\ image.fileHeader \in Nat /\ image.chunkHeader \in Nat /\ image.chunkHeader > 0
           /\ image.chunkHeader \in {ChunkHeader, ChunkHeader + 2}
           /\ Page \in Nat /\ Page > 0 /\ Page >= image.chunkHeader /\ ChunkHeader \in Nat
<1>1. /\ image \in Images /\ received \in Nat /\ content \in Nat /\ size \in Nat /\ buf \in Nat /\ offset \in Nat
      /\ padding \in Seq(Int) /\ unhandled \in Seq(Int) /\ received <= image.sent
  BY DEF StreamInv, BuffersInv, TypesKept, Parity, OutputTypes
<1>2. /\ Len(padding) \in Nat /\ Len(unhandled) \in Nat
      /\ padding = <<>> <=> Len(padding) = 0
      /\ unhandled = <<>> <=> Len(unhandled) = 0
  BY <1>1
<1>3. Left \in Nat /\ Here = received - Left + 1 /\ Here \in Int
  BY <1>1, <1>2 DEF Here, Left
<1>4. image.chunkHeader \in {ChunkHeader, ChunkHeader + 2} /\ image.sent \in Nat
  BY <1>1, ImageFacts
<1>5. Page \in Nat /\ Page >= ChunkHeader + 2 /\ ChunkHeader \in Nat
  BY SizesAssumption DEF Seed
<1>6. Page > 0 /\ Page >= image.chunkHeader
  BY <1>4, <1>5
<1> QED BY <1>1, <1>2, <1>3, <1>4, <1>5, <1>6, Layout

---------------------------------------------------------------------------
(* The packages *)

\* A new machine, or one an earlier download left, has written nothing of this image.
LEMMA InitArrives == StreamInit => StreamInv
<1> SUFFICES ASSUME StreamInit PROVE StreamInv
  OBVIOUS
<1>1. offset \in Nat
  <2>1. StorageBlock \in Nat
    BY Sizes
  <2> QED BY <2>1 DEF StreamInit
<1> QED
  BY <1>1, BuffersInit DEF StreamInit, StreamInv, OutputTypes, Stretch, AtFileHeader

\* write_data starts with empty paddings and nothing written.
LEMMA BeginArrives == ASSUME StreamInv, Begin PROVE StreamInv'
<1>1. /\ stage = "idle" /\ padding' = <<>> /\ status' = "OK" /\ phase' = "SPARSE_HEADER"
      /\ stage' \in {"package", "end"}
      /\ UNCHANGED <<received, offset, partition>>
  BY DEF Begin, SetStatus, unsparseVars
<1>2. phase = "SPARSE_HEADER"
  BY <1>1 DEF StreamInv, BuffersInv, FirstPackage
<1>3. BuffersInv'
  BY BeginKeeps DEF StreamInv
<1>4. OutputTypes' /\ AtFileHeader'
  BY <1>1, <1>2 DEF StreamInv, OutputTypes, AtFileHeader
<1>5. Stretch'
  BY <1>1 DEF Stretch
<1> QED
  BY <1>1, <1>3, <1>4, <1>5 DEF StreamInv

\* The next package follows the tail that was carried over.
LEMMA PackageStretch ==
    ASSUME StreamInv, Package
    PROVE  /\ Len(data') = Len(padding) + content' /\ content' \in Nat /\ received' = received + content'
           /\ \A k \in 1 .. Len(data') : data'[k] = received' - Len(data') + k
           /\ content' = Page \/ received' = image.sent
           /\ Here' = Here
           /\ stage' = "handle" => size' = Len(data')
           /\ stage' # "handle" => stage' = "end" /\ padding = <<>> /\ received' = image.sent
<1> DEFINE piece == [j \in 1 .. content' |-> received + j]
<1>1. /\ stage = "package" /\ received' = received + content' /\ data' = padding \o piece
      /\ size' = Len(data') /\ stage' = IF data' = <<>> THEN "end" ELSE "handle"
      /\ UNCHANGED <<image, padding>>
  BY DEF Package
<1>2. /\ content' \in Nat /\ (content' = Page \/ received' = image.sent)
      /\ Len(padding) \in Nat /\ received \in Nat
  <2>1. content' = IF Page < image.sent - received THEN Page ELSE image.sent - received
    BY DEF Package, Smaller
  <2>2. Page \in Nat /\ image.sent \in Nat /\ received \in Nat /\ received <= image.sent /\ Len(padding) \in Nat
    BY Numbers
  <2>3. CASE Page < image.sent - received
    <3>1. content' = Page
      BY <2>1, <2>3
    <3> QED BY <2>2, <3>1
  <2>4. CASE ~(Page < image.sent - received)
    <3>1. content' = image.sent - received
      BY <2>1, <2>4
    <3>2. image.sent - received \in Nat /\ received + (image.sent - received) = image.sent
      BY <2>2
    <3> QED BY <1>1, <2>2, <3>1, <3>2
  <2> QED BY <2>3, <2>4
<1>3. padding \in Seq(Int)
  BY DEF StreamInv, BuffersInv, TypesKept
<1>4. piece \in Seq(Int) /\ Len(piece) = content' /\ \A j \in 1 .. content' : piece[j] = received + j
  <2>1. \A j \in 1 .. content' : received + j \in Int
    BY <1>2
  <2>2. piece \in [1 .. content' -> Int]
    BY <2>1
  <2> QED BY <1>2, <2>2
<1> HIDE DEF piece
<1>5. /\ data' \in Seq(Int) /\ Len(data') = Len(padding) + content'
      /\ \A k \in 1 .. Len(padding) + content' : data'[k] = IF k <= Len(padding) THEN padding[k] ELSE piece[k - Len(padding)]
  BY <1>1, <1>3, <1>4, ConcatProperties
<1>6. PICK l \in Nat, c \in Nat, r \in Nat : l = Len(padding) /\ c = content' /\ r = received
  BY <1>2
<1>7. Len(data') = l + c /\ received' = r + c
  BY <1>1, <1>5, <1>6
<1>8. ASSUME NEW k \in 1 .. l + c PROVE data'[k] = r - l + k
  <2>1. CASE k <= l
    <3>1. k \in 1 .. l
      BY <1>6, <2>1
    <3>2. data'[k] = padding[k]
      BY <1>5, <1>6, <2>1
    <3>3. padding[k] = r - l + k
      BY <1>1, <1>6, <3>1 DEF StreamInv, Stretch
    <3> QED BY <3>2, <3>3
  <2>2. CASE ~(k <= l)
    <3>1. k - l \in 1 .. c /\ data'[k] = piece[k - l]
      BY <1>5, <1>6, <2>2
    <3>2. data'[k] = r + (k - l)
      BY <1>4, <1>6, <3>1
    <3> QED BY <1>6, <3>2
  <2> QED BY <2>1, <2>2
<1>9. ASSUME NEW k \in 1 .. Len(data') PROVE data'[k] = received' - Len(data') + k
  <2>1. k \in 1 .. l + c /\ (r + c) - (l + c) + k = r - l + k
    BY <1>6, <1>7
  <2> QED BY <1>7, <1>8, <2>1
<1>10. data' = <<>> <=> l = 0 /\ c = 0
  <2>1. data' = <<>> <=> Len(data') = 0
    BY <1>5
  <2> QED BY <1>6, <1>7, <2>1
<1>11. Left = l
  BY <1>1, <1>6 DEF Left
<1>12. Left' = l + c
  <2>1. CASE data' = <<>>
    BY <1>1, <1>6, <1>10, <2>1 DEF Left
  <2>2. CASE data' # <<>>
    BY <1>1, <1>7, <2>2 DEF Left
  <2> QED BY <2>1, <2>2
<1>13. Here' = Here
  <2>1. Here = r - l + 1 /\ Here' = (r + c) - (l + c) + 1
    BY <1>6, <1>7, <1>11, <1>12 DEF Here
  <2> QED BY <1>6, <2>1
<1>14. stage' # "handle" => stage' = "end" /\ padding = <<>> /\ received' = image.sent
  <2> SUFFICES ASSUME stage' # "handle" PROVE stage' = "end" /\ l = 0 /\ content' # Page
    BY <1>2, <1>6, Numbers
  <2>1. stage' = "end" /\ l = 0 /\ c = 0
    BY <1>1, <1>10
  <2> QED BY <1>6, <2>1, Numbers
<1> QED
  BY <1>1, <1>2, <1>5, <1>9, <1>13, <1>14

\* The next package: the machine is where it was in the image, with more of the stream.
LEMMA PackageArrives == ASSUME StreamInv, Package PROVE StreamInv'
<1>1. /\ stage = "package" /\ UNCHANGED <<image, padding, phase, status, unhandled, remain, offset, processed, partition>>
      /\ stage' \in {"handle", "end"}
  BY DEF Package, unsparseVars
<1>2. status = "OK"
  BY <1>1 DEF StreamInv, BuffersInv, Counts
<1>3. BuffersInv'
  BY PackageKeeps DEF StreamInv
<1>4. OutputTypes'
  BY <1>1 DEF StreamInv, OutputTypes
<1>5. Stretch'
  BY <1>1, <1>2, PackageStretch DEF Stretch
<1>6. AtFileHeader'
  <2> SUFFICES ASSUME phase = "SPARSE_HEADER" PROVE stage' = "handle" => size' = received'
    BY <1>1 DEF StreamInv, AtFileHeader
  <2>1. received = 0 /\ Len(padding) = 0
    BY <1>1, Numbers DEF StreamInv, BuffersInv, FirstPackage
  <2> QED BY <2>1, PackageStretch
<1>7. ASSUME phase # "SPARSE_HEADER" PROVE Follows'
  <2>1. Follows /\ Place
    BY <1>2, <1>7 DEF StreamInv, Follows, Alive
  <2>2. Right'
    BY <1>1, <2>1, RightKept DEF Follows
  <2>3. Place'
    <3>1. ASSUME phase = "CHUNK_HEADER" PROVE AtChunkHeader'
      <4>1. AtChunkHeader /\ padding = <<>>
        BY <1>1, <2>1, <3>1 DEF Place
      <4>2. ASSUME InHeader PROVE InHeader'
        <5>1. CASE Here = Start(processed) + Len(unhandled) /\ Len(unhandled) < image.chunkHeader
                   /\ \A k \in 1 .. Len(unhandled) : unhandled[k] = Start(processed) + (k - 1)
          <6>1. stage' = "handle" => size' = content'
            BY <4>1, PackageStretch, Numbers
          <6> QED BY <1>1, <5>1, <6>1, PackageStretch, SameImage DEF InHeader
        <5>2. CASE received = image.sent /\ Here < Start(processed) + image.chunkHeader
          <6>1. content' = 0
            <7>1. content' = IF Page < image.sent - received THEN Page ELSE image.sent - received
              BY DEF Package, Smaller
            <7> QED BY <5>2, <7>1, Numbers
          <6>2. stage' = "end" /\ received' = image.sent
            <7>1. data' = <<>>
              <8>1. data' \in Seq(Int) /\ Len(data') = 0
                BY <1>3, <4>1, <6>1, PackageStretch, Numbers DEF BuffersInv, TypesKept
              <8> QED BY <8>1
            <7> QED BY <5>2, <6>1, <7>1, PackageStretch, Numbers DEF Package
          <6> QED BY <1>1, <5>2, <6>2, PackageStretch, SameImage DEF InHeader
        <5> QED BY <4>2, <5>1, <5>2 DEF InHeader
      <4> QED BY <1>1, <4>1, <4>2, SameImage DEF AtChunkHeader
    <3>2. ASSUME phase = "CHUNK_DATA" PROVE InRaw'
      BY <1>1, <1>2, <2>1, <3>2, PackageStretch, SameImage DEF Place, InRaw
    <3>3. ASSUME phase = "CHUNK_FILL" PROVE AtFill'
      BY <1>1, <2>1, <3>3, PackageStretch, SameImage DEF Place, AtFill
    <3>4. ASSUME phase = "CHUNK_CRC" PROVE AtCrc'
      BY <1>1, <2>1, <3>4, PackageStretch, SameImage DEF Place, AtCrc
    <3> QED BY <1>1, <2>1, <3>1, <3>2, <3>3, <3>4 DEF Place
  <2>4. processed' \in 0 .. Count'
    BY <1>1, <2>1, SameImage DEF Follows
  <2> QED BY <1>1, <1>2, <2>2, <2>3, <2>4 DEF Follows
<1> QED
  BY <1>1, <1>3, <1>4, <1>5, <1>6, <1>7 DEF StreamInv

\* The next unit to handle is the same one.
LEMMA ReturnArrives == ASSUME StreamInv, Return PROVE StreamInv'
<1>1. /\ stage = "handle" /\ (size = 0 \/ status # "OK")
      /\ status' = IF status = "SPARSE_INCOMPLETE" THEN "OK" ELSE status
      /\ stage' = IF status' # "OK" \/ content = 0 THEN "end" ELSE "package"
      /\ UNCHANGED <<image, received, content, phase, unhandled, remain, offset, processed, partition>>
      /\ status = "SPARSE_INCOMPLETE" => padding' = Bytes(buf, size)
      /\ status = "OK" => padding' = <<>>
  BY DEF Return, unsparseVars
<1>2. phase # "SPARSE_HEADER"
  BY <1>1 DEF StreamInv, BuffersInv, FirstPackage
<1>3. BuffersInv'
  BY ReturnKeeps DEF StreamInv
<1>4. OutputTypes' /\ AtFileHeader'
  BY <1>1, <1>2 DEF StreamInv, OutputTypes, AtFileHeader
<1>5. size \in Nat /\ received \in Nat /\ buf \in Nat /\ data \in Seq(Int)
  BY DEF StreamInv, BuffersInv, TypesKept
<1>6. ASSUME status = "SPARSE_INCOMPLETE"
      PROVE  Len(padding') = size /\ \A k \in 1 .. size : padding'[k] = received - size + k
  <2>1. CASE size = 0
    <3>1. padding' \in Seq(Int) /\ Len(padding') = 0
      BY <1>1, <1>5, <1>6, <2>1, BytesLength
    <3> QED BY <2>1, <3>1
  <2>2. CASE size > 0
    <3>1. size \in 0 .. size
      BY <1>5
    <3>2. Len(padding') = size /\ \A j \in 1 .. size : padding'[j] = Here + (j - 1)
      BY <1>1, <1>6, <2>2, <3>1, BytesAre
    <3>3. Here = received - size + 1
      BY <1>1 DEF Here, Left
    <3> QED BY <1>5, <3>2, <3>3
  <2> QED BY <1>5, <2>1, <2>2
<1>7. status = "OK" => Len(padding') = 0 /\ size = 0
  BY <1>1
<1>8. Alive => Len(padding') = size
  BY <1>6, <1>7 DEF Alive
<1>9. Alive => Here' = Here
  <2>1. Left = size /\ Left' = Len(padding')
    BY <1>1 DEF Left
  <2> QED BY <1>1, <1>8, <2>1 DEF Here
<1>10. Alive' => Alive
  BY <1>1 DEF Alive
<1>11. Stretch'
  <2>1. content = Page \/ received = image.sent
    BY <1>1 DEF StreamInv, Stretch
  <2>2. content = 0 => received = image.sent
    BY <2>1, Numbers
  <2>3. ASSUME stage' = "package" PROVE \A k \in 1 .. Len(padding') : padding'[k] = received - Len(padding') + k
    <3>1. Alive
      BY <1>1, <2>3 DEF Alive
    <3> QED BY <1>5, <1>6, <1>7, <3>1 DEF Alive
  <2> QED BY <1>1, <2>2, <2>3 DEF Stretch
<1>12. Follows
  BY <1>2 DEF StreamInv
<1>13. Right'
  BY <1>1, <1>12, RightKept DEF Follows
<1>14. ASSUME Alive PROVE Place'
  <2>1. Place
    BY <1>12, <1>14 DEF Follows
  <2>2. ASSUME phase = "CHUNK_HEADER" PROVE AtChunkHeader'
    BY <1>1, <1>9, <1>14, <2>1, <2>2, SameImage DEF Place, AtChunkHeader, InHeader
  <2>3. ASSUME phase = "CHUNK_DATA" PROVE InRaw'
    <3>1. padding' # <<>> => status = "SPARSE_INCOMPLETE"
      BY <1>1, <1>14 DEF Alive
    <3>2. InRaw
      BY <2>1, <2>3 DEF Place
    <3>3. padding' # <<>> => Len(padding') < remain
      BY <1>8, <1>14, <3>1, <3>2 DEF InRaw
    <3> QED BY <1>1, <1>9, <1>14, <3>2, <3>3, SameImage DEF InRaw
  <2>4. ASSUME phase = "CHUNK_FILL" PROVE AtFill'
    BY <1>1, <1>9, <1>14, <2>1, <2>4, SameImage DEF Place, AtFill
  <2>5. ASSUME phase = "CHUNK_CRC" PROVE AtCrc'
    BY <1>1, <1>9, <1>14, <2>1, <2>5, SameImage DEF Place, AtCrc
  <2>6. phase # "CHUNK_DATA" => padding' = <<>>
    BY <1>1, <1>14 DEF StreamInv, Stretch, Alive
  <2> QED BY <1>1, <2>1, <2>2, <2>3, <2>4, <2>5, <2>6 DEF Place
<1>15. processed' \in 0 .. Count'
  BY <1>1, <1>12, SameImage DEF Follows
<1>16. Follows'
  BY <1>1, <1>10, <1>12, <1>13, <1>14, <1>15, SameImage DEF Follows
<1> QED
  BY <1>3, <1>4, <1>11, <1>16 DEF StreamInv

---------------------------------------------------------------------------
(* The headers *)

\* What a call that takes n units of the package keeps.
LEMMA CallKeeps ==
    ASSUME StreamInv, stage = "handle", UNCHANGED <<stage, packageVars>>, phase' # "SPARSE_HEADER",
           status' = "SPARSE_INCOMPLETE" => phase' = "CHUNK_DATA"
    PROVE  /\ Stretch' /\ AtFileHeader'
           /\ Here = received - size + 1 /\ Here' = received - size' + 1
           /\ UNCHANGED <<image, received, content, padding>> /\ stage' = "handle"
<1>1. UNCHANGED <<stage, image, received, content, padding, data>>
  BY DEF packageVars
<1>2. Here = received - size + 1 /\ Here' = received - size' + 1
  BY <1>1 DEF Here, Left
<1>3. Stretch'
  BY <1>1 DEF StreamInv, Stretch
<1> QED
  BY <1>1, <1>2, <1>3 DEF AtFileHeader

\* The file's header is read: the first chunk is next, at address 0.
LEMMA FileHeaderArrives == ASSUME StreamInv, FileHeader PROVE StreamInv'
<1>1. /\ stage = "handle" /\ phase = "SPARSE_HEADER" /\ size >= SparseHeader
      /\ status' = "OK" /\ phase' = "CHUNK_HEADER" /\ size' = Minus(size, image.fileHeader)
      /\ unhandled' = <<>> /\ processed' = 0 /\ remain' = 0 /\ offset' = 0
      /\ UNCHANGED <<stage, packageVars, partition>>
  BY DEF FileHeader, Handling, SetStatus
<1>2. /\ Stretch' /\ AtFileHeader' /\ Here' = received - size' + 1
      /\ UNCHANGED <<image, received, content, padding>> /\ stage' = "handle"
  BY <1>1, CallKeeps
<1>3. size = received /\ size >= image.fileHeader /\ size \in Nat
  <2>1. size < SparseHeader \/ size >= image.fileHeader
    BY <1>1 DEF StreamInv, BuffersInv, FirstPackage
  <2> QED BY <1>1, <2>1, Sizes, Numbers DEF StreamInv, AtFileHeader
<1>4. size' = size - image.fileHeader
  BY <1>1, <1>3 DEF Minus
<1>5. Here' = image.fileHeader + 1
  <2>1. image.fileHeader \in Nat /\ received \in Nat /\ Here' = received - (received - image.fileHeader) + 1
    BY <1>2, <1>3, <1>4, Numbers
  <2> QED BY <2>1
<1>6. Start(0) = image.fileHeader + 1
  BY DEF Start
<1>7. InHeader'
  <2>0. image.chunkHeader > 0 /\ image.fileHeader \in Nat
    BY Numbers
  <2>1. Len(unhandled') = 0 /\ image.chunkHeader > 0 /\ image.fileHeader + 1 = (image.fileHeader + 1) + 0
    BY <1>1, <2>0
  <2>2. Start(processed)' = image.fileHeader + 1
    BY <1>1, <1>2, <1>6, SameImage
  <2> QED BY <1>1, <1>2, <1>5, <2>1, <2>2 DEF InHeader
<1>8. AtChunkHeader'
  <2>1. AddressAt[image][1] = 0
    BY Layout, Numbers
  <2> QED BY <1>1, <1>2, <1>7, <2>1 DEF AtChunkHeader
<1>9. OutputTypes'
  BY <1>1 DEF StreamInv, OutputTypes
<1>10. Right'
  <2>1. DOMAIN partition \subseteq Int
    BY DEF StreamInv, OutputTypes
  <2>2. \A a \in DOMAIN partition : partition[a] = Old /\ a >= 0
    BY <1>1, SizesAssumption DEF StreamInv, AtFileHeader, OutputTypes
  <2> QED BY <1>1, <2>1, <2>2 DEF Right
<1>11. Follows'
  <2>1. processed' \in 0 .. Count'
    BY <1>1, <1>2, SameImage, Numbers
  <2> QED BY <1>1, <1>2, <1>8, <1>10, <2>1 DEF Follows, Place
<1>12. BuffersInv'
  BY HeaderStepsKeep DEF StreamInv
<1> QED
  BY <1>2, <1>9, <1>11, <1>12 DEF StreamInv

\* Nothing changes.
LEMMA SameArrives == ASSUME StreamInv, UNCHANGED streamVars PROVE StreamInv'
<1>1. /\ UNCHANGED <<stage, image, received, content, padding, data, buf, size, phase, status>>
      /\ UNCHANGED <<unhandled, remain, offset, processed, partition>>
  BY DEF streamVars, packageVars, unsparseVars
<1>2. BuffersInv'
  BY <1>1 DEF StreamInv, BuffersInv, TypesKept, Parity, Counts, FirstPackage
<1>3. OutputTypes' /\ Stretch' /\ AtFileHeader'
  BY <1>1 DEF StreamInv, OutputTypes, Stretch, AtFileHeader
<1>4. ASSUME Follows PROVE Follows'
  <2>1. Right'
    BY <1>1, <1>4, RightKept DEF Follows
  <2>2. Here' = Here
    BY <1>1 DEF Here, Left
  <2>3. ASSUME Place PROVE Place'
    BY <1>1, <2>2, <2>3, SameImage DEF Place, AtChunkHeader, InHeader, InRaw, AtFill, AtCrc
  <2> QED BY <1>1, <1>4, <2>1, <2>3, SameImage DEF Follows, Alive
<1> QED
  BY <1>1, <1>2, <1>3, <1>4 DEF StreamInv

\* All chunks are processed: what follows is not looked at.
LEMMA SkipRestArrives == ASSUME StreamInv, SkipRest PROVE StreamInv'
<1>1. /\ stage = "handle" /\ phase = "CHUNK_HEADER" /\ status = "OK" /\ processed >= Count
      /\ status' = "OK" /\ phase' = "CHUNK_HEADER"
      /\ UNCHANGED <<stage, packageVars, unhandled, remain, offset, processed, partition>>
  BY DEF SkipRest, Handling, SetStatus, unsparseVars, Count
<1>2. Stretch' /\ AtFileHeader' /\ UNCHANGED <<image, received, content, padding>> /\ stage' = "handle"
  BY <1>1, CallKeeps
<1>3. Follows /\ AtChunkHeader
  BY <1>1 DEF StreamInv, Follows, Place, Alive
<1>4. ~(processed < Count)
  BY <1>1, <1>3, Numbers DEF Follows
<1>5. AtChunkHeader'
  BY <1>1, <1>2, <1>3, <1>4, SameImage DEF AtChunkHeader
<1>6. Right'
  BY <1>1, <1>2, <1>3, RightKept DEF Follows
<1>7. Follows'
  BY <1>1, <1>2, <1>3, <1>5, <1>6, SameImage DEF Follows, Place
<1>8. BuffersInv' /\ OutputTypes'
  BY <1>1, HeaderStepsKeep DEF StreamInv, OutputTypes
<1> QED
  BY <1>2, <1>7, <1>8 DEF StreamInv

\* A machine that has something of the package left knows the beginning of the header.
LEMMA PieceOfHeader ==
    ASSUME StreamInv, Handling("CHUNK_HEADER"), processed < Count
    PROVE  /\ Follows /\ AtChunkHeader
           /\ processed \in 0 .. Count /\ Start(processed) \in Nat
           /\ Here = Start(processed) + Len(unhandled)
           /\ Len(unhandled) < image.chunkHeader
           /\ \A k \in 1 .. Len(unhandled) : unhandled[k] = Start(processed) + (k - 1)
           /\ unhandled # <<>> => size = content
<1>1. stage = "handle" /\ phase = "CHUNK_HEADER" /\ status = "OK" /\ size > 0
  BY DEF Handling
<1>2. Follows /\ AtChunkHeader
  BY <1>1 DEF StreamInv, Follows, Place, Alive
<1>3. processed \in 0 .. Count /\ Start(processed) \in Nat
  BY <1>2, Layout, Numbers DEF Follows
<1>4. size # 0
  BY <1>1, Numbers
<1> QED
  BY <1>1, <1>2, <1>3, <1>4 DEF AtChunkHeader, InHeader

\* The package ends in a header: the piece of it is saved.  With a piece saved before, the
\* package was the last one.
LEMMA SaveHeaderArrives == ASSUME StreamInv, SaveHeader PROVE StreamInv'
<1>1. /\ Handling("CHUNK_HEADER") /\ stage = "handle" /\ phase = "CHUNK_HEADER" /\ status = "OK" /\ size > 0
      /\ processed < Count /\ Len(unhandled) + size < image.chunkHeader
      /\ status' = "OK" /\ phase' = "CHUNK_HEADER" /\ size' = 0 /\ unhandled' = Bytes(buf, size)
      /\ UNCHANGED <<stage, packageVars, remain, offset, processed, partition>>
  BY DEF SaveHeader, Handling, SetStatus, Count
<1>2. /\ Stretch' /\ AtFileHeader' /\ Here = received - size + 1 /\ Here' = received - size' + 1
      /\ UNCHANGED <<image, received, content, padding>> /\ stage' = "handle"
  BY <1>1, CallKeeps
<1>3. /\ Follows /\ AtChunkHeader /\ Start(processed) \in Nat
      /\ Here = Start(processed) + Len(unhandled)
      /\ unhandled # <<>> => size = content
  BY <1>1, PieceOfHeader
<1>4. /\ Here' = Here + size /\ size \in Nat /\ Len(unhandled) \in Nat /\ Here \in Int
      /\ image.chunkHeader \in Nat /\ Page >= image.chunkHeader /\ Page \in Nat
  <2>1. /\ size \in Nat /\ Len(unhandled) \in Nat /\ Here \in Int /\ received \in Nat
        /\ image.chunkHeader \in Nat /\ Page >= image.chunkHeader /\ Page \in Nat
    BY Numbers
  <2>2. Here' = received - 0 + 1
    BY <1>1, <1>2
  <2> QED BY <1>2, <2>1, <2>2
<1>5. Start(processed)' = Start(processed) /\ processed' = processed
  BY <1>1, <1>2, SameImage
<1>6. ASSUME unhandled = <<>> PROVE InHeader'
  <2>1. Len(unhandled) = 0
    BY <1>6
  <2>2. size \in 0 .. size
    BY <1>4
  <2>3. Len(unhandled') = size /\ \A k \in 1 .. size : unhandled'[k] = Here + (k - 1)
    BY <1>1, <2>2, BytesAre
  <2>4. Here = Start(processed)
    BY <1>3, <2>1
  <2>5. Here' = Start(processed) + Len(unhandled') /\ Len(unhandled') < image.chunkHeader
    BY <1>1, <1>3, <1>4, <2>1, <2>3, <2>4
  <2>6. \A k \in 1 .. Len(unhandled') : unhandled'[k] = Start(processed)' + (k - 1)
    BY <1>5, <2>3, <2>4
  <2>7. Here' = Start(processed)' + Len(unhandled')
    BY <1>5, <2>5
  <2>8. size' = 0 /\ image'.chunkHeader = image.chunkHeader
    BY <1>1, <1>2
  <2> QED BY <2>5, <2>6, <2>7, <2>8 DEF InHeader
<1>7. ASSUME unhandled # <<>> PROVE InHeader'
  <2>1. size = content /\ content # Page
    BY <1>1, <1>3, <1>4, <1>7
  <2>2. received = image.sent
    BY <1>1, <2>1 DEF StreamInv, Stretch
  <2>3. Here' < Start(processed) + image.chunkHeader
    BY <1>1, <1>3, <1>4
  <2>4. Here' < Start(processed)' + image'.chunkHeader /\ received' = image'.sent
    BY <1>2, <1>5, <2>2, <2>3
  <2> QED BY <1>1, <2>4 DEF InHeader
<1>8. InHeader'
  BY <1>6, <1>7
<1>9. AtChunkHeader'
  BY <1>1, <1>2, <1>3, <1>8, SameImage DEF AtChunkHeader
<1>10. Right'
  BY <1>1, <1>2, <1>3, RightKept DEF Follows
<1>11. Follows'
  BY <1>1, <1>2, <1>3, <1>9, <1>10, SameImage DEF Follows, Place
<1>12. BuffersInv' /\ OutputTypes'
  BY <1>1, HeaderStepsKeep DEF StreamInv, OutputTypes
<1> QED
  BY <1>2, <1>11, <1>12 DEF StreamInv

\* The header read is that of the next chunk, and no other chunk's.
LEMMA HeaderFound ==
    ASSUME StreamInv, Handling("CHUNK_HEADER"), processed < Count, Len(unhandled) + size >= image.chunkHeader
    PROVE  /\ processed + 1 \in 1 .. Count
           /\ image.chunks[processed + 1].type # "other" => processed + 1 \in ChunkRead
           /\ \A i \in ChunkRead : i = processed + 1
<1> DEFINE p == processed + 1
           h == Start(processed)
           piece == Bytes(buf, ChunkHeader - Len(unhandled))
<1>1. stage = "handle" /\ size > 0
  BY DEF Handling
<1>2. /\ processed \in 0 .. Count /\ h \in Nat
      /\ Here = h + Len(unhandled)
      /\ Len(unhandled) < image.chunkHeader
      /\ \A k \in 1 .. Len(unhandled) : unhandled[k] = h + (k - 1)
  BY PieceOfHeader
<1>3. p \in 1 .. Count /\ p - 1 = processed
  <2>1. processed \in Nat /\ Count \in Nat
    BY <1>2, Numbers
  <2> QED BY <2>1
<1>4. HeaderAt[image][p] = h
  BY <1>3, Layout, Numbers
<1> HIDE DEF h
<1>5. /\ unhandled \in Seq(Int) /\ Len(unhandled) \in Nat /\ Len(unhandled) <= ChunkHeader
      /\ ChunkHeader \in Nat /\ ChunkHeader > 0 /\ size \in Nat
      /\ ChunkHeader <= image.chunkHeader /\ image.chunkHeader \in Nat
  <2>1. unhandled \in Seq(Int) /\ Len(unhandled) <= ChunkHeader
    BY DEF StreamInv, BuffersInv, TypesKept, Counts
  <2>2. ChunkHeader \in Nat /\ ChunkHeader > 0 /\ image.chunkHeader \in {ChunkHeader, ChunkHeader + 2}
    BY Numbers, Sizes
  <2>3. size \in Nat /\ Len(unhandled) \in Nat
    BY Numbers
  <2>4. ChunkHeader <= image.chunkHeader /\ image.chunkHeader \in Nat
    BY <2>2
  <2> QED BY <2>1, <2>2, <2>3, <2>4
<1>6. ChunkHeader - Len(unhandled) \in 0 .. size
  BY <1>5
<1>7. /\ piece \in Seq(Int) /\ Len(piece) = ChunkHeader - Len(unhandled)
      /\ \A j \in 1 .. ChunkHeader - Len(unhandled) : piece[j] = Here + (j - 1)
  BY <1>1, <1>6, BytesAre
<1> HIDE DEF piece
<1>8. PICK l \in Nat : l = Len(unhandled)
  BY <1>5
<1>9. /\ Header \in Seq(Int) /\ Len(Header) = ChunkHeader
      /\ \A j \in 1 .. ChunkHeader : Header[j] = IF j <= l THEN unhandled[j] ELSE piece[j - l]
  <2>1. Header = unhandled \o piece
    BY DEF Header, piece
  <2>2. /\ Header \in Seq(Int) /\ Len(Header) = l + (ChunkHeader - l)
        /\ \A j \in 1 .. l + (ChunkHeader - l) : Header[j] = IF j <= l THEN unhandled[j] ELSE piece[j - l]
    BY <1>5, <1>7, <1>8, <2>1, ConcatProperties
  <2>3. l + (ChunkHeader - l) = ChunkHeader
    BY <1>5, <1>8
  <2> QED BY <2>2, <2>3
<1>10. ASSUME NEW j \in 1 .. ChunkHeader PROVE Header[j] = h + j - 1
  <2>1. CASE j <= l
    <3>1. j \in 1 .. Len(unhandled) /\ Header[j] = unhandled[j]
      BY <1>8, <1>9, <2>1
    <3> QED BY <1>2, <3>1
  <2>2. CASE ~(j <= l)
    <3>1. j - l \in 1 .. ChunkHeader - Len(unhandled) /\ Header[j] = piece[j - l]
      BY <1>5, <1>8, <1>9, <2>2
    <3>2. Header[j] = (h + l) + ((j - l) - 1)
      BY <1>2, <1>7, <1>8, <3>1
    <3> QED BY <1>2, <1>5, <1>8, <3>2
  <2> QED BY <2>1, <2>2
<1>11. Header = [j \in 1 .. ChunkHeader |-> h + j - 1]
  <2>1. DOMAIN Header = 1 .. ChunkHeader /\ Header = [j \in DOMAIN Header |-> Header[j]]
    BY <1>5, <1>9
  <2> QED BY <1>10, <2>1
<1>12. DOMAIN image.chunks = 1 .. Count
  BY Layout, Numbers
<1>13. image.chunks[p].type # "other" => p \in ChunkRead
  BY <1>3, <1>4, <1>11, <1>12 DEF ChunkRead
<1>14. ASSUME NEW i \in ChunkRead PROVE i = p
  <2>1. i \in 1 .. Count /\ Header = [j \in 1 .. ChunkHeader |-> HeaderAt[image][i] + j - 1]
    BY <1>12 DEF ChunkRead
  <2>2. HeaderAt[image][i] \in Nat /\ Body(image.chunks[i]) \in Nat /\ Body(image.chunks[p]) \in Nat /\ image.chunkHeader > 0
    BY <1>3, <2>1, Layout, Numbers
  <2>3. Header[1] = HeaderAt[image][i] + 1 - 1 /\ Header[1] = h + 1 - 1
    BY <1>5, <1>11, <2>1
  <2>4. HeaderAt[image][i] = HeaderAt[image][p]
    BY <1>2, <1>4, <2>2, <2>3
  <2>5. i < p => HeaderAt[image][i] + image.chunkHeader + Body(image.chunks[i]) <= HeaderAt[image][p]
    BY <1>3, <2>1, Apart, Numbers DEF BodyAt
  <2>6. p < i => HeaderAt[image][p] + image.chunkHeader + Body(image.chunks[p]) <= HeaderAt[image][i]
    BY <1>3, <2>1, Apart, Numbers DEF BodyAt
  <2>7. ~(i < p)
    BY <1>5, <2>2, <2>4, <2>5
  <2>8. ~(p < i)
    BY <1>2, <1>4, <1>5, <2>2, <2>4, <2>6
  <2> QED BY <1>3, <2>1, <2>7, <2>8, Numbers
<1> QED BY <1>3, <1>13, <1>14

\* A header that is no known chunk's: its type is indeed unknown.
LEMMA UnknownChunkArrives == ASSUME StreamInv, UnknownChunk PROVE StreamInv'
<1>1. /\ Handling("CHUNK_HEADER") /\ stage = "handle" /\ phase = "CHUNK_HEADER" /\ processed < Count
      /\ Len(unhandled) + size >= image.chunkHeader /\ ChunkRead = {} /\ status' = "UNKNOWN_CHUNK_TYPE"
      /\ phase' = "CHUNK_HEADER"
      /\ UNCHANGED <<stage, packageVars, size, offset, processed, partition>>
  BY DEF UnknownChunk, Handling, Count
<1>2. Stretch' /\ AtFileHeader' /\ UNCHANGED <<image, received, content, padding>> /\ stage' = "handle"
  BY <1>1, CallKeeps
<1>3. Follows
  BY <1>1 DEF StreamInv
<1>4. image.chunks[processed + 1].type = "other"
  BY <1>1, HeaderFound
<1>5. Right'
  BY <1>1, <1>2, <1>3, RightKept DEF Follows
<1>6. Follows'
  BY <1>1, <1>2, <1>3, <1>4, <1>5, SameImage DEF Follows, Alive
<1>7. BuffersInv' /\ OutputTypes'
  BY <1>1, HeaderStepsKeep DEF StreamInv, OutputTypes
<1> QED
  BY <1>2, <1>6, <1>7 DEF StreamInv

\* A chunk begins where the output of the ones before ends.  One that is skipped ends at once.
LEMMA ChunkStartArrives == ASSUME StreamInv, ChunkStart PROVE StreamInv'
<1> DEFINE p == processed + 1
           c == image.chunks[p]
<1>1. /\ Handling("CHUNK_HEADER") /\ stage = "handle" /\ phase = "CHUNK_HEADER" /\ processed < Count
      /\ Len(unhandled) + size >= image.chunkHeader
      /\ unhandled' = <<>> /\ processed' = p
      /\ UNCHANGED <<stage, packageVars, partition>>
  BY DEF ChunkStart, Handling, Count
<1>2. p \in 1 .. Count /\ \A i \in ChunkRead : i = p
  BY <1>1, HeaderFound
<1>3. /\ status' = "OK" /\ size' = Minus(size, Used) /\ p \in ChunkRead
      /\ phase' = CASE c.type = "raw" -> "CHUNK_DATA"
                    [] c.type = "skip" -> "CHUNK_HEADER"
                    [] c.type = "fill" -> "CHUNK_FILL"
                    [] c.type = "crc" -> "CHUNK_CRC"
      /\ remain' = IF c.type = "skip" THEN 0 ELSE c.bytes
      /\ offset' = IF c.type = "skip" THEN offset + c.bytes ELSE offset
  BY <1>2 DEF ChunkStart, SetStatus
<1>4. /\ Follows /\ AtChunkHeader /\ Start(processed) \in Nat /\ processed \in 0 .. Count
      /\ Here = Start(processed) + Len(unhandled) /\ Len(unhandled) < image.chunkHeader
  BY <1>1, PieceOfHeader
<1>5. /\ HeaderAt[image][p] = Start(processed) /\ HeaderAt[image][p] \in Nat /\ BodyAt(p) \in Nat
      /\ BodyAt(p) = HeaderAt[image][p] + image.chunkHeader
      /\ AddressAt[image][p] \in Nat /\ c.bytes \in Nat /\ Body(c) \in Nat
      /\ AddressAt[image][p + 1] = AddressAt[image][p] + Covered(c)
  <2>1. p - 1 = processed
    BY <1>4
  <2> QED BY <1>2, <2>1, Layout, Numbers
<1>6. c.type \in {"raw", "skip", "fill", "crc"}
  <2>1. c.type \in Types /\ c.type # "other"
    BY <1>2, <1>3, Layout, Numbers DEF ChunkRead
  <2> QED BY <2>1 DEF Types
<1>7. phase' \in {"CHUNK_DATA", "CHUNK_HEADER", "CHUNK_FILL", "CHUNK_CRC"}
  BY <1>3, <1>6
<1>8. /\ Stretch' /\ AtFileHeader' /\ Here = received - size + 1 /\ Here' = received - size' + 1
      /\ UNCHANGED <<image, received, content, padding>> /\ stage' = "handle"
  BY <1>1, <1>3, <1>7, CallKeeps
<1>9. Here' = BodyAt(p)
  <2>1. /\ size \in Nat /\ received \in Nat /\ image.chunkHeader \in Nat /\ Len(unhandled) \in Nat
    BY Numbers
  <2>2. size' = size - Used /\ Used = image.chunkHeader - Len(unhandled)
    BY <1>1, <1>3, <2>1 DEF Minus, Used
  <2>3. Here' = received - (size - (image.chunkHeader - Len(unhandled))) + 1
    BY <1>8, <2>2
  <2>4. received - (size - (image.chunkHeader - Len(unhandled))) + 1
          = (received - size + 1) + (image.chunkHeader - Len(unhandled))
    BY <2>1
  <2>5. Here' = (Start(processed) + Len(unhandled)) + (image.chunkHeader - Len(unhandled))
    BY <1>4, <1>8, <2>3, <2>4
  <2> QED BY <1>4, <1>5, <2>1, <2>5
<1>10. offset = AddressAt[image][p] /\ offset \in Nat
  BY <1>4, Numbers DEF AtChunkHeader
<1> HIDE DEF c, p
<1>11. BuffersInv'
  BY ChunkStartKeeps DEF StreamInv
<1>12. OutputTypes'
  <2>1. offset' \in Nat
    BY <1>3, <1>5, <1>10
  <2> QED BY <1>1, <2>1 DEF StreamInv, OutputTypes
<1>13. processed' \in 0 .. Count' /\ processed' >= 1
  BY <1>1, <1>2, <1>8, SameImage, Numbers
<1>14. c = image'.chunks[processed'] /\ BodyAt(processed)' = BodyAt(p) /\ AddressAt[image'][processed'] = AddressAt[image][p]
       /\ AddressAt[image'][processed' + 1] = AddressAt[image][p + 1] /\ Start(processed)' = Start(p)
  BY <1>1, <1>8, SameImage DEF c
<1>15. CASE c.type = "raw"
  <2>1. phase' = "CHUNK_DATA" /\ remain' = c.bytes /\ offset' = offset
    BY <1>3, <1>15
  <2>2. InRaw'
    BY <1>3, <1>5, <1>8, <1>9, <1>10, <1>14, <1>15, <2>1 DEF InRaw
  <2>3. Right'
    BY <1>1, <1>4, <1>8, <2>1, RightKept DEF Follows
  <2> QED BY <1>1, <1>3, <1>8, <1>11, <1>12, <1>13, <2>1, <2>2, <2>3 DEF StreamInv, Follows, Place
<1>16. CASE c.type = "fill"
  <2>1. phase' = "CHUNK_FILL" /\ remain' = c.bytes /\ offset' = offset
    BY <1>3, <1>16
  <2>2. AtFill'
    BY <1>3, <1>5, <1>8, <1>9, <1>10, <1>14, <1>16, <2>1 DEF AtFill
  <2>3. Right'
    BY <1>1, <1>4, <1>8, <2>1, RightKept DEF Follows
  <2> QED BY <1>1, <1>3, <1>8, <1>11, <1>12, <1>13, <2>1, <2>2, <2>3 DEF StreamInv, Follows, Place
<1>17. CASE c.type = "crc"
  <2>1. phase' = "CHUNK_CRC" /\ offset' = offset /\ Covered(c) = 0
    BY <1>3, <1>17 DEF Covered
  <2>2. AtCrc'
    BY <1>3, <1>5, <1>8, <1>9, <1>10, <1>14, <1>17, <2>1 DEF AtCrc
  <2>3. Right'
    BY <1>1, <1>4, <1>8, <2>1, RightKept DEF Follows
  <2> QED BY <1>1, <1>3, <1>8, <1>11, <1>12, <1>13, <2>1, <2>2, <2>3 DEF StreamInv, Follows, Place
<1>18. CASE c.type = "skip"
  <2>1. phase' = "CHUNK_HEADER" /\ offset' = offset + c.bytes /\ Covered(c) = c.bytes /\ Body(c) = 0
    BY <1>3, <1>18 DEF Covered, Body
  <2>2. Start(p) = BodyAt(p)
    <3>1. p # 0 /\ BodyAt(p) + 0 = BodyAt(p)
      BY <1>2, <1>5
    <3> QED BY <2>1, <3>1 DEF Start, c
  <2>3. InHeader'
    <3>1. Here' = Start(processed)' /\ BodyAt(p) + 0 = BodyAt(p) /\ Here' = BodyAt(p)
      BY <1>5, <1>9, <1>14, <2>2
    <3>2. Len(unhandled') = 0
      BY <1>1
    <3>3. image'.chunkHeader = image.chunkHeader /\ image.chunkHeader > 0
      BY <1>8, Numbers
    <3>4. Here' = Start(processed)' + Len(unhandled') /\ Len(unhandled') < image'.chunkHeader
      BY <3>1, <3>2, <3>3
    <3> QED BY <1>1, <3>2, <3>4 DEF InHeader
  <2>4. AtChunkHeader'
    BY <1>5, <1>10, <1>14, <2>1, <2>3 DEF AtChunkHeader
  <2>5. Right'
    <3> SUFFICES ASSUME NEW a \in DOMAIN partition
                 PROVE  partition[a] = Meaning(a) \/ (a >= offset' /\ partition[a] = Old)
      BY <1>1, <1>8, SameImage DEF Right
    <3>1. partition[a] = Meaning(a) \/ (a >= offset /\ partition[a] = Old)
      BY <1>4 DEF Follows, Right
    <3>2. a \in Int
      BY DEF StreamInv, OutputTypes
    <3>3. CASE a >= offset /\ a < offset + c.bytes /\ partition[a] = Old
      <4>1. a \in AddressAt[image][p] .. AddressAt[image][p] + Covered(c) - 1
        BY <1>5, <1>10, <2>1, <3>2, <3>3
      <4>2. Meaning(a) = Old
        BY <1>2, <1>18, <4>1, MeaningIs, Numbers DEF c
      <4> QED BY <3>3, <4>2
    <3> QED BY <1>5, <1>10, <2>1, <3>1, <3>2, <3>3
  <2> QED BY <1>1, <1>3, <1>8, <1>11, <1>12, <1>13, <2>1, <2>4, <2>5 DEF StreamInv, Follows, Place
<1> QED
  BY <1>6, <1>15, <1>16, <1>17, <1>18

---------------------------------------------------------------------------
(* The bodies *)

\* What is behind a header.
LEMMA BodyFacts ==
    ASSUME StreamInv, stage = "handle", status = "OK", size > 0,
           phase \in {"CHUNK_DATA", "CHUNK_FILL", "CHUNK_CRC"}
    PROVE  LET c == image.chunks[processed]
           IN  /\ Follows /\ Place /\ processed \in 1 .. Count /\ processed \in 0 .. Count /\ unhandled = <<>>
               /\ BodyAt(processed) \in Nat /\ AddressAt[image][processed] \in Nat
               /\ c.bytes \in Nat /\ Body(c) \in Nat /\ Start(processed) = BodyAt(processed) + Body(c)
               /\ AddressAt[image][processed + 1] = AddressAt[image][processed] + Covered(c)
               /\ AddressAt[image][processed + 1] \in Nat
               /\ remain \in Nat /\ size \in Nat /\ size >= 2 /\ offset \in Nat
<1>1. Follows /\ Place /\ unhandled = <<>>
  BY DEF StreamInv, Follows, Place, Alive
<1>2. processed \in 1 .. Count /\ processed \in 0 .. Count /\ processed # 0
  <2>1. Count \in Nat
    BY Numbers
  <2>2. processed \in 1 .. Count
    BY <1>1 DEF Follows, Place
  <2> QED BY <2>1, <2>2
<1>3. remain \in Nat /\ size \in Nat /\ size >= 2
  <2>1. remain \in Nat /\ size \in Nat /\ Even(size)
    BY DEF StreamInv, BuffersInv, TypesKept, Parity
  <2> QED BY <2>1 DEF Even
<1>4. Start(processed) = BodyAt(processed) + Body(image.chunks[processed])
  BY <1>2 DEF Start
<1> QED BY <1>1, <1>2, <1>3, <1>4, Layout, Numbers

\* The chunk is done: the next header follows.
LEMMA ChunkDone ==
    ASSUME StreamInv, image' = image, processed' = processed, unhandled' = <<>>,
           Here' = Start(processed), Start(processed) \in Nat, offset' = AddressAt[image][processed + 1],
           stage' = "handle"
    PROVE  AtChunkHeader'
<1>1. Start(processed)' = Start(processed)
  BY SameImage
<1>2. Len(unhandled') = 0 /\ image'.chunkHeader > 0
  BY Numbers
<1>3. Here' = Start(processed)' + Len(unhandled') /\ Len(unhandled') < image'.chunkHeader
  BY <1>1, <1>2, Numbers
<1>4. InHeader'
  BY <1>2, <1>3 DEF InHeader
<1> QED BY <1>4 DEF AtChunkHeader

\* A CRC stands for no output.
LEMMA CrcArrives == ASSUME StreamInv, Crc PROVE StreamInv'
<1> DEFINE c == image.chunks[processed]
<1>1. /\ stage = "handle" /\ status = "OK" /\ size > 0 /\ phase = "CHUNK_CRC"
      /\ status' = "OK" /\ phase' = "CHUNK_HEADER" /\ size' = Minus(size, Seed)
      /\ UNCHANGED <<stage, packageVars, unhandled, offset, processed, partition>>
  BY DEF Crc, Handling, SetStatus
<1>2. /\ Stretch' /\ AtFileHeader' /\ Here = received - size + 1 /\ Here' = received - size' + 1
      /\ UNCHANGED <<image, received, content, padding>> /\ stage' = "handle"
  BY <1>1, CallKeeps
<1>3. /\ Follows /\ Place /\ processed \in 0 .. Count /\ unhandled = <<>>
      /\ BodyAt(processed) \in Nat /\ Start(processed) = BodyAt(processed) + Body(c)
      /\ size \in Nat /\ size >= 2
  BY <1>1, BodyFacts
<1>4. c.type = "crc" /\ Here = BodyAt(processed) /\ offset = AddressAt[image][processed + 1]
  BY <1>1, <1>3 DEF Place, AtCrc
<1>5. Body(c) = 2
  BY <1>4 DEF Body, Seed
<1>6. Here' = Start(processed) /\ Start(processed) \in Nat
  <2>1. size' = size - 2 /\ received \in Nat
    BY <1>1, <1>3, Numbers DEF Minus, Seed
  <2> QED BY <1>2, <1>3, <1>4, <1>5, <2>1
<1>7. AtChunkHeader'
  BY <1>1, <1>2, <1>3, <1>4, <1>6, ChunkDone
<1>8. Right'
  BY <1>1, <1>2, <1>3, RightKept DEF Follows
<1>9. Follows'
  BY <1>1, <1>2, <1>3, <1>7, <1>8, SameImage DEF Follows, Place
<1>10. BuffersInv' /\ OutputTypes'
  BY <1>1, SeedStepsKeep DEF StreamInv, OutputTypes
<1> QED
  BY <1>1, <1>2, <1>9, <1>10 DEF StreamInv

\* The fill value is written as often as the chunk says; a write that fails leaves a piece
\* of it, all of which belongs there.
LEMMA FillArrives == ASSUME StreamInv, NEW done \in Nat, done \in 0 .. Room, Fill(done) PROVE StreamInv'
<1> DEFINE c == image.chunks[processed]
           value == Bytes(buf, Seed)
           filled == [k \in 1 .. remain |-> value[1 + ((k - 1) % Seed)]]
<1>1. /\ stage = "handle" /\ status = "OK" /\ size > 0 /\ phase = "CHUNK_FILL"
      /\ done = remain \/ done < remain
      /\ offset' = offset + done
      /\ IF done = remain
         THEN status' = "OK" /\ phase' = "CHUNK_HEADER" /\ size' = Minus(size, Seed)
         ELSE status' = "EMMC_ERR" /\ UNCHANGED <<phase, size>>
      /\ UNCHANGED <<stage, packageVars, unhandled, processed>>
  BY DEF Fill, Handling, SetStatus
<1>2. PICK reached \in done .. Smaller(remain, done + FillCache) : partition' = Written(filled, reached)
  BY DEF Fill
<1>3. /\ Stretch' /\ AtFileHeader' /\ Here = received - size + 1 /\ Here' = received - size' + 1
      /\ UNCHANGED <<image, received, content, padding>> /\ stage' = "handle"
  BY <1>1, CallKeeps
<1>4. /\ Follows /\ Place /\ processed \in 1 .. Count /\ processed \in 0 .. Count /\ unhandled = <<>>
      /\ BodyAt(processed) \in Nat /\ Start(processed) = BodyAt(processed) + Body(c)
      /\ AddressAt[image][processed] \in Nat /\ AddressAt[image][processed + 1] = AddressAt[image][processed] + Covered(c)
      /\ size \in Nat /\ size >= 2 /\ remain \in Nat /\ offset \in Nat
  BY <1>1, BodyFacts
<1>5. c.type = "fill" /\ remain = c.bytes /\ Here = BodyAt(processed) /\ offset = AddressAt[image][processed]
  BY <1>1, <1>4 DEF Place, AtFill
<1>6. Body(c) = 2 /\ Covered(c) = remain
  BY <1>5 DEF Body, Covered, Seed
<1>7. reached \in Nat /\ reached <= remain /\ done \in 0 .. reached
  BY <1>1, <1>2, <1>4, SizesAssumption DEF Smaller
<1>8. value[1] = BodyAt(processed) /\ value[2] = BodyAt(processed) + 1
  <2>1. 2 \in 0 .. size
    BY <1>4
  <2>2. \A j \in 1 .. 2 : value[j] = Here + (j - 1)
    BY <1>1, <2>1, BytesAre DEF Seed
  <2> QED BY <1>4, <1>5, <2>2
<1> HIDE DEF value
<1>9. ASSUME NEW a \in offset .. offset + reached - 1 PROVE filled[a - offset + 1] = Meaning(a)
  <2>1. a - offset + 1 \in 1 .. remain /\ (a - offset + 1) - 1 = a - offset /\ a - offset \in Nat
    BY <1>4, <1>7
  <2>2. filled[a - offset + 1] = value[1 + ((a - offset) % 2)]
    BY <2>1 DEF Seed
  <2>3. a \in AddressAt[image][processed] .. AddressAt[image][processed] + Covered(c) - 1
    <3>1. a \in offset .. offset + remain - 1
      BY <1>4, <1>7
    <3> QED BY <1>5, <1>6, <3>1
  <2>4. Meaning(a) = BodyAt(processed) + ((a - AddressAt[image][processed]) % Seed)
    BY <1>4, <1>5, <2>3, MeaningIs, Numbers
  <2>5. Meaning(a) = BodyAt(processed) + ((a - offset) % 2)
    BY <1>5, <2>4 DEF Seed
  <2>6. PICK m \in Nat : m = a - offset
    BY <2>1
  <2>7. m % 2 \in {0, 1}
    BY <2>6
  <2>8. CASE m % 2 = 0
    <3>1. filled[a - offset + 1] = value[1] /\ Meaning(a) = BodyAt(processed) + 0
      BY <2>2, <2>5, <2>6, <2>8
    <3> QED BY <1>4, <1>8, <3>1
  <2>9. CASE m % 2 = 1
    <3>1. filled[a - offset + 1] = value[1 + 1] /\ Meaning(a) = BodyAt(processed) + 1
      BY <2>2, <2>5, <2>6, <2>9
    <3> QED BY <1>4, <1>8, <3>1
  <2> QED BY <2>7, <2>8, <2>9
<1> HIDE DEF filled
<1>10. OutputTypes' /\ Right'
  BY <1>1, <1>2, <1>3, <1>4, <1>7, <1>9, WriteIsRight DEF StreamInv, Follows
<1>11. BuffersInv'
  BY SeedStepsKeep DEF StreamInv
<1>12. processed' \in 0 .. Count'
  BY <1>1, <1>3, <1>4, SameImage
<1>13. CASE done = remain
  <2>1. status' = "OK" /\ phase' = "CHUNK_HEADER" /\ size' = size - 2 /\ offset' = offset + remain
    BY <1>1, <1>4, <1>13 DEF Minus, Seed
  <2>2. Here' = Start(processed) /\ Start(processed) \in Nat
    <3>1. received \in Nat
      BY Numbers
    <3>2. Here' = received - (size - 2) + 1 /\ received - (size - 2) + 1 = (received - size + 1) + 2
      BY <1>3, <1>4, <2>1, <3>1
    <3>3. Here' = BodyAt(processed) + 2 /\ Start(processed) = BodyAt(processed) + 2
      BY <1>3, <1>4, <1>5, <1>6, <3>2
    <3> QED BY <1>4, <3>3
  <2>3. offset' = AddressAt[image][processed + 1]
    BY <1>4, <1>5, <1>6, <2>1
  <2>4. AtChunkHeader'
    BY <1>1, <1>3, <1>4, <2>2, <2>3, ChunkDone
  <2> QED BY <1>3, <1>10, <1>11, <1>12, <2>1, <2>4 DEF StreamInv, Follows, Place
<1>14. CASE done # remain
  <2>1. status' = "EMMC_ERR"
    BY <1>1, <1>14
  <2> QED BY <1>3, <1>10, <1>11, <1>12, <2>1 DEF StreamInv, Follows, Alive
<1> QED BY <1>13, <1>14

\* Units of the package that are written at the offset belong there.
LEMMA RawIsRight ==
    ASSUME StreamInv, Handling("CHUNK_DATA"), image' = image, NEW n \in Nat, n <= size, n <= remain, NEW m \in 0 .. n,
           WriteUnits(n), offset' = offset + m
    PROVE  OutputTypes' /\ Right'
<1> DEFINE c == image.chunks[processed]
<1>1. stage = "handle" /\ status = "OK" /\ size > 0 /\ phase = "CHUNK_DATA"
  BY DEF Handling
<1>2. /\ Follows /\ Place /\ processed \in 1 .. Count
      /\ BodyAt(processed) \in Nat /\ AddressAt[image][processed] \in Nat
      /\ c.bytes \in Nat /\ size \in Nat /\ remain \in Nat /\ offset \in Nat
  BY <1>1, BodyFacts
<1>3. /\ c.type = "raw" /\ remain <= c.bytes
      /\ Here = BodyAt(processed) + (c.bytes - remain)
      /\ offset = AddressAt[image][processed] + (c.bytes - remain)
  BY <1>1, <1>2 DEF Place, InRaw
<1>4. Covered(c) = c.bytes
  BY <1>3 DEF Covered
<1>5. n \in 0 .. size
  BY <1>2
<1>6. \A j \in 1 .. n : Bytes(buf, n)[j] = Here + (j - 1)
  BY <1>1, <1>5, BytesAre
<1>7. ASSUME NEW a \in offset .. offset + n - 1 PROVE Bytes(buf, n)[a - offset + 1] = Meaning(a)
  <2>1. a - offset + 1 \in 1 .. n
    BY <1>2
  <2>2. Bytes(buf, n)[a - offset + 1] = Here + ((a - offset + 1) - 1)
    BY <1>6, <2>1
  <2>3. a \in AddressAt[image][processed] .. AddressAt[image][processed] + Covered(c) - 1
    BY <1>2, <1>3, <1>4
  <2>4. Meaning(a) = BodyAt(processed) + (a - AddressAt[image][processed])
    BY <1>2, <1>3, <2>3, MeaningIs, Numbers
  <2>5. Here + ((a - offset + 1) - 1) = BodyAt(processed) + (a - AddressAt[image][processed])
    BY <1>2, <1>3
  <2> QED BY <2>2, <2>4, <2>5
<1>8. partition' = Written(Bytes(buf, n), n)
  BY DEF WriteUnits
<1> QED
  BY <1>2, <1>7, <1>8, WriteIsRight DEF StreamInv, Follows

\* The rest of a raw chunk is written where it belongs, and the next header follows.
LEMMA WriteRestArrives == ASSUME StreamInv, WriteRest PROVE StreamInv'
<1> DEFINE c == image.chunks[processed]
<1>1. /\ Handling("CHUNK_DATA") /\ stage = "handle" /\ status = "OK" /\ size > 0 /\ phase = "CHUNK_DATA"
      /\ size >= remain /\ WriteUnits(remain) /\ offset' = offset + remain
      /\ status' = "OK" /\ phase' = "CHUNK_HEADER" /\ size' = size - remain
      /\ UNCHANGED <<stage, packageVars, unhandled, processed>>
  BY DEF WriteRest, Handling, SetStatus
<1>2. /\ Stretch' /\ AtFileHeader' /\ Here = received - size + 1 /\ Here' = received - size' + 1
      /\ UNCHANGED <<image, received, content, padding>> /\ stage' = "handle"
  BY <1>1, CallKeeps
<1>3. /\ Follows /\ Place /\ processed \in 0 .. Count /\ unhandled = <<>>
      /\ BodyAt(processed) \in Nat /\ Start(processed) = BodyAt(processed) + Body(c)
      /\ AddressAt[image][processed] \in Nat /\ AddressAt[image][processed + 1] = AddressAt[image][processed] + Covered(c)
      /\ size \in Nat /\ remain \in Nat /\ offset \in Nat /\ c.bytes \in Nat
  BY <1>1, BodyFacts
<1>4. /\ c.type = "raw"
      /\ Here = BodyAt(processed) + (c.bytes - remain)
      /\ offset = AddressAt[image][processed] + (c.bytes - remain)
  BY <1>1, <1>3 DEF Place, InRaw
<1>5. Body(c) = c.bytes /\ Covered(c) = c.bytes
  BY <1>4 DEF Body, Covered
<1>6. OutputTypes' /\ Right'
  <2>1. remain \in 0 .. remain /\ remain <= size
    BY <1>1, <1>3
  <2> QED BY <1>1, <1>2, <1>3, <2>1, RawIsRight
<1>7. Here' = Start(processed) /\ Start(processed) \in Nat
  <2>1. received \in Nat
    BY Numbers
  <2>2. received - (size - remain) + 1 = (received - size + 1) + remain
    BY <1>3, <2>1
  <2>3. Here' = (BodyAt(processed) + (c.bytes - remain)) + remain
    BY <1>1, <1>2, <1>4, <2>2
  <2> QED BY <1>3, <1>5, <2>3
<1>8. offset' = AddressAt[image][processed + 1]
  <2>1. PICK r \in Nat, b \in Nat, at \in Nat : r = remain /\ b = c.bytes /\ at = AddressAt[image][processed]
    BY <1>3
  <2>2. offset' = (at + (b - r)) + r
    BY <1>1, <1>4, <2>1
  <2>3. AddressAt[image][processed + 1] = at + b
    BY <1>3, <1>5, <2>1
  <2> QED BY <2>1, <2>2, <2>3
<1>9. AtChunkHeader'
  BY <1>1, <1>2, <1>3, <1>7, <1>8, ChunkDone
<1>10. BuffersInv'
  BY DataStepsKeep DEF StreamInv
<1>11. processed' \in 0 .. Count'
  BY <1>1, <1>2, <1>3, SameImage
<1> QED
  BY <1>1, <1>2, <1>6, <1>9, <1>10, <1>11 DEF StreamInv, Follows, Place

\* The chunk is not done: the machine stays in its raw data, n units further.
LEMMA RawGoesOn ==
    ASSUME StreamInv, Handling("CHUNK_DATA"), UNCHANGED <<stage, packageVars, unhandled, processed>>,
           NEW n \in Nat, n <= size, size < remain,
           offset' = offset + n, remain' = remain - n, size' = size - n, phase' = "CHUNK_DATA",
           status' \in {"OK", "SPARSE_INCOMPLETE"}, BuffersInv', OutputTypes', Right'
    PROVE  StreamInv'
<1> DEFINE c == image.chunks[processed]
<1>1. stage = "handle" /\ status = "OK" /\ size > 0 /\ phase = "CHUNK_DATA"
  BY DEF Handling
<1>2. /\ Stretch' /\ AtFileHeader' /\ Here = received - size + 1 /\ Here' = received - size' + 1
      /\ UNCHANGED <<image, received, content, padding>> /\ stage' = "handle"
  BY <1>1, CallKeeps
<1>3. /\ Follows /\ Place /\ processed \in 0 .. Count /\ processed >= 1 /\ unhandled = <<>>
      /\ BodyAt(processed) \in Nat /\ AddressAt[image][processed] \in Nat
      /\ size \in Nat /\ remain \in Nat /\ c.bytes \in Nat
  BY <1>1, BodyFacts, Numbers
<1>4. /\ c.type = "raw" /\ remain <= c.bytes
      /\ Here = BodyAt(processed) + (c.bytes - remain)
      /\ offset = AddressAt[image][processed] + (c.bytes - remain)
  BY <1>1, <1>3 DEF Place, InRaw
<1>5. PICK r \in Nat, b \in Nat, s \in Nat, at \in Nat, body \in Nat, t \in Nat :
        /\ r = remain /\ b = c.bytes /\ s = size /\ at = AddressAt[image][processed] /\ body = BodyAt(processed)
        /\ t = received
  BY <1>3, Numbers
<1>6. Here' = body + (b - (r - n)) /\ offset' = at + (b - (r - n)) /\ s - n < r - n /\ r - n <= b
  <2>1. t - s + 1 = body + (b - r) /\ Here' = t - (s - n) + 1 /\ offset' = (at + (b - r)) + n /\ r <= b /\ s < r
    BY <1>2, <1>4, <1>5
  <2>2. t - (s - n) + 1 = (t - s + 1) + n /\ (body + (b - r)) + n = body + (b - (r - n))
    BY <1>5
  <2>3. (at + (b - r)) + n = at + (b - (r - n)) /\ r - n <= b
    BY <1>5, <2>1
  <2>4. s - n < r - n
    BY <1>5, <2>1
  <2> QED BY <2>1, <2>2, <2>3, <2>4
<1>7. image'.chunks[processed'] = c /\ BodyAt(processed)' = body /\ AddressAt[image'][processed'] = at
      /\ remain' = r - n /\ size' = s - n
  BY <1>2, <1>5, SameImage
<1>8. InRaw'
  BY <1>2, <1>4, <1>5, <1>6, <1>7 DEF InRaw
<1>9. processed' \in 0 .. Count' /\ processed' >= 1
  BY <1>2, <1>3, SameImage
<1> QED
  BY <1>2, <1>3, <1>8, <1>9 DEF StreamInv, Follows, Place

\* The whole blocks of the package are written, and the chunk goes on.
LEMMA WritePartArrives == ASSUME StreamInv, WritePart PROVE StreamInv'
<1>1. /\ Handling("CHUNK_DATA") /\ size < remain /\ WriteUnits(Blocks(size))
      /\ offset' = offset + Blocks(size) /\ remain' = remain - Blocks(size) /\ size' = size - Blocks(size)
      /\ status' = "OK" /\ phase' = "CHUNK_DATA"
      /\ UNCHANGED <<stage, packageVars, unhandled, processed>>
  BY DEF WritePart, SetStatus
<1>2. size \in Nat /\ Even(size) /\ remain \in Nat
  BY <1>1 DEF StreamInv, BuffersInv, TypesKept, Parity, Handling
<1>3. Blocks(size) \in Nat /\ Blocks(size) <= size
  BY <1>2, BlocksOf
<1>4. image' = image
  BY <1>1 DEF packageVars
<1>5. OutputTypes' /\ Right'
  <2>1. Blocks(size) \in 0 .. Blocks(size) /\ Blocks(size) <= remain
    BY <1>1, <1>2, <1>3
  <2> QED BY <1>1, <1>3, <1>4, <2>1, RawIsRight
<1>6. BuffersInv'
  BY DataStepsKeep DEF StreamInv
<1> QED
  BY <1>1, <1>3, <1>5, <1>6, RawGoesOn

\* The tail is left for the next package.
LEMMA CarryTailArrives == ASSUME StreamInv, CarryTail PROVE StreamInv'
<1>1. /\ Handling("CHUNK_DATA") /\ size < remain /\ size' = size
      /\ status' = "SPARSE_INCOMPLETE" /\ phase' = "CHUNK_DATA"
      /\ UNCHANGED <<stage, packageVars, unhandled, remain, offset, processed, partition>>
  BY DEF CarryTail, SetStatus, unsparseVars
<1>2. image' = image
  BY <1>1 DEF packageVars
<1>3. size \in Nat /\ remain \in Nat /\ offset \in Nat
  BY <1>1 DEF StreamInv, BuffersInv, TypesKept, Parity, OutputTypes, Handling
<1>4. Follows
  BY <1>1 DEF StreamInv, Handling
<1>5. OutputTypes' /\ Right'
  BY <1>1, <1>2, <1>4, RightKept DEF StreamInv, OutputTypes, Follows
<1>6. BuffersInv'
  BY DataStepsKeep DEF StreamInv
<1>7. 0 \in Nat /\ 0 <= size /\ offset' = offset + 0 /\ remain' = remain - 0 /\ size' = size - 0
  BY <1>1, <1>3
<1> QED
  BY <1>1, <1>5, <1>6, <1>7, RawGoesOn

\* Some of the blocks have been written when the write fails, and belong there.
LEMMA WriteFailsArrives == ASSUME StreamInv, NEW n \in Nat, n \in 0 .. Room, WriteFails(n) PROVE StreamInv'
<1>1. /\ Handling("CHUNK_DATA") /\ stage = "handle" /\ phase = "CHUNK_DATA"
      /\ n < Smaller(size, remain) /\ WriteUnits(n) /\ status' = "EMMC_ERR"
      /\ UNCHANGED <<stage, packageVars, size, phase, offset, processed>>
  BY DEF WriteFails, Handling, unsparseVars
<1>2. Stretch' /\ AtFileHeader' /\ UNCHANGED <<image, received, content, padding>> /\ stage' = "handle"
  BY <1>1, CallKeeps
<1>3. size \in Nat /\ remain \in Nat /\ offset \in Nat
  BY <1>1 DEF StreamInv, BuffersInv, TypesKept, Parity, OutputTypes, Handling
<1>4. OutputTypes' /\ Right'
  <2>1. n <= size /\ n <= remain /\ 0 \in 0 .. n /\ offset' = offset + 0
    BY <1>1, <1>3 DEF Smaller
  <2> QED BY <1>1, <1>2, <2>1, RawIsRight
<1>5. Follows
  BY <1>1 DEF StreamInv
<1>6. Follows'
  BY <1>1, <1>2, <1>4, <1>5, SameImage DEF Follows, Alive
<1>7. BuffersInv'
  BY DataStepsKeep DEF StreamInv
<1> QED
  BY <1>1, <1>2, <1>4, <1>6, <1>7 DEF StreamInv

---------------------------------------------------------------------------

\* Each step, by its kind.
LEMMA StreamStep == ASSUME StreamInv, [StreamNext]_streamVars PROVE StreamInv'
<1>1. CASE UNCHANGED streamVars
  BY <1>1, SameArrives
<1>2. CASE NoFileHeader
  BY <1>2, SameArrives DEF NoFileHeader
<1>3. CASE \E n \in 0 .. Room : Fill(n)
  <2>1. PICK n \in 0 .. Room : Fill(n)
    BY <1>3
  <2>2. n \in Nat
    BY SizesAssumption
  <2> QED BY <2>1, <2>2, FillArrives
<1>4. CASE \E n \in 0 .. Room : WriteFails(n)
  <2>1. PICK n \in 0 .. Room : WriteFails(n)
    BY <1>4
  <2>2. n \in Nat
    BY SizesAssumption
  <2> QED BY <2>1, <2>2, WriteFailsArrives
<1> QED
  BY <1>1, <1>2, <1>3, <1>4, BeginArrives, PackageArrives, ReturnArrives, FileHeaderArrives, SkipRestArrives,
     SaveHeaderArrives, ChunkStartArrives, UnknownChunkArrives, CrcArrives, WriteRestArrives, WritePartArrives,
     CarryTailArrives DEF StreamNext

\* A stream that has all chunks ends behind the last one.
LEMMA CompleteMeans ==
    ASSUME StreamInv, Complete
    PROVE  /\ image.sent + 1 >= Start(Count)
           /\ \A p \in 0 .. Count : p < Count => Start(p) + image.chunkHeader <= Start(Count)
<1>1. /\ Count \in Nat /\ image \in Images /\ image.chunkHeader \in Nat /\ image.sent \in Nat
  BY Numbers
<1>2. image.sent + 1 >= Start(Count)
  BY <1>1, Layout DEF Complete, Start, BodyAt, Count
<1>3. ASSUME NEW p \in 0 .. Count, p < Count PROVE Start(p) + image.chunkHeader <= Start(Count)
  <2>1. p + 1 \in 1 .. Count /\ Count \in 1 .. Count /\ Count # 0 /\ (p + 1) - 1 = p
    BY <1>1, <1>3
  <2>2. /\ Start(p) = HeaderAt[image][p + 1] /\ BodyAt(p + 1) = Start(p) + image.chunkHeader
        /\ Body(image.chunks[p + 1]) \in Nat /\ Body(image.chunks[Count]) \in Nat
        /\ BodyAt(Count) \in Nat /\ BodyAt(p + 1) \in Nat /\ HeaderAt[image][Count] \in Nat
        /\ BodyAt(Count) = HeaderAt[image][Count] + image.chunkHeader
    BY <1>1, <2>1, Layout
  <2>3. Start(Count) = BodyAt(Count) + Body(image.chunks[Count])
    BY <2>1 DEF Start
  <2>4. CASE p + 1 = Count
    BY <2>2, <2>3, <2>4
  <2>5. CASE p + 1 # Count
    <3>1. BodyAt(p + 1) + Body(image.chunks[p + 1]) <= HeaderAt[image][Count]
      BY <1>1, <2>1, <2>5, Apart
    <3> QED BY <1>1, <2>2, <2>3, <3>1
  <2> QED BY <2>4, <2>5
<1> QED BY <1>2, <1>3

\* At the end of a stream that has all chunks and no error the machine is behind the last chunk.
LEMMA AllDone ==
    ASSUME StreamInv, stage = "end", status = "OK", phase # "SPARSE_HEADER", Complete
    PROVE  padding = <<>> /\ offset = AddressAt[image][Count + 1]
<1>1. /\ Follows /\ Place /\ processed \in 0 .. Count /\ received = image.sent
      /\ phase \in {"CHUNK_HEADER", "CHUNK_DATA", "CHUNK_FILL", "CHUNK_CRC"}
  BY DEF StreamInv, Follows, Alive, Stretch, BuffersInv, TypesKept, Phases
<1>2. /\ Here = image.sent - Len(padding) + 1 /\ Len(padding) \in Nat /\ Count \in Nat
      /\ image.chunkHeader \in Nat /\ image.chunkHeader > 0 /\ image.sent \in Nat
      /\ padding = <<>> <=> Len(padding) = 0
      /\ Start(processed) \in Nat /\ Start(Count) \in Nat
  <2>1. Count \in 0 .. Count /\ image \in Images
    BY Numbers
  <2>2. Here = image.sent - Len(padding) + 1
    BY <1>1 DEF Here, Left
  <2> QED BY <1>1, <2>1, <2>2, Layout, Numbers
<1>3. /\ image.sent + 1 >= Start(Count)
      /\ processed < Count => Start(processed) + image.chunkHeader <= Start(Count)
  BY <1>1, CompleteMeans
<1>4. ASSUME phase = "CHUNK_HEADER" PROVE padding = <<>> /\ processed = Count /\ offset = AddressAt[image][processed + 1]
  <2>1. AtChunkHeader /\ padding = <<>>
    BY <1>1, <1>4 DEF Place
  <2>2. Here = image.sent + 1
    BY <1>2, <2>1
  <2>3. ASSUME processed < Count PROVE FALSE
    <3>1. Here < Start(processed) + image.chunkHeader
      <4>1. InHeader
        BY <2>1, <2>3 DEF AtChunkHeader
      <4>2. \/ Here = Start(processed) + Len(unhandled) /\ Len(unhandled) < image.chunkHeader
            \/ Here < Start(processed) + image.chunkHeader
        BY <4>1 DEF InHeader
      <4>3. Len(unhandled) \in Nat
        BY Numbers
      <4> QED BY <1>2, <4>2, <4>3
    <3> QED BY <1>2, <1>3, <2>2, <2>3, <3>1
  <2> QED BY <1>1, <1>2, <2>1, <2>3 DEF AtChunkHeader
<1>5. ASSUME phase # "CHUNK_HEADER" PROVE padding = <<>> /\ processed = Count /\ offset = AddressAt[image][processed + 1]
  <2> DEFINE c == image.chunks[processed]
  <2>1. processed \in 1 .. Count /\ processed # 0
    BY <1>1, <1>2, <1>5 DEF Place
  <2>2. /\ BodyAt(processed) \in Nat /\ AddressAt[image][processed] \in Nat /\ c.bytes \in Nat /\ Body(c) \in Nat
        /\ AddressAt[image][processed + 1] = AddressAt[image][processed] + Covered(c)
    BY <2>1, Layout, Numbers
  <2>3. Start(processed) = BodyAt(processed) + Body(c)
    BY <2>1 DEF Start
  <2>4. image.sent + 1 >= BodyAt(processed) + Body(c) /\ (processed < Count => image.sent + 1 > BodyAt(processed) + Body(c))
    <3>1. CASE processed = Count
      BY <1>2, <1>3, <2>3, <3>1
    <3>2. CASE processed < Count
      <4>1. Start(processed) + image.chunkHeader > Start(processed)
        BY <1>2
      <4>2. Start(Count) > Start(processed)
        BY <1>2, <1>3, <3>2, <4>1
      <4>3. image.sent + 1 > Start(processed)
        BY <1>2, <1>3, <4>2
      <4> QED BY <1>2, <2>3, <4>3
    <3> QED BY <1>2, <2>1, <3>1, <3>2
  <2>5. ASSUME phase = "CHUNK_FILL" PROVE FALSE
    <3>1. Here = BodyAt(processed) /\ Body(c) = 2 /\ Len(padding) = 0
      BY <1>1, <1>2, <2>5 DEF Place, AtFill, Body, Seed
    <3> QED BY <1>2, <2>2, <2>4, <3>1
  <2>6. ASSUME phase = "CHUNK_CRC" PROVE FALSE
    <3>1. Here = BodyAt(processed) /\ Body(c) = 2 /\ Len(padding) = 0
      BY <1>1, <1>2, <2>6 DEF Place, AtCrc, Body, Seed
    <3> QED BY <1>2, <2>2, <2>4, <3>1
  <2>7. phase = "CHUNK_DATA" /\ InRaw
    BY <1>1, <1>5, <2>5, <2>6 DEF Place
  <2>8. /\ remain <= c.bytes /\ Here = BodyAt(processed) + (c.bytes - remain)
        /\ offset = AddressAt[image][processed] + (c.bytes - remain)
        /\ Len(padding) # 0 => Len(padding) < remain
        /\ Body(c) = c.bytes /\ Covered(c) = c.bytes
    BY <1>2, <2>7 DEF InRaw, Body, Covered
  <2>9. remain \in Nat
    BY DEF StreamInv, BuffersInv, Parity
  <2>10. PICK r \in Nat, b \in Nat, l \in Nat, n \in Nat, body \in Nat :
           r = remain /\ b = c.bytes /\ l = Len(padding) /\ n = image.sent /\ body = BodyAt(processed)
    BY <1>2, <2>2, <2>9
  <2>11. n - l + 1 = body + (b - r) /\ n + 1 >= body + b /\ (processed < Count => n + 1 > body + b) /\ (l # 0 => l < r)
    BY <1>2, <2>4, <2>8, <2>10
  <2>12. l = 0 /\ r = 0 /\ ~(processed < Count)
    <3>1. n + 1 = body + (b - r) + l
      <4>1. n \in Nat /\ l \in Nat /\ body \in Nat /\ b \in Nat /\ r \in Nat
        BY <2>10
      <4>2. n - l + 1 = body + (b - r)
        BY <2>11
      <4> QED BY <4>1, <4>2
    <3>2. l >= r
      <4>1. \A x, y, u, v \in Nat : x + (y - u) + v >= x + y => v >= u
        OBVIOUS
      <4>2. body + (b - r) + l >= body + b
        BY <2>11, <3>1
      <4> QED BY <2>10, <4>1, <4>2
    <3>3. l = 0 /\ r = 0
      <4>1. l \in Nat /\ r \in Nat /\ (l # 0 => l < r)
        BY <2>10, <2>11
      <4> QED BY <4>1, <3>2
    <3>4. n + 1 = body + b
      BY <2>10, <3>1, <3>3
    <3> QED BY <2>10, <2>11, <3>3, <3>4
  <2>13. offset = AddressAt[image][processed + 1]
    BY <2>2, <2>8, <2>10, <2>12
  <2> QED BY <1>1, <1>2, <2>10, <2>12, <2>13
<1> QED BY <1>4, <1>5

\* Whatever the partition holds up to the offset is what the image says, wherever the pages
\* cut it, whichever write failed and whatever the download before left in the static state;
\* and a complete image that ends without an error is on the partition, all of it, while only
\* a chunk of no known type is refused as one (sparse_state_machine.c:100, 160;
\* transfer_parallel.c:193).
THEOREM ArrivesWhole == StreamSpec => []ImageArrives
<1>1. StreamInv => ImageArrives
  <2> SUFFICES ASSUME StreamInv PROVE ImageArrives
    OBVIOUS
  <2>1. WrittenIsMeant
    BY DEF StreamInv, Follows, Right, WrittenIsMeant
  <2>2. ASSUME stage = "end", phase # "SPARSE_HEADER", Complete, status = "OK", NEW a \in DOMAIN partition
        PROVE  partition[a] = Meaning(a)
    <3>1. partition[a] = Meaning(a) \/ (a >= offset /\ partition[a] = Old)
      BY <2>2 DEF StreamInv, Follows, Right
    <3>2. offset = AddressAt[image][Count + 1] /\ image \in Images
      BY <2>2, AllDone, Numbers
    <3>3. a \in Int
      BY DEF StreamInv, OutputTypes
    <3>4. a >= offset => Meaning(a) = Old
      BY <3>2, <3>3, NothingBeyond
    <3> QED BY <3>1, <3>4
  <2>3. SuccessIsWhole
    BY <2>2, AllDone DEF SuccessIsWhole, StreamInv, Follows
  <2> QED BY <2>1, <2>3 DEF ImageArrives
<1>2. StreamInv /\ [StreamNext]_streamVars => StreamInv'
  BY StreamStep
<1> QED
  BY InitArrives, <1>1, <1>2, PTL DEF StreamSpec

=============================================================================
