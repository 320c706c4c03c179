------------------------ MODULE ParallelDownloadProofs ------------------------
(***************************************************************************)
(* Proofs about ParallelDownload for images of any number of pages, any    *)
(* number of downloads and any choice of kinds and faults.                 *)
(*                                                                         *)
(* NoCacheRace is not inductive.  What keeps the two sides apart is that   *)
(* every half of the cache has one token, which is its cache_available     *)
(* event, or its content_available event, or is in the hands of the reader *)
(* or of the writer.  stop_engine puts up all events and so forges tokens, *)
(* but each side does it after its own last use of the cache: the tokens   *)
(* need be sound only while neither side has begun to stop.  Why neither   *)
(* side begins again while the other still runs is Lifecycle.              *)
(***************************************************************************)
EXTENDS ParallelDownload, TLAPS

ReaderWorks == rpc \in {"wait", "read", "check", "publish", "last"}
WriterWorks == wpc \in {"wait", "write", "release"}

ReaderHas(i) == rpc \in {"read", "check", "publish", "last"} /\ flipW = i
WriterHas(i) == wpc \in {"write", "release"} /\ flipR = i

OneToken(i) ==
    /\ cacheAvailable[i] => ~contentAvailable[i] /\ ~ReaderHas(i) /\ ~WriterHas(i)
    /\ contentAvailable[i] => ~ReaderHas(i) /\ ~WriterHas(i)
    /\ ~(ReaderHas(i) /\ WriterHas(i))

Tokens == ReaderWorks /\ WriterWorks => \A i \in Caches : OneToken(i)

\* When each thread exists and the context lives, and what stop_engine has done.
Lifecycle ==
    /\ rpc # "idle" => live
    /\ rpc \in {"idle", "create", "joinW"} => wpc = "exit"
    /\ thrREnd => wpc = "exit"
    /\ rpc = "create" =>
         /\ ~thrREnd
         /\ cacheAvailable = Both(TRUE) /\ contentAvailable = Both(FALSE)
         /\ wstop = 0
    /\ WriterWorks => wstop = 0
    /\ wpc = "stop" => wstop <= 2
    /\ rpc = "create" \/ ReaderWorks => rstop = 0
    /\ rpc = "stop" => rstop <= 2
    /\ rpc = "read" => bytesRead < pages

IInv == TypeOK /\ Tokens /\ Lifecycle

---------------------------------------------------------------------------

\* The invariant holds when the program starts: no thread, no engine.
LEMMA InitIInv == Init => IInv
<1> SUFFICES ASSUME Init PROVE IInv
  OBVIOUS
<1> USE DownloadAssumption DEF Init
<1>1. EngineType
  BY DEF EngineType, Caches, Both
<1>2. /\ statusUsb \in BOOLEAN /\ statusStorage \in BOOLEAN
      /\ sparseStatus \in BOOLEAN /\ bulkStatus \in BOOLEAN
      /\ firstRun \in BOOLEAN /\ fits \in BOOLEAN
  BY Zenon
<1>3. BufferType
  BY DEF BufferType, Caches, Both
<1>4. ReaderType /\ WriterType /\ StaticType
  BY <1>2 DEF ReaderType, WriterType, StaticType, Caches
<1>5. ImageType
  <2>1. kind \in {"sparse", "bulk"} /\ pages \in 0 .. MaxPages /\ downloads \in 0 .. MaxDownloads
    OBVIOUS
  <2>2. fault \in BOOLEAN
    BY Zenon
  <2>3. stored \in [1 .. MaxPages -> 0 .. MaxPages]
    OBVIOUS
  <2>4. result \in {"none", "ok", "error"}
    OBVIOUS
  <2> QED
    BY <1>2, <2>1, <2>2, <2>3, <2>4 DEF ImageType
<1>6. Tokens /\ Lifecycle
  BY DEF Tokens, Lifecycle, ReaderWorks, WriterWorks
<1> QED
  BY <1>1, <1>3, <1>4, <1>5, <1>6 DEF IInv, TypeOK


\* The events stay flags.
LEMMA EngineTypeStep == TypeOK /\ Lifecycle /\ [Next]_vars => EngineType'
<1> SUFFICES ASSUME TypeOK /\ Lifecycle, [Next]_vars PROVE EngineType'
  OBVIOUS
<1> USE DEF TypeOK, EngineType, ReaderType, WriterType, Caches, Both, Other,
        vars, engineVars, readerVars, writerVars, bufferVars, staticVars, imageVars
<1>1. ASSUME NEW k \in Kinds, NEW n \in 0 .. MaxPages, NEW f \in BOOLEAN, Begin(k, n, f)
      PROVE EngineType'
  BY <1>1 DEF Begin
<1>2. CASE CreateWriter
  BY <1>2 DEF CreateWriter
<1>3. CASE CreateFails
  BY <1>3 DEF CreateFails
<1>4. CASE ReaderWait
  BY <1>4 DEF ReaderWait
<1>5. CASE UsbRead
  BY <1>5 DEF UsbRead
<1>6. CASE UsbError
  BY <1>6 DEF UsbError
<1>7. CASE ReaderCheck
  BY <1>7 DEF ReaderCheck
<1>8. CASE ReaderPublish
  BY <1>8 DEF ReaderPublish
<1>9. CASE ReaderStop
  BY <1>9 DEF ReaderStop
<1>10. CASE ReaderJoinR
  BY <1>10 DEF ReaderJoinR
<1>11. CASE Return
  BY <1>11 DEF Return, Outcome
<1>12. CASE WriterWait
  BY <1>12 DEF WriterWait
<1>13. CASE WriteTooLarge
  BY <1>13 DEF WriteTooLarge, WriteDataReturns
<1>14. CASE WriterRelease
  BY <1>14 DEF WriterRelease
<1>15. CASE WriterStop
  BY <1>15 DEF WriterStop
<1>16. ASSUME NEW ok \in BOOLEAN, NEW carry \in BOOLEAN, WriteSparse(ok, carry)
      PROVE EngineType'
  BY <1>16 DEF WriteSparse, Carried, WriteDataReturns
<1>17. ASSUME NEW ok \in BOOLEAN, WriteBulk(ok)
      PROVE EngineType'
  BY <1>17 DEF WriteBulk, BulkOffset, WriteDataReturns
<1>18. CASE UNCHANGED vars
  BY <1>18 DEF vars
<1> QED
  BY <1>1, <1>2, <1>3, <1>4, <1>5, <1>6, <1>7, <1>8, <1>9, <1>10, <1>11, <1>12, <1>13, <1>14, <1>15, <1>16, <1>17, <1>18 DEF Next, Reader, Writer

\* The reader stays in its states and reads at most the image.
LEMMA ReaderTypeStep == TypeOK /\ Lifecycle /\ [Next]_vars => ReaderType'
<1> SUFFICES ASSUME TypeOK /\ Lifecycle, [Next]_vars PROVE ReaderType'
  OBVIOUS
<1> USE DownloadAssumption DEF TypeOK, ReaderType, ImageType, Lifecycle, Caches, Other,
        vars, engineVars, readerVars, writerVars, bufferVars, staticVars, imageVars
<1>1. ASSUME NEW k \in Kinds, NEW n \in 0 .. MaxPages, NEW f \in BOOLEAN, Begin(k, n, f)
      PROVE ReaderType'
  BY <1>1 DEF Begin
<1>2. CASE CreateWriter
  BY <1>2 DEF CreateWriter
<1>3. CASE CreateFails
  BY <1>3 DEF CreateFails
<1>4. CASE ReaderWait
  BY <1>4 DEF ReaderWait
<1>5. CASE UsbRead
  BY <1>5 DEF UsbRead
<1>6. CASE UsbError
  BY <1>6 DEF UsbError
<1>7. CASE ReaderCheck
  BY <1>7 DEF ReaderCheck
<1>8. CASE ReaderPublish
  BY <1>8 DEF ReaderPublish
<1>9. CASE ReaderStop
  BY <1>9 DEF ReaderStop
<1>10. CASE ReaderJoinR
  BY <1>10 DEF ReaderJoinR
<1>11. CASE Return
  BY <1>11 DEF Return, Outcome
<1>12. CASE WriterWait
  BY <1>12 DEF WriterWait
<1>13. CASE WriteTooLarge
  BY <1>13 DEF WriteTooLarge, WriteDataReturns
<1>14. CASE WriterRelease
  BY <1>14 DEF WriterRelease
<1>15. CASE WriterStop
  BY <1>15 DEF WriterStop
<1>16. ASSUME NEW ok \in BOOLEAN, NEW carry \in BOOLEAN, WriteSparse(ok, carry)
      PROVE ReaderType'
  BY <1>16 DEF WriteSparse, Carried, WriteDataReturns
<1>17. ASSUME NEW ok \in BOOLEAN, WriteBulk(ok)
      PROVE ReaderType'
  BY <1>17 DEF WriteBulk, BulkOffset, WriteDataReturns
<1>18. CASE UNCHANGED vars
  BY <1>18 DEF vars
<1> QED
  BY <1>1, <1>2, <1>3, <1>4, <1>5, <1>6, <1>7, <1>8, <1>9, <1>10, <1>11, <1>12, <1>13, <1>14, <1>15, <1>16, <1>17, <1>18 DEF Next, Reader, Writer

\* The writer stays in its states.
LEMMA WriterTypeStep == TypeOK /\ Lifecycle /\ [Next]_vars => WriterType'
<1> SUFFICES ASSUME TypeOK /\ Lifecycle, [Next]_vars PROVE WriterType'
  OBVIOUS
<1> USE DEF TypeOK, ReaderType, WriterType, BufferType, StaticType, Lifecycle, Caches, Other,
        vars, engineVars, readerVars, writerVars, bufferVars, staticVars, imageVars
<1>1. ASSUME NEW k \in Kinds, NEW n \in 0 .. MaxPages, NEW f \in BOOLEAN, Begin(k, n, f)
      PROVE WriterType'
  BY <1>1 DEF Begin
<1>2. CASE CreateWriter
  BY <1>2 DEF CreateWriter
<1>3. CASE CreateFails
  BY <1>3 DEF CreateFails
<1>4. CASE ReaderWait
  BY <1>4 DEF ReaderWait
<1>5. CASE UsbRead
  BY <1>5 DEF UsbRead
<1>6. CASE UsbError
  BY <1>6 DEF UsbError
<1>7. CASE ReaderCheck
  BY <1>7 DEF ReaderCheck
<1>8. CASE ReaderPublish
  BY <1>8 DEF ReaderPublish
<1>9. CASE ReaderStop
  BY <1>9 DEF ReaderStop
<1>10. CASE ReaderJoinR
  BY <1>10 DEF ReaderJoinR
<1>11. CASE Return
  BY <1>11 DEF Return, Outcome
<1>12. CASE WriterWait
  BY <1>12 DEF WriterWait
<1>13. CASE WriteTooLarge
  BY <1>13 DEF WriteTooLarge, WriteDataReturns
<1>14. CASE WriterRelease
  BY <1>14 DEF WriterRelease
<1>15. CASE WriterStop
  BY <1>15 DEF WriterStop
<1>16. ASSUME NEW ok \in BOOLEAN, NEW carry \in BOOLEAN, WriteSparse(ok, carry)
      PROVE WriterType'
  BY <1>16 DEF WriteSparse, Carried, WriteDataReturns
<1>17. ASSUME NEW ok \in BOOLEAN, WriteBulk(ok)
      PROVE WriterType'
  BY <1>17 DEF WriteBulk, BulkOffset, WriteDataReturns
<1>18. CASE UNCHANGED vars
  BY <1>18 DEF vars
<1> QED
  BY <1>1, <1>2, <1>3, <1>4, <1>5, <1>6, <1>7, <1>8, <1>9, <1>10, <1>11, <1>12, <1>13, <1>14, <1>15, <1>16, <1>17, <1>18 DEF Next, Reader, Writer

\* The caches hold pages of the image.
LEMMA BufferTypeStep == TypeOK /\ Lifecycle /\ [Next]_vars => BufferType'
<1> SUFFICES ASSUME TypeOK /\ Lifecycle, [Next]_vars PROVE BufferType'
  OBVIOUS
<1> USE DownloadAssumption DEF TypeOK, ReaderType, WriterType, BufferType, ImageType, Lifecycle, Caches, Both, Other,
        vars, engineVars, readerVars, writerVars, bufferVars, staticVars, imageVars
<1>1. ASSUME NEW k \in Kinds, NEW n \in 0 .. MaxPages, NEW f \in BOOLEAN, Begin(k, n, f)
      PROVE BufferType'
  BY <1>1 DEF Begin
<1>2. CASE CreateWriter
  BY <1>2 DEF CreateWriter
<1>3. CASE CreateFails
  BY <1>3 DEF CreateFails
<1>4. CASE ReaderWait
  BY <1>4 DEF ReaderWait
<1>5. CASE UsbRead
  BY <1>5 DEF UsbRead
<1>6. CASE UsbError
  BY <1>6 DEF UsbError
<1>7. CASE ReaderCheck
  BY <1>7 DEF ReaderCheck
<1>8. CASE ReaderPublish
  BY <1>8 DEF ReaderPublish
<1>9. CASE ReaderStop
  BY <1>9 DEF ReaderStop
<1>10. CASE ReaderJoinR
  BY <1>10 DEF ReaderJoinR
<1>11. CASE Return
  BY <1>11 DEF Return, Outcome
<1>12. CASE WriterWait
  BY <1>12 DEF WriterWait
<1>13. CASE WriteTooLarge
  BY <1>13 DEF WriteTooLarge, WriteDataReturns
<1>14. CASE WriterRelease
  BY <1>14 DEF WriterRelease
<1>15. CASE WriterStop
  BY <1>15 DEF WriterStop
<1>16. ASSUME NEW ok \in BOOLEAN, NEW carry \in BOOLEAN, WriteSparse(ok, carry)
      PROVE BufferType'
  BY <1>16 DEF WriteSparse, Carried, WriteDataReturns
<1>17. ASSUME NEW ok \in BOOLEAN, WriteBulk(ok)
      PROVE BufferType'
  BY <1>17 DEF WriteBulk, BulkOffset, WriteDataReturns
<1>18. CASE UNCHANGED vars
  BY <1>18 DEF vars
<1> QED
  BY <1>1, <1>2, <1>3, <1>4, <1>5, <1>6, <1>7, <1>8, <1>9, <1>10, <1>11, <1>12, <1>13, <1>14, <1>15, <1>16, <1>17, <1>18 DEF Next, Reader, Writer

\* The static status stays what it is.
LEMMA StaticTypeStep == TypeOK /\ Lifecycle /\ [Next]_vars => StaticType'
<1> SUFFICES ASSUME TypeOK /\ Lifecycle, [Next]_vars PROVE StaticType'
  OBVIOUS
<1> USE DEF TypeOK, StaticType,
        vars, engineVars, readerVars, writerVars, bufferVars, staticVars, imageVars
<1>1. ASSUME NEW k \in Kinds, NEW n \in 0 .. MaxPages, NEW f \in BOOLEAN, Begin(k, n, f)
      PROVE StaticType'
  BY <1>1 DEF Begin
<1>2. CASE CreateWriter
  BY <1>2 DEF CreateWriter
<1>3. CASE CreateFails
  BY <1>3 DEF CreateFails
<1>4. CASE ReaderWait
  BY <1>4 DEF ReaderWait
<1>5. CASE UsbRead
  BY <1>5 DEF UsbRead
<1>6. CASE UsbError
  BY <1>6 DEF UsbError
<1>7. CASE ReaderCheck
  BY <1>7 DEF ReaderCheck
<1>8. CASE ReaderPublish
  BY <1>8 DEF ReaderPublish
<1>9. CASE ReaderStop
  BY <1>9 DEF ReaderStop
<1>10. CASE ReaderJoinR
  BY <1>10 DEF ReaderJoinR
<1>11. CASE Return
  BY <1>11 DEF Return, Outcome
<1>12. CASE WriterWait
  BY <1>12 DEF WriterWait
<1>13. CASE WriteTooLarge
  <2> USE <1>13 DEF WriteTooLarge, WriteDataReturns
  <2>1. sparseStatus' \in BOOLEAN
    BY Zenon DEF SparseStatus
  <2>2. bulkStatus' \in BOOLEAN /\ offset' \in Nat
    OBVIOUS
  <2> QED
    BY <2>1, <2>2
<1>14. CASE WriterRelease
  BY <1>14 DEF WriterRelease
<1>15. CASE WriterStop
  BY <1>15 DEF WriterStop
<1>16. ASSUME NEW ok \in BOOLEAN, NEW carry \in BOOLEAN, WriteSparse(ok, carry)
      PROVE StaticType'
  BY <1>16 DEF WriteSparse, Carried, WriteDataReturns
<1>17. ASSUME NEW ok \in BOOLEAN, WriteBulk(ok)
      PROVE StaticType'
  BY <1>17 DEF WriteBulk, BulkOffset, WriteDataReturns
<1>18. CASE UNCHANGED vars
  BY <1>18 DEF vars
<1> QED
  BY <1>1, <1>2, <1>3, <1>4, <1>5, <1>6, <1>7, <1>8, <1>9, <1>10, <1>11, <1>12, <1>13, <1>14, <1>15, <1>16, <1>17, <1>18 DEF Next, Reader, Writer

\* The partition holds pages of the image.
LEMMA ImageTypeStep == TypeOK /\ Lifecycle /\ [Next]_vars => ImageType'
<1> SUFFICES ASSUME TypeOK /\ Lifecycle, [Next]_vars PROVE ImageType'
  OBVIOUS
<1> USE DownloadAssumption DEF TypeOK, WriterType, BufferType, StaticType, ImageType, Caches,
        vars, engineVars, readerVars, writerVars, bufferVars, staticVars, imageVars
<1>1. ASSUME NEW k \in Kinds, NEW n \in 0 .. MaxPages, NEW f \in BOOLEAN, Begin(k, n, f)
      PROVE ImageType'
  <2> USE <1>1 DEF Begin
  <2>1. kind' \in {"sparse", "bulk"} /\ pages' \in 0 .. MaxPages /\ downloads' \in 0 .. MaxDownloads
    OBVIOUS
  <2>2. fits' \in BOOLEAN /\ fault' \in BOOLEAN
    BY Zenon
  <2>3. stored' \in [1 .. MaxPages -> 0 .. MaxPages] /\ result' \in {"none", "ok", "error"}
    OBVIOUS
  <2> QED
    BY <2>1, <2>2, <2>3
<1>2. CASE CreateWriter
  BY <1>2 DEF CreateWriter
<1>3. CASE CreateFails
  BY <1>3 DEF CreateFails
<1>4. CASE ReaderWait
  BY <1>4 DEF ReaderWait
<1>5. CASE UsbRead
  BY <1>5 DEF UsbRead
<1>6. CASE UsbError
  BY <1>6 DEF UsbError
<1>7. CASE ReaderCheck
  BY <1>7 DEF ReaderCheck
<1>8. CASE ReaderPublish
  BY <1>8 DEF ReaderPublish
<1>9. CASE ReaderStop
  BY <1>9 DEF ReaderStop
<1>10. CASE ReaderJoinR
  BY <1>10 DEF ReaderJoinR
<1>11. CASE Return
  BY <1>11 DEF Return, Outcome
<1>12. CASE WriterWait
  BY <1>12 DEF WriterWait
<1>13. CASE WriteTooLarge
  BY <1>13 DEF WriteTooLarge, WriteDataReturns
<1>14. CASE WriterRelease
  BY <1>14 DEF WriterRelease
<1>15. CASE WriterStop
  BY <1>15 DEF WriterStop
<1>16. ASSUME NEW ok \in BOOLEAN, NEW carry \in BOOLEAN, WriteSparse(ok, carry)
      PROVE ImageType'
  BY <1>16 DEF WriteSparse, Carried, WriteDataReturns
<1>17. ASSUME NEW ok \in BOOLEAN, WriteBulk(ok)
      PROVE ImageType'
  BY <1>17 DEF WriteBulk, BulkOffset, WriteDataReturns
<1>18. CASE UNCHANGED vars
  BY <1>18 DEF vars
<1> QED
  BY <1>1, <1>2, <1>3, <1>4, <1>5, <1>6, <1>7, <1>8, <1>9, <1>10, <1>11, <1>12, <1>13, <1>14, <1>15, <1>16, <1>17, <1>18 DEF Next, Reader, Writer

\* No step makes a second token of a half of the cache while both sides work.
LEMMA TokensStep == IInv /\ [Next]_vars => Tokens'
<1> SUFFICES ASSUME IInv, [Next]_vars PROVE Tokens'
  OBVIOUS
<1> USE DEF IInv, TypeOK, EngineType, ReaderType, WriterType, Caches, Both, Other, Tokens, OneToken, Lifecycle,
        ReaderWorks, WriterWorks, ReaderHas, WriterHas,
        vars, engineVars, readerVars, writerVars, bufferVars, staticVars, imageVars
<1>1. ASSUME NEW k \in Kinds, NEW n \in 0 .. MaxPages, NEW f \in BOOLEAN, Begin(k, n, f)
      PROVE Tokens'
  BY <1>1 DEF Begin
<1>2. CASE CreateWriter
  BY <1>2 DEF CreateWriter
<1>3. CASE CreateFails
  BY <1>3 DEF CreateFails
<1>4. CASE ReaderWait
  BY <1>4 DEF ReaderWait
<1>5. CASE UsbRead
  BY <1>5 DEF UsbRead
<1>6. CASE UsbError
  BY <1>6 DEF UsbError
<1>7. CASE ReaderCheck
  BY <1>7 DEF ReaderCheck
<1>8. CASE ReaderPublish
  BY <1>8 DEF ReaderPublish
<1>9. CASE ReaderStop
  BY <1>9 DEF ReaderStop
<1>10. CASE ReaderJoinR
  BY <1>10 DEF ReaderJoinR
<1>11. CASE Return
  BY <1>11 DEF Return, Outcome
<1>12. CASE WriterWait
  BY <1>12 DEF WriterWait
<1>13. CASE WriteTooLarge
  BY <1>13 DEF WriteTooLarge, WriteDataReturns
<1>14. CASE WriterRelease
  BY <1>14 DEF WriterRelease
<1>15. CASE WriterStop
  BY <1>15 DEF WriterStop
<1>16. ASSUME NEW ok \in BOOLEAN, NEW carry \in BOOLEAN, WriteSparse(ok, carry)
      PROVE Tokens'
  BY <1>16 DEF WriteSparse, Carried, WriteDataReturns
<1>17. ASSUME NEW ok \in BOOLEAN, WriteBulk(ok)
      PROVE Tokens'
  BY <1>17 DEF WriteBulk, BulkOffset, WriteDataReturns
<1>18. CASE UNCHANGED vars
  BY <1>18 DEF vars
<1> QED
  BY <1>1, <1>2, <1>3, <1>4, <1>5, <1>6, <1>7, <1>8, <1>9, <1>10, <1>11, <1>12, <1>13, <1>14, <1>15, <1>16, <1>17, <1>18 DEF Next, Reader, Writer

\* Every step keeps the two threads and the context in their life cycle.
LEMMA LifecycleStep == IInv /\ [Next]_vars => Lifecycle'
<1> SUFFICES ASSUME IInv, [Next]_vars PROVE Lifecycle'
  OBVIOUS
<1> USE DEF IInv, TypeOK, EngineType, ReaderType, WriterType, Both, Lifecycle, ReaderWorks, WriterWorks,
        vars, engineVars, readerVars, writerVars, bufferVars, staticVars, imageVars
<1>1. ASSUME NEW k \in Kinds, NEW n \in 0 .. MaxPages, NEW f \in BOOLEAN, Begin(k, n, f)
      PROVE Lifecycle'
  BY <1>1 DEF Begin
<1>2. CASE CreateWriter
  BY <1>2 DEF CreateWriter
<1>3. CASE CreateFails
  BY <1>3 DEF CreateFails
<1>4. CASE ReaderWait
  BY <1>4 DEF ReaderWait
<1>5. CASE UsbRead
  BY <1>5 DEF UsbRead
<1>6. CASE UsbError
  BY <1>6 DEF UsbError
<1>7. CASE ReaderCheck
  BY <1>7 DEF ReaderCheck
<1>8. CASE ReaderPublish
  BY <1>8 DEF ReaderPublish
<1>9. CASE ReaderStop
  BY <1>9 DEF ReaderStop
<1>10. CASE ReaderJoinR
  BY <1>10 DEF ReaderJoinR
<1>11. CASE Return
  BY <1>11 DEF Return, Outcome
<1>12. CASE WriterWait
  BY <1>12 DEF WriterWait
<1>13. CASE WriteTooLarge
  BY <1>13 DEF WriteTooLarge, WriteDataReturns
<1>14. CASE WriterRelease
  BY <1>14 DEF WriterRelease
<1>15. CASE WriterStop
  <2> USE <1>15 DEF WriterStop
  <2>1. wpc = "stop" /\ rpc' = rpc /\ ~thrREnd /\ rpc # "create"
    OBVIOUS
  <2>2. CASE wstop = 2
    BY <2>1, <2>2
  <2>3. CASE wstop # 2
    <3>1. thrREnd' = FALSE
      BY <2>1, <2>3
    <3>2. wpc' = "stop" /\ wstop' <= 2
      BY <2>3
    <3> QED
      BY <2>1, <3>1, <3>2
  <2> QED
    BY <2>2, <2>3
<1>16. ASSUME NEW ok \in BOOLEAN, NEW carry \in BOOLEAN, WriteSparse(ok, carry)
      PROVE Lifecycle'
  BY <1>16 DEF WriteSparse, Carried, WriteDataReturns
<1>17. ASSUME NEW ok \in BOOLEAN, WriteBulk(ok)
      PROVE Lifecycle'
  BY <1>17 DEF WriteBulk, BulkOffset, WriteDataReturns
<1>18. CASE UNCHANGED vars
  BY <1>18 DEF vars
<1> QED
  BY <1>1, <1>2, <1>3, <1>4, <1>5, <1>6, <1>7, <1>8, <1>9, <1>10, <1>11, <1>12, <1>13, <1>14, <1>15, <1>16, <1>17, <1>18 DEF Next, Reader, Writer

\* The inductive invariant holds in every state of every behaviour.
THEOREM Invariance == Spec => []IInv
<1>1. Init => IInv
  BY InitIInv
<1>2. IInv /\ [Next]_vars => IInv'
  BY EngineTypeStep, ReaderTypeStep, WriterTypeStep, BufferTypeStep, StaticTypeStep, ImageTypeStep,
     TokensStep, LifecycleStep DEF IInv, TypeOK
<1> QED
  BY <1>1, <1>2, PTL DEF Spec

\* Every variable keeps its type.
THEOREM TypeCorrect == Spec => []TypeOK
<1>1. IInv => TypeOK
  BY DEF IInv
<1> QED
  BY <1>1, Invariance, PTL

\* usb_read never fills the half of the cache that emmc_write is reading.
THEOREM CacheRaceFree == Spec => []NoCacheRace
<1>1. IInv => NoCacheRace
  BY DEF IInv, TypeOK, WriterType, Tokens, OneToken, ReaderWorks, WriterWorks, ReaderHas, WriterHas,
         NoCacheRace
<1> QED
  BY <1>1, Invariance, PTL

\* The writer never uses the engine context after download_data has returned.
THEOREM ContextOutlivesWriter == Spec => []NoUseAfterReturn
<1>1. IInv => NoUseAfterReturn
  BY DEF IInv, Lifecycle, NoUseAfterReturn
<1> QED
  BY <1>1, Invariance, PTL

(***************************************************************************)
(* That the engine keeps what download_data promises its caller, for       *)
(* images of any number of pages and any number of downloads, unless the   *)
(* write of a bulk image fails, of which write_data does not tell.         *)
(*                                                                         *)
(* The refinement needs the order in which pages travel: which page is in  *)
(* which half of the cache, how far the writer is behind the reader, and   *)
(* which page has its tail in a padding.  stop_engine forges events, so    *)
(* this is known only as long as the writer works; when it has stopped,    *)
(* what it stored stays, and is everything unless a status tells of a      *)
(* failure.                                                                *)
(***************************************************************************)

\* No write of a bulk image fails: write_data would not tell of it.
Faultless == "bulk" \notin FaultyKinds

\* The partition after the first n pages but the one whose tail waits in a padding.
StoredUpTo(n, carried) == [j \in 1 .. MaxPages |-> IF j <= n /\ j # carried THEN j ELSE 0]

\* The half of the cache the writer takes next, or has.
NextCache == IF wpc = "release" THEN Other(flipR) ELSE flipR

\* The pages the reader has handed over.
Published == IF rpc \in {"check", "publish"} THEN bytesRead - 1 ELSE bytesRead

HasPage(i, n) == length[i] /\ content[i] = n /\ n <= pages

\* What the writer has done when d pages are behind it.
Behind(d) ==
    /\ statusStorage
    /\ firstRun => d = 0
    /\ padding[NextCache] \in {0, d}
    /\ padding[NextCache] # 0 => d < pages
    /\ kind = "bulk" => \A i \in Caches : padding[i] = 0
    /\ stored = StoredUpTo(d, padding[NextCache])
    /\ kind = "bulk" => BulkOffset = d
    /\ wpc = "write" => IF length[flipR] THEN HasPage(flipR, d + 1) ELSE d = pages

\* What waits for it while the reader works ...
Ahead(d) ==
    /\ statusUsb /\ bytesRead <= pages
    /\ Published \in {d, d + 1, d + 2}
    /\ Published = d =>
         /\ NextCache = flipW /\ wpc # "write"
         /\ \A i \in Caches : ~contentAvailable[i]
    /\ Published = d + 1 =>
         /\ NextCache = Other(flipW) /\ HasPage(NextCache, d + 1)
         /\ ~contentAvailable[flipW]
         /\ wpc = "write" \/ contentAvailable[NextCache]
    /\ Published = d + 2 =>
         /\ NextCache = flipW /\ HasPage(flipW, d + 1) /\ HasPage(Other(flipW), d + 2)
         /\ contentAvailable[Other(flipW)]
         /\ wpc = "write" \/ contentAvailable[flipW]
    /\ rpc \in {"check", "publish"} => bytesRead > 0 /\ HasPage(flipW, bytesRead)
    /\ rpc = "last" => bytesRead = pages /\ ~length[flipW]

\* ... and when the reader has sent the zero-length package.
Closing(d) ==
    /\ ~length[flipW]
    /\ \/ d = pages /\ NextCache = flipW
       \/ d + 1 = pages /\ NextCache = Other(flipW) /\ HasPage(NextCache, pages)

\* What the writer has to go on with after d pages.
Course(d) ==
    /\ Behind(d)
    /\ ReaderWorks => Ahead(d)
    /\ ~ReaderWorks /\ statusUsb => Closing(d)

Flow == WriterWorks => \E d \in 0 .. pages : Course(d)

\* What is stored is the beginning of the image, whatever has failed.
Prefix == \E w \in 0 .. pages : stored = StoredUpTo(w, 0)

\* A new engine; the end of a writer nothing has gone wrong for; the answer.
Ends ==
    /\ rpc = "create" =>
         /\ firstRun /\ bytesRead = 0 /\ flipR = 0 /\ flipW = 0 /\ padding = Both(0)
         /\ statusUsb /\ statusStorage /\ stored = StoredUpTo(0, 0)
    /\ rpc \notin {"idle", "create"} /\ ~WriterWorks /\ statusUsb /\ statusStorage =>
         stored = StoredUpTo(pages, 0)
    /\ rpc # "idle" => result = "none"
    /\ result = "ok" => stored = StoredUpTo(pages, 0)
    /\ bulkStatus

OrderInv == IInv /\ Flow /\ Prefix /\ Ends

---------------------------------------------------------------------------

LEMMA IInvStep == IInv /\ [Next]_vars => IInv'
  BY EngineTypeStep, ReaderTypeStep, WriterTypeStep, BufferTypeStep, StaticTypeStep, ImageTypeStep,
     TokensStep, LifecycleStep DEF IInv, TypeOK

\* The types and tokens the steps below use.
Ground ==
    /\ cacheAvailable \in [Caches -> BOOLEAN] /\ contentAvailable \in [Caches -> BOOLEAN]
    /\ flipW \in Caches /\ flipR \in Caches
    /\ bytesRead \in Nat /\ pages \in Nat
    /\ length \in [Caches -> BOOLEAN]
    /\ content \in [Caches -> Nat] /\ padding \in [Caches -> Nat]
    /\ rpc \in {"idle", "create", "wait", "read", "check", "publish", "last", "stop", "joinR", "joinW"}
    /\ wpc \in {"wait", "write", "release", "stop", "exit"}

LEMMA GroundHolds == IInv => Ground
  BY DownloadAssumption DEF IInv, TypeOK, EngineType, ReaderType, WriterType, BufferType, ImageType, Ground, Caches

\* No step of the reader disturbs what the writer has done.
LEMMA BehindReader ==
  ASSUME IInv, WriterWorks, NEW d \in 0 .. pages, Behind(d),
         ReaderWait \/ UsbRead \/ UsbError \/ ReaderCheck \/ ReaderPublish \/ ReaderStop \/ ReaderJoinR
  PROVE  Behind(d)'
<1> USE GroundHolds DEF Ground, Behind, NextCache, BulkOffset, HasPage, WriterWorks, Caches, Other,
        vars, engineVars, readerVars, writerVars, bufferVars, staticVars, imageVars
<1>1. CASE ReaderWait
  <2>1. wpc = "write" => flipR # flipW
    BY <1>1 DEF ReaderWait, IInv, Tokens, ReaderWorks, OneToken, WriterHas
  <2> QED
    BY <1>1, <2>1 DEF ReaderWait
<1>2. CASE UsbRead
  <2>1. wpc = "write" => flipR # flipW
    BY <1>2 DEF UsbRead, IInv, Tokens, ReaderWorks, OneToken, WriterHas, ReaderHas
  <2> QED
    BY <1>2, <2>1 DEF UsbRead
<1>3. CASE UsbError
  BY <1>3 DEF UsbError
<1>4. CASE ReaderCheck
  BY <1>4 DEF ReaderCheck
<1>5. CASE ReaderPublish
  BY <1>5 DEF ReaderPublish
<1>6. CASE ReaderStop
  BY <1>6 DEF ReaderStop
<1>7. CASE ReaderJoinR
  BY <1>7 DEF ReaderJoinR
<1> QED
  BY <1>1, <1>2, <1>3, <1>4, <1>5, <1>6, <1>7

\* The reader has a half of the cache only when the writer is at most one page behind.
LEMMA ReaderNear ==
  ASSUME IInv, WriterWorks, NEW d \in 0 .. pages, Behind(d), Ahead(d),
         (cacheAvailable[flipW] /\ rpc = "wait") \/ rpc \in {"read", "check", "publish", "last"}
  PROVE  Published \in {d, d + 1}
<1> SUFFICES ASSUME Published = d + 2 PROVE FALSE
  BY DEF Ahead
<1>1. NextCache = flipW /\ (wpc = "write" \/ contentAvailable[flipW])
  BY GroundHolds DEF Ahead, Ground
<1>2. wpc = "write" => flipR = flipW
  BY <1>1 DEF NextCache
<1>3. OneToken(flipW)
  BY GroundHolds DEF Ground, IInv, Tokens, ReaderWorks
<1>4. ReaderHas(flipW) \/ cacheAvailable[flipW]
  BY DEF ReaderHas
<1> QED
  BY <1>1, <1>2, <1>3, <1>4 DEF OneToken, WriterHas

\* The reader keeps the order.
LEMMA CourseReader ==
  ASSUME IInv, WriterWorks, NEW d \in 0 .. pages, Course(d),
         ReaderWait \/ UsbRead \/ UsbError \/ ReaderCheck \/ ReaderPublish \/ ReaderStop \/ ReaderJoinR
  PROVE  Course(d)'
<1>1. Behind(d)'
  BY BehindReader DEF Course
<1>2. WriterWorks' /\ NextCache' = NextCache /\ pages' = pages /\ Behind(d) /\ statusStorage
  BY DEF Course, Behind, ReaderWait, UsbRead, UsbError, ReaderCheck, ReaderPublish, ReaderStop, ReaderJoinR,
         WriterWorks, NextCache, writerVars, imageVars
<1> USE GroundHolds DEF Ground, Course, Ahead, Closing, Published, HasPage, WriterWorks, ReaderWorks, Caches, Other,
        vars, engineVars, readerVars, writerVars, bufferVars, staticVars, imageVars
<1>3. CASE ReaderWait
  <2>1. Published \in {d, d + 1}
    BY <1>2, <1>3, ReaderNear DEF ReaderWait
  <2> QED
    BY <1>1, <1>2, <1>3, <2>1 DEF ReaderWait
<1>4. CASE UsbRead
  <2>1. Published \in {d, d + 1}
    BY <1>2, <1>4, ReaderNear DEF UsbRead
  <2>2. bytesRead < pages
    BY <1>4 DEF UsbRead, IInv, Lifecycle
  <2> QED
    BY <1>1, <1>2, <1>4, <2>1, <2>2 DEF UsbRead
<1>5. CASE UsbError
  BY <1>1, <1>5 DEF UsbError
<1>6. CASE ReaderCheck
  BY <1>1, <1>2, <1>6 DEF ReaderCheck
<1>7. CASE ReaderPublish
  <2>1. Published \in {d, d + 1}
    BY <1>2, <1>7, ReaderNear DEF ReaderPublish
  <2>2. CASE rpc = "publish"
    BY <1>1, <1>2, <1>7, <2>1, <2>2 DEF ReaderPublish
  <2>3. CASE rpc = "last"
    BY <1>1, <1>2, <1>7, <2>1, <2>3 DEF ReaderPublish
  <2> QED
    BY <1>7, <2>2, <2>3 DEF ReaderPublish
<1>8. CASE ReaderStop
  BY <1>1, <1>2, <1>8 DEF ReaderStop
<1>9. CASE ReaderJoinR
  BY <1>1, <1>2, <1>9 DEF ReaderJoinR
<1> QED
  BY <1>3, <1>4, <1>5, <1>6, <1>7, <1>8, <1>9

---------------------------------------------------------------------------

\* A page that is written is the one that follows, with the tail that waits for it.
LEMMA SparsePage ==
  ASSUME IInv, NEW d \in 0 .. pages, Behind(d), NEW carry \in BOOLEAN, WriteSparse(TRUE, carry), length[flipR]
  PROVE  /\ d < pages /\ padding[flipR] \in {0, d}
         /\ stored' = StoredUpTo(d + 1, IF carry THEN d + 1 ELSE 0)
         /\ padding'[Other(flipR)] = IF carry THEN d + 1 ELSE 0
         /\ carry => d + 1 < pages
<1> USE GroundHolds DEF Ground, Caches, Other, WriteSparse, Carried, WriteDataReturns
<1>1. wpc = "write" /\ NextCache = flipR /\ content[flipR] = d + 1 /\ d + 1 <= pages
  BY DEF Behind, NextCache, HasPage
<1>2. padding[flipR] \in {0, d} /\ stored = StoredUpTo(d, padding[flipR])
  BY <1>1 DEF Behind
<1>3. stored' = [j \in 1 .. MaxPages |-> IF j = padding[flipR] \/ (j = d + 1 /\ ~carry) THEN j ELSE stored[j]]
  BY <1>1
<1>4. \A j \in 1 .. MaxPages : stored[j] = IF j <= d /\ j # padding[flipR] THEN j ELSE 0
  BY <1>2 DEF StoredUpTo
<1>5. stored' = StoredUpTo(d + 1, IF carry THEN d + 1 ELSE 0)
  <2>1. ASSUME NEW j \in 1 .. MaxPages
        PROVE  (IF j = padding[flipR] \/ (j = d + 1 /\ ~carry) THEN j ELSE stored[j])
                 = IF j <= d + 1 /\ j # (IF carry THEN d + 1 ELSE 0) THEN j ELSE 0
    BY <1>1, <1>2, <1>4, DownloadAssumption
  <2> QED
    BY <1>3, <2>1 DEF StoredUpTo
<1>6. padding'[Other(flipR)] = IF carry THEN d + 1 ELSE 0
  BY <1>1
<1>7. carry => d + 1 < pages
  BY <1>1
<1>8. d < pages
  BY <1>1
<1> QED
  BY <1>2, <1>5, <1>6, <1>7, <1>8, Zenon

\* The same of a bulk image, as long as its writes succeed.
LEMMA BulkPage ==
  ASSUME IInv, NEW d \in 0 .. pages, Behind(d), bulkStatus, WriteBulk(TRUE), length[flipR]
  PROVE  /\ d < pages /\ stored = StoredUpTo(d, 0) /\ stored' = StoredUpTo(d + 1, 0)
         /\ offset' = d + 1 /\ bulkStatus' /\ \A i \in Caches : i = flipR => padding[i] = 0
<1> USE GroundHolds DEF Ground, Caches, Other, WriteBulk, WriteDataReturns
<1>1. wpc = "write" /\ NextCache = flipR /\ content[flipR] = d + 1 /\ d + 1 <= pages /\ BulkOffset = d
  BY DEF Behind, NextCache, HasPage
<1>2. padding[flipR] = 0 /\ stored = StoredUpTo(d, 0)
  BY <1>1 DEF Behind
<1>3. stored' = [stored EXCEPT ![d + 1] = d + 1] /\ offset' = d + 1 /\ bulkStatus'
  BY <1>1
<1>4. stored' = StoredUpTo(d + 1, 0)
  <2>1. d + 1 \in 1 .. MaxPages
    BY <1>1, DownloadAssumption DEF IInv, TypeOK, ImageType
  <2>2. \A j \in 1 .. MaxPages : stored'[j] = IF j = d + 1 THEN j ELSE IF j <= d /\ j # 0 THEN j ELSE 0
    BY <1>2, <1>3, <2>1 DEF StoredUpTo
  <2>3. stored' \in [1 .. MaxPages -> Nat] /\ DOMAIN stored' = 1 .. MaxPages
    BY <1>2, <1>3, <2>1, DownloadAssumption DEF StoredUpTo
  <2>4. \A j \in 1 .. MaxPages : stored'[j] = IF j <= d + 1 /\ j # 0 THEN j ELSE 0
    BY <2>2, DownloadAssumption
  <2> QED
    BY <2>3, <2>4 DEF StoredUpTo
<1> QED
  BY <1>1, <1>2, <1>3, <1>4

\* The writer goes on to the page that follows.
LEMMA CourseWriter ==
  ASSUME IInv, WriterWorks', NEW d \in 0 .. pages, Course(d), WriterWait \/ WriterRelease
  PROVE  Course(d)'
<1> USE GroundHolds DEF Ground, Course, Behind, Ahead, Closing, Published, HasPage, WriterWorks, ReaderWorks,
        NextCache, BulkOffset, Caches, Other,
        vars, engineVars, readerVars, writerVars, bufferVars, staticVars, imageVars
<1>1. CASE WriterWait
  <2>1. statusUsb /\ wpc = "wait" /\ wpc' = "write"
    BY <1>1 DEF WriterWait
  <2>2. CASE ReaderWorks
    BY <1>1, <2>1, <2>2 DEF WriterWait
  <2>3. CASE ~ReaderWorks
    BY <1>1, <2>1, <2>3 DEF WriterWait
  <2> QED
    BY <2>2, <2>3
<1>2. CASE WriterRelease
  BY <1>2 DEF WriterRelease
<1> QED
  BY <1>1, <1>2

\* After a page the writer is one page further, or it stops.
LEMMA CourseSparse ==
  ASSUME IInv, NEW d \in 0 .. pages, Course(d), NEW ok \in BOOLEAN, NEW carry \in BOOLEAN, WriteSparse(ok, carry),
         WriterWorks'
  PROVE  d + 1 \in 0 .. pages /\ Course(d + 1)'
<1>1. /\ wpc = "write" /\ wpc' = "release" /\ length[flipR] /\ ok /\ statusStorage' /\ kind = "sparse" /\ ~firstRun'
      /\ UNCHANGED <<wstop, flipR, engineVars, readerVars, content, length, kind, pages, fits, result, downloads>>
  BY DEF WriteSparse, WriteDataReturns, WriterWorks
<1>2. WriteSparse(TRUE, carry)
  <2>1. ok = TRUE
    BY <1>1
  <2> QED
    BY <2>1
<1>3. /\ d < pages
      /\ stored' = StoredUpTo(d + 1, IF carry THEN d + 1 ELSE 0)
      /\ padding'[Other(flipR)] = IF carry THEN d + 1 ELSE 0
      /\ carry => d + 1 < pages
  BY <1>1, <1>2, SparsePage DEF Course
<1>4. NextCache = flipR /\ NextCache' = Other(flipR)
  BY <1>1 DEF NextCache
<1>10. ReaderWorks => ~contentAvailable[flipR]
  BY <1>1, GroundHolds DEF Ground, IInv, Tokens, OneToken, WriterWorks, WriterHas
<1>5. Behind(d + 1)'
  BY <1>1, <1>3, <1>4, GroundHolds DEF Behind, Ground
<1>6. ReaderWorks => Ahead(d + 1)'
  BY <1>1, <1>3, <1>4, <1>10, GroundHolds DEF Course, Ahead, Ground, ReaderWorks, Published, HasPage, Caches, Other, engineVars, readerVars
<1>7. ~ReaderWorks /\ statusUsb => Closing(d + 1)'
  BY <1>1, <1>3, <1>4, GroundHolds DEF Course, Closing, Ground, HasPage, Caches, Other, engineVars, readerVars
<1>8. ReaderWorks' = ReaderWorks /\ statusUsb' = statusUsb
  BY <1>1 DEF ReaderWorks, readerVars
<1> QED
  BY <1>3, <1>5, <1>6, <1>7, <1>8, GroundHolds DEF Course, Ground

LEMMA CourseBulk ==
  ASSUME IInv, bulkStatus, NEW d \in 0 .. pages, Course(d), "bulk" \notin FaultyKinds, NEW ok \in BOOLEAN, WriteBulk(ok),
         WriterWorks'
  PROVE  d + 1 \in 0 .. pages /\ Course(d + 1)'
<1>1. /\ wpc = "write" /\ wpc' = "release" /\ length[flipR] /\ ok /\ statusStorage' /\ kind = "bulk" /\ ~firstRun'
      /\ UNCHANGED <<wstop, flipR, engineVars, readerVars, content, length, kind, pages, fits, result, downloads, padding>>
  BY DEF WriteBulk, WriteDataReturns, WriterWorks
<1>2. WriteBulk(TRUE)
  <2>1. ok = TRUE
    BY <1>1
  <2> QED
    BY <2>1
<1>3. d < pages /\ stored' = StoredUpTo(d + 1, 0) /\ offset' = d + 1
  BY <1>1, <1>2, BulkPage DEF Course
<1>4. NextCache = flipR /\ NextCache' = Other(flipR)
  BY <1>1 DEF NextCache
<1>10. ReaderWorks => ~contentAvailable[flipR]
  BY <1>1, GroundHolds DEF Ground, IInv, Tokens, OneToken, WriterWorks, WriterHas
<1>5. \A i \in Caches : padding'[i] = 0
  BY <1>1 DEF Course, Behind
<1>11. padding'[Other(flipR)] = 0
  BY <1>5, GroundHolds DEF Ground, Caches, Other
<1>6. Behind(d + 1)'
  BY <1>1, <1>3, <1>4, <1>5, <1>11, GroundHolds DEF Behind, Ground, BulkOffset
<1>7. ReaderWorks => Ahead(d + 1)'
  BY <1>1, <1>3, <1>4, <1>10, GroundHolds DEF Course, Ahead, Ground, ReaderWorks, Published, HasPage, Caches, Other, engineVars, readerVars
<1>8. ~ReaderWorks /\ statusUsb => Closing(d + 1)'
  BY <1>1, <1>3, <1>4, GroundHolds DEF Course, Closing, Ground, HasPage, Caches, Other, engineVars, readerVars
<1>9. ReaderWorks' = ReaderWorks /\ statusUsb' = statusUsb
  BY <1>1 DEF ReaderWorks, readerVars
<1> QED
  BY <1>3, <1>6, <1>7, <1>8, <1>9, GroundHolds DEF Course, Ground

---------------------------------------------------------------------------

LEMMA OrderInit == Init => OrderInv
<1> SUFFICES ASSUME Init PROVE OrderInv
  OBVIOUS
<1>1. IInv
  BY InitIInv
<1>2. Flow /\ Ends
  BY DEF Init, Flow, Ends, WriterWorks
<1>3. stored = StoredUpTo(0, 0) /\ 0 \in 0 .. pages
  BY DownloadAssumption DEF Init, StoredUpTo
<1> QED
  BY <1>1, <1>2, <1>3 DEF OrderInv, Prefix

\* The writer's course goes on with every step.
LEMMA FlowStep == ASSUME Faultless, OrderInv, [Next]_vars PROVE Flow'
<1> SUFFICES ASSUME WriterWorks' PROVE \E d \in 0 .. pages' : Course(d)'
  BY DEF Flow
<1> USE DEF vars, engineVars, readerVars, writerVars, bufferVars, staticVars, imageVars
<1>1. ASSUME NEW k \in Kinds, NEW n \in 0 .. MaxPages, NEW f \in BOOLEAN, Begin(k, n, f)
      PROVE FALSE
  BY <1>1 DEF Begin, OrderInv, IInv, Lifecycle, WriterWorks
<1>2. CASE CreateWriter
  <2>1. /\ firstRun /\ bytesRead = 0 /\ flipR = 0 /\ flipW = 0 /\ padding = Both(0)
        /\ statusUsb /\ statusStorage /\ stored = StoredUpTo(0, 0) /\ contentAvailable = Both(FALSE)
    BY <1>2 DEF CreateWriter, OrderInv, Ends, IInv, Lifecycle
  <2>2. Ground /\ 0 \in 0 .. pages'
    BY <1>2, GroundHolds DEF CreateWriter, OrderInv, Ground
  <2>3. Behind(0)'
    BY <1>2, <2>1 DEF CreateWriter, Behind, NextCache, BulkOffset, Both, Caches, Other
  <2>4. Ahead(0)'
    BY <1>2, <2>1, <2>2 DEF CreateWriter, Ground, Ahead, NextCache, Published, Both, Caches
  <2>5. ReaderWorks'
    BY <1>2 DEF CreateWriter, ReaderWorks
  <2> QED
    BY <2>2, <2>3, <2>4, <2>5 DEF Course
<1>3. CASE CreateFails \/ Return
  BY <1>3 DEF CreateFails, Return, OrderInv, IInv, Lifecycle, WriterWorks
<1>4. CASE ReaderWait \/ UsbRead \/ UsbError \/ ReaderCheck \/ ReaderPublish \/ ReaderStop \/ ReaderJoinR
  <2>1. WriterWorks /\ pages' = pages
    BY <1>4 DEF ReaderWait, UsbRead, UsbError, ReaderCheck, ReaderPublish, ReaderStop, ReaderJoinR, WriterWorks
  <2>2. PICK d \in 0 .. pages : Course(d)
    BY <2>1 DEF OrderInv, Flow
  <2> QED
    BY <1>4, <2>1, <2>2, CourseReader DEF OrderInv
<1>5. CASE WriterWait \/ WriterRelease
  <2>1. WriterWorks /\ pages' = pages
    BY <1>5 DEF WriterWait, WriterRelease, WriterWorks
  <2>2. PICK d \in 0 .. pages : Course(d)
    BY <2>1 DEF OrderInv, Flow
  <2> QED
    BY <1>5, <2>1, <2>2, CourseWriter DEF OrderInv
<1>6. CASE WriteTooLarge \/ WriterStop
  BY <1>6 DEF WriteTooLarge, WriterStop, WriteDataReturns, WriterWorks
<1>7. ASSUME NEW ok \in BOOLEAN, NEW carry \in BOOLEAN, WriteSparse(ok, carry)
      PROVE  \E d \in 0 .. pages' : Course(d)'
  <2>1. WriterWorks /\ pages' = pages
    BY <1>7 DEF WriteSparse, WriteDataReturns, WriterWorks
  <2>2. PICK d \in 0 .. pages : Course(d)
    BY <2>1 DEF OrderInv, Flow
  <2> QED
    BY <1>7, <2>1, <2>2, CourseSparse DEF OrderInv
<1>8. ASSUME NEW ok \in BOOLEAN, WriteBulk(ok)
      PROVE  \E d \in 0 .. pages' : Course(d)'
  <2>1. WriterWorks /\ pages' = pages
    BY <1>8 DEF WriteBulk, WriteDataReturns, WriterWorks
  <2>2. PICK d \in 0 .. pages : Course(d)
    BY <2>1 DEF OrderInv, Flow
  <2> QED
    BY <1>8, <2>1, <2>2, CourseBulk DEF OrderInv, Ends, Faultless
<1>9. CASE UNCHANGED vars
  <2>1. WriterWorks /\ pages' = pages
    BY <1>9 DEF WriterWorks
  <2>2. PICK d \in 0 .. pages : Course(d)
    BY <2>1 DEF OrderInv, Flow
  <2>3. Course(d)'
    BY <1>9, <2>2 DEF Course, Behind, Ahead, Closing, ReaderWorks, NextCache, Published, BulkOffset, HasPage
  <2> QED
    BY <2>1, <2>3
<1> QED
  BY <1>1, <1>2, <1>3, <1>4, <1>5, <1>6, <1>7, <1>8, <1>9 DEF Next, Reader, Writer

LEMMA Carrying ==
  ASSUME NEW n \in Nat
  PROVE  StoredUpTo(n + 1, n + 1) = StoredUpTo(n, 0) /\ (n > 0 => StoredUpTo(n, n) = StoredUpTo(n - 1, 0))
  BY DownloadAssumption DEF StoredUpTo

\* What one write of the writer adds: the tail of one page, a page, both or nothing.
Adds(m, n) ==
    /\ m \in 0 .. pages /\ n \in 0 .. pages /\ m <= n /\ n <= m + 2
    /\ stored = StoredUpTo(m, 0) /\ stored' = StoredUpTo(n, 0)

LEMMA SparseAdds ==
  ASSUME OrderInv, NEW ok \in BOOLEAN, NEW carry \in BOOLEAN, WriteSparse(ok, carry)
  PROVE  \E m, n \in Nat : Adds(m, n)
<1>1. PICK d \in 0 .. pages : Course(d)
  BY DEF WriteSparse, OrderInv, Flow, WriterWorks
<1>2. CASE ok /\ length[flipR]
  <2>1. WriteSparse(TRUE, carry)
    <3>1. ok = TRUE
      BY <1>2
    <3> QED
      BY <3>1
  <2>2. /\ d < pages /\ padding[flipR] \in {0, d}
        /\ stored' = StoredUpTo(d + 1, IF carry THEN d + 1 ELSE 0)
    BY <1>1, <1>2, <2>1, SparsePage DEF OrderInv, Course
  <2>3. stored = StoredUpTo(d, padding[flipR])
    BY <1>1 DEF WriteSparse, Course, Behind, NextCache
  <2>4. pages \in Nat /\ d \in Nat
    BY GroundHolds DEF OrderInv, Ground
  <2> DEFINE m == IF padding[flipR] = 0 THEN d ELSE d - 1
             n == IF carry THEN d ELSE d + 1
  <2>5. stored = StoredUpTo(m, 0) /\ m \in 0 .. pages
    BY <2>2, <2>3, <2>4, Carrying
  <2>6. stored' = StoredUpTo(n, 0) /\ n \in 0 .. pages
    BY <2>2, <2>4, Carrying
  <2>7. m <= n /\ n <= m + 2 /\ m \in Nat /\ n \in Nat
    BY <2>2, <2>4
  <2> QED
    BY <2>5, <2>6, <2>7 DEF Adds
<1>3. CASE ~(ok /\ length[flipR])
  <2>1. stored' = stored
    BY <1>3, DownloadAssumption DEF WriteSparse, OrderInv, IInv, TypeOK, ImageType
  <2>2. PICK w \in 0 .. pages : stored = StoredUpTo(w, 0)
    BY DEF OrderInv, Prefix
  <2>3. pages \in Nat
    BY GroundHolds DEF OrderInv, Ground
  <2> QED
    BY <2>1, <2>2, <2>3 DEF Adds
<1> QED
  BY <1>2, <1>3

LEMMA BulkAdds ==
  ASSUME Faultless, OrderInv, NEW ok \in BOOLEAN, WriteBulk(ok)
  PROVE  bulkStatus' /\ \E m, n \in Nat : Adds(m, n)
<1>1. PICK d \in 0 .. pages : Course(d)
  BY DEF WriteBulk, OrderInv, Flow, WriterWorks
<1>2. ok = TRUE /\ bulkStatus'
  BY DEF WriteBulk, Faultless, OrderInv, Ends
<1>3. CASE length[flipR]
  <2>1. d < pages /\ stored = StoredUpTo(d, 0) /\ stored' = StoredUpTo(d + 1, 0)
    BY <1>1, <1>2, <1>3, BulkPage DEF OrderInv, Ends, Course
  <2>2. pages \in Nat /\ d \in Nat
    BY GroundHolds DEF OrderInv, Ground
  <2>3. Adds(d, d + 1)
    BY <2>1, <2>2 DEF Adds
  <2> QED
    BY <1>2, <2>2, <2>3
<1>4. CASE ~length[flipR]
  <2>1. stored' = stored
    BY <1>4 DEF WriteBulk
  <2>2. PICK w \in 0 .. pages : stored = StoredUpTo(w, 0)
    BY DEF OrderInv, Prefix
  <2>3. pages \in Nat
    BY GroundHolds DEF OrderInv, Ground
  <2>4. Adds(w, w)
    BY <2>1, <2>2, <2>3 DEF Adds
  <2> QED
    BY <1>2, <2>2, <2>3, <2>4
<1> QED
  BY <1>3, <1>4

\* The steps that write nothing.
LEMMA QuietSteps ==
  ASSUME CreateWriter \/ CreateFails \/ ReaderWait \/ UsbRead \/ UsbError \/ ReaderCheck \/ ReaderPublish
         \/ ReaderStop \/ ReaderJoinR \/ Return \/ WriterWait \/ WriteTooLarge \/ WriterRelease \/ WriterStop
         \/ UNCHANGED vars
  PROVE  stored' = stored /\ pages' = pages /\ bulkStatus' = bulkStatus
  BY DEF CreateWriter, CreateFails, ReaderWait, UsbRead, UsbError, ReaderCheck, ReaderPublish, ReaderStop,
         ReaderJoinR, Return, WriterWait, WriteTooLarge, WriteDataReturns, WriterRelease, WriterStop,
         vars, imageVars, staticVars

LEMMA PrefixStep == ASSUME Faultless, OrderInv, [Next]_vars PROVE Prefix'
<1>1. ASSUME NEW k \in Kinds, NEW n \in 0 .. MaxPages, NEW f \in BOOLEAN, Begin(k, n, f)
      PROVE  Prefix'
  <2>1. stored' = StoredUpTo(0, 0) /\ pages' \in Nat
    BY <1>1, DownloadAssumption DEF Begin, StoredUpTo
  <2> QED
    BY <2>1 DEF Prefix, StoredUpTo
<1>2. ASSUME NEW ok \in BOOLEAN, NEW carry \in BOOLEAN, WriteSparse(ok, carry)
      PROVE  Prefix'
  <2>1. pages' = pages
    BY <1>2 DEF WriteSparse, WriteDataReturns
  <2> QED
    BY <1>2, <2>1, SparseAdds DEF Prefix, Adds, StoredUpTo
<1>3. ASSUME NEW ok \in BOOLEAN, WriteBulk(ok)
      PROVE  Prefix'
  <2>1. pages' = pages
    BY <1>3 DEF WriteBulk, WriteDataReturns
  <2> QED
    BY <1>3, <2>1, BulkAdds DEF Prefix, Adds, StoredUpTo
<1>4. ASSUME stored' = stored, pages' = pages PROVE Prefix'
  BY <1>4 DEF OrderInv, Prefix, StoredUpTo
<1> QED
  BY <1>1, <1>2, <1>3, <1>4, QuietSteps DEF Next, Reader, Writer

\* When nothing has gone wrong the writer ends behind the last page.
LEMMA LastPage ==
  ASSUME OrderInv, wpc = "write", ~length[flipR]
  PROVE  stored = StoredUpTo(pages, 0)
<1>1. PICK d \in 0 .. pages : Course(d)
  BY DEF OrderInv, Flow, WriterWorks
<1>2. d = pages /\ NextCache = flipR
  BY <1>1 DEF Course, Behind, NextCache
<1>3. padding[flipR] = 0 /\ stored = StoredUpTo(d, padding[flipR])
  <2>1. pages \in Nat
    BY GroundHolds DEF OrderInv, Ground
  <2> QED
    BY <1>1, <1>2, <2>1 DEF Course, Behind
<1> QED
  BY <1>2, <1>3

\* Whatever ends the writer without a bad status ends it behind the last page, and the
\* reader answers "ok" only then.
LEMMA EndsStep == ASSUME Faultless, OrderInv, [Next]_vars PROVE Ends'
<1> USE DEF vars, engineVars, readerVars, writerVars, bufferVars, staticVars, imageVars
<1>1. ASSUME NEW k \in Kinds, NEW n \in 0 .. MaxPages, NEW f \in BOOLEAN, Begin(k, n, f)
      PROVE  Ends'
  <2>1. stored' = StoredUpTo(0, 0)
    BY <1>1, DownloadAssumption DEF Begin, StoredUpTo
  <2> QED
    BY <1>1, <2>1 DEF Begin, OrderInv, Ends, Both, StoredUpTo
<1>2. CASE CreateWriter
  BY <1>2 DEF CreateWriter, OrderInv, Ends, WriterWorks, StoredUpTo
<1>3. CASE CreateFails
  BY <1>3 DEF CreateFails, OrderInv, Ends, StoredUpTo
<1>4. CASE ReaderWait \/ UsbRead \/ UsbError \/ ReaderCheck \/ ReaderPublish \/ ReaderStop \/ ReaderJoinR
  <2>1. /\ rpc \notin {"idle", "create"} /\ rpc' \notin {"idle", "create"}
        /\ wpc' = wpc /\ stored' = stored /\ pages' = pages /\ result' = result
        /\ statusStorage' = statusStorage /\ bulkStatus' = bulkStatus /\ (statusUsb' => statusUsb)
    BY <1>4 DEF ReaderWait, UsbRead, UsbError, ReaderCheck, ReaderPublish, ReaderStop, ReaderJoinR
  <2> QED
    BY <2>1 DEF OrderInv, Ends, WriterWorks, StoredUpTo
<1>5. CASE Return
  BY <1>5 DEF Return, Outcome, OrderInv, IInv, Lifecycle, Ends, WriterWorks, StoredUpTo
<1>6. CASE WriterWait \/ WriterRelease \/ WriterStop
  <2>1. /\ rpc \notin {"idle", "create"} /\ rpc' = rpc /\ wpc # "exit"
        /\ stored' = stored /\ pages' = pages /\ result' = result
        /\ statusStorage' = statusStorage /\ bulkStatus' = bulkStatus /\ statusUsb' = statusUsb
    BY <1>6 DEF WriterWait, WriterRelease, WriterStop, OrderInv, IInv, Lifecycle
  <2>2. WriterWorks' \/ ~WriterWorks \/ ~statusUsb
    BY <1>6 DEF WriterWait, WriterRelease, WriterStop, WriterWorks
  <2> QED
    BY <2>1, <2>2 DEF OrderInv, Ends, StoredUpTo
<1>7. CASE WriteTooLarge
  BY <1>7 DEF WriteTooLarge, WriteDataReturns, OrderInv, IInv, Lifecycle, Ends, WriterWorks, StoredUpTo
<1>8. ASSUME NEW ok \in BOOLEAN, NEW carry \in BOOLEAN, WriteSparse(ok, carry)
      PROVE  Ends'
  <2>1. /\ rpc' = rpc /\ rpc \notin {"idle", "create"} /\ result' = result /\ pages' = pages /\ bulkStatus' = bulkStatus
        /\ result = "none" /\ bulkStatus
    BY <1>8 DEF WriteSparse, WriteDataReturns, OrderInv, IInv, Lifecycle, Ends
  <2>2. ~WriterWorks' /\ statusStorage' => stored' = StoredUpTo(pages, 0)
    <3> SUFFICES ASSUME ~WriterWorks', statusStorage' PROVE stored' = StoredUpTo(pages, 0)
      OBVIOUS
    <3>1. wpc = "write" /\ ~length[flipR]
      BY <1>8 DEF WriteSparse, WriteDataReturns, WriterWorks
    <3>2. stored' = stored
      BY <1>8, <3>1, DownloadAssumption DEF WriteSparse, OrderInv, IInv, TypeOK, ImageType
    <3> QED
      BY <3>1, <3>2, LastPage
  <2> QED
    BY <2>1, <2>2 DEF Ends, StoredUpTo
<1>9. ASSUME NEW ok \in BOOLEAN, WriteBulk(ok)
      PROVE  Ends'
  <2>1. /\ rpc' = rpc /\ rpc \notin {"idle", "create"} /\ result' = result /\ pages' = pages
        /\ result = "none"
    BY <1>9 DEF WriteBulk, WriteDataReturns, OrderInv, IInv, Lifecycle, Ends
  <2>2. ~WriterWorks' /\ statusStorage' => stored' = StoredUpTo(pages, 0)
    <3> SUFFICES ASSUME ~WriterWorks', statusStorage' PROVE stored' = StoredUpTo(pages, 0)
      OBVIOUS
    <3>1. wpc = "write" /\ ~length[flipR]
      BY <1>9 DEF WriteBulk, WriteDataReturns, WriterWorks
    <3>2. stored' = stored
      BY <1>9, <3>1 DEF WriteBulk
    <3> QED
      BY <3>1, <3>2, LastPage
  <2> QED
    BY <1>9, <2>1, <2>2, BulkAdds DEF Ends, StoredUpTo
<1>10. CASE UNCHANGED vars
  BY <1>10 DEF OrderInv, Ends, WriterWorks, StoredUpTo
<1> QED
  BY <1>1, <1>2, <1>3, <1>4, <1>5, <1>6, <1>7, <1>8, <1>9, <1>10 DEF Next, Reader, Writer

LEMMA OrderStep == ASSUME Faultless, OrderInv, [Next]_vars PROVE OrderInv'
  BY IInvStep, FlowStep, PrefixStep, EndsStep DEF OrderInv

\* Written, of any partition and length.
WrittenOf(partition, n) ==
    CHOOSE m \in 0 .. n :
        /\ \A i \in 1 .. m : partition[i] = i
        /\ m < n => partition[m + 1] # m + 1

LEMMA CountOfPrefix ==
  ASSUME NEW last \in 0 .. MaxPages, NEW n \in 0 .. last
  PROVE  WrittenOf(StoredUpTo(n, 0), last) = n
<1>1. \A j \in 1 .. MaxPages : StoredUpTo(n, 0)[j] = IF j <= n THEN j ELSE 0
  BY DownloadAssumption DEF StoredUpTo
<1> DEFINE Fits(m) == /\ \A i \in 1 .. m : StoredUpTo(n, 0)[i] = i
                      /\ m < last => StoredUpTo(n, 0)[m + 1] # m + 1
<1>2. Fits(n)
  BY <1>1, DownloadAssumption
<1>3. \A m \in 0 .. last : Fits(m) => m = n
  <2> TAKE m \in 0 .. last
  <2>1. CASE m < n
    BY <1>1, <2>1, DownloadAssumption
  <2>2. CASE m > n
    BY <1>1, <2>2, DownloadAssumption
  <2> QED
    BY <2>1, <2>2
<1> HIDE DEF Fits
<1>4. WrittenOf(StoredUpTo(n, 0), last) = CHOOSE m \in 0 .. last : Fits(m)
  BY DEF WrittenOf, Fits
<1> QED
  BY <1>2, <1>3, <1>4

---------------------------------------------------------------------------

\* The pages keep their order on the way through the double cache, and what the partition
\* holds is the beginning of the image (read_usb_proc, write_storage_proc).
THEOREM OrderInvariance == ASSUME Faultless PROVE Spec => []OrderInv
<1>1. OrderInv /\ [Next]_vars => OrderInv'
  BY OrderStep
<1> QED
  BY <1>1, OrderInit, PTL DEF Spec

\* download_data reports success only if the whole image is on the partition
\* (SuccessMeansStored; transfer_parallel.c:61).
THEOREM SuccessIsStored == ASSUME Faultless PROVE Spec => []SuccessMeansStored
<1>1. OrderInv => SuccessMeansStored
  <2> SUFFICES ASSUME OrderInv, result = "ok", NEW i \in 1 .. pages PROVE stored[i] = i
    BY DEF SuccessMeansStored
  <2>1. stored = StoredUpTo(pages, 0) /\ pages \in 0 .. MaxPages
    BY DEF OrderInv, Ends, IInv, TypeOK, ImageType
  <2> QED
    BY <2>1, DownloadAssumption DEF StoredUpTo
<1> QED
  BY <1>1, OrderInvariance, PTL

\* Every step of the engine is one of download_data's promise, or invisible.
LEMMA PromiseStep == ASSUME Faultless, OrderInv, OrderInv', [Next]_vars PROVE [Promise!Next]_Promise!vars
<1>1. pages \in 0 .. MaxPages /\ pages' \in 0 .. MaxPages
  BY DEF OrderInv, IInv, TypeOK, ImageType
<1>2. Written = WrittenOf(stored, pages) /\ Written' = WrittenOf(stored', pages')
  BY DEF Written, WrittenOf
<1>3. ASSUME NEW k \in Kinds, NEW n \in 0 .. MaxPages, NEW f \in BOOLEAN, Begin(k, n, f)
      PROVE  Promise!Begin
  <2>1. stored' = StoredUpTo(0, 0) /\ 0 \in 0 .. pages'
    BY <1>3, <1>1, DownloadAssumption DEF Begin, StoredUpTo
  <2>2. Written' = 0
    BY <1>1, <1>2, <2>1, CountOfPrefix
  <2> QED
    BY <1>3, <2>2 DEF Begin, Promise!Begin
<1>4. CASE CreateFails \/ Return
  <2>1. rpc # "idle" /\ rpc' = "idle" /\ stored' = stored /\ pages' = pages
    BY <1>4 DEF CreateFails, Return, imageVars
  <2>2. Written' = Written
    BY <1>2, <2>1
  <2>3. result' = "error" \/ (Written = pages /\ result' = "ok")
    <3> SUFFICES ASSUME result' # "error" PROVE Written = pages /\ result' = "ok"
      OBVIOUS
    <3>1. result' = "ok"
      BY <1>4 DEF CreateFails, Return, Outcome
    <3>2. stored' = StoredUpTo(pages', 0)
      BY <3>1 DEF OrderInv, Ends
    <3>3. stored = StoredUpTo(pages, 0)
      BY <2>1, <3>2
    <3> QED
      BY <1>1, <1>2, <3>1, <3>3, CountOfPrefix
  <2> QED
    BY <2>1, <2>2, <2>3 DEF Promise!Next, Promise!Return
<1>5. ASSUME NEW m \in Nat, NEW n \in Nat, Adds(m, n), wpc = "write", rpc' = rpc, pages' = pages, result' = result
      PROVE  [Promise!Next]_Promise!vars
  <2>1. Written = m /\ Written' = n
    BY <1>1, <1>2, <1>5, CountOfPrefix DEF Adds
  <2>2. rpc # "idle"
    BY <1>5 DEF OrderInv, IInv, Lifecycle
  <2>3. CASE m = n
    BY <1>5, <2>1, <2>3 DEF Promise!vars
  <2>4. CASE m # n
    BY <1>1, <1>5, <2>1, <2>2, <2>4 DEF Adds, Promise!Next, Promise!Write
  <2> QED
    BY <2>3, <2>4
<1>6. ASSUME NEW ok \in BOOLEAN, NEW carry \in BOOLEAN, WriteSparse(ok, carry)
      PROVE  [Promise!Next]_Promise!vars
  <2>1. wpc = "write" /\ rpc' = rpc /\ pages' = pages /\ result' = result
    BY <1>6 DEF WriteSparse, WriteDataReturns, readerVars
  <2> QED
    BY <1>5, <1>6, <2>1, SparseAdds
<1>7. ASSUME NEW ok \in BOOLEAN, WriteBulk(ok)
      PROVE  [Promise!Next]_Promise!vars
  <2>1. wpc = "write" /\ rpc' = rpc /\ pages' = pages /\ result' = result
    BY <1>7 DEF WriteBulk, WriteDataReturns, readerVars
  <2> QED
    BY <1>5, <1>7, <2>1, BulkAdds
<1>8. CASE \/ CreateWriter \/ ReaderWait \/ UsbRead \/ UsbError \/ ReaderCheck \/ ReaderPublish
           \/ ReaderStop \/ ReaderJoinR \/ WriterWait \/ WriteTooLarge \/ WriterRelease \/ WriterStop
           \/ UNCHANGED vars
  <2>1. stored' = stored /\ pages' = pages
    BY <1>8, QuietSteps
  <2>2. (rpc' = "idle") = (rpc = "idle") /\ result' = result
    BY <1>8 DEF CreateWriter, ReaderWait, UsbRead, UsbError, ReaderCheck, ReaderPublish, ReaderStop, ReaderJoinR,
                WriterWait, WriteTooLarge, WriteDataReturns, WriterRelease, WriterStop, vars, readerVars, imageVars
  <2>3. Written' = Written
    BY <1>2, <2>1
  <2> QED
    BY <2>1, <2>2, <2>3 DEF Promise!vars
<1> QED
  BY <1>3, <1>4, <1>6, <1>7, <1>8 DEF Next, Reader, Writer, Promise!Next

\* The engine implements what download_data promises its caller: pages arrive in order,
\* and success means all of them (transfer_parallel.c:61).
THEOREM Implements == ASSUME Faultless PROVE Spec => ImplementsDownload
<1>1. Init => Promise!Init
  <2> SUFFICES ASSUME Init PROVE Promise!Init
    OBVIOUS
  <2>1. stored = StoredUpTo(0, 0) /\ pages = 0 /\ 0 \in 0 .. MaxPages
    BY DownloadAssumption DEF Init, StoredUpTo
  <2>2. Written = WrittenOf(stored, pages)
    BY DEF Written, WrittenOf
  <2>3. Written = 0
    BY <2>1, <2>2, CountOfPrefix
  <2> QED
    BY <2>3 DEF Init, Promise!Init
<1>2. OrderInv /\ OrderInv' /\ [Next]_vars => [Promise!Next]_Promise!vars
  BY PromiseStep
<1> QED
  BY <1>1, <1>2, OrderInvariance, PTL DEF Spec, ImplementsDownload, Promise!Spec

---------------------------------------------------------------------------

\* A sparse download that failed has a fault to show.
Blame ==
    /\ rpc = "create" => firstRun
    /\ ~statusUsb => fault
    /\ kind = "sparse" =>
         /\ ~statusStorage => fault
         /\ WriterWorks /\ ~firstRun => sparseStatus \/ fault
    /\ FailureMeansFault

LEMMA BlameStep == IInv /\ Blame /\ [Next]_vars => Blame'
<1> SUFFICES ASSUME IInv, Blame, [Next]_vars PROVE Blame'
  OBVIOUS
<1> USE DEF Blame, FailureMeansFault, WriterWorks, vars, engineVars, readerVars, writerVars, bufferVars, staticVars, imageVars
<1>1. ASSUME NEW k \in Kinds, NEW n \in 0 .. MaxPages, NEW f \in BOOLEAN, Begin(k, n, f)
      PROVE  Blame'
  BY <1>1 DEF Begin, IInv, Lifecycle
<1>2. CASE CreateWriter
  BY <1>2 DEF CreateWriter, IInv, Lifecycle
<1>3. CASE CreateFails \/ Return
  BY <1>3 DEF CreateFails, Return, Outcome
<1>4. CASE ReaderWait \/ UsbRead \/ UsbError \/ ReaderCheck \/ ReaderPublish \/ ReaderStop \/ ReaderJoinR
  BY <1>4 DEF ReaderWait, UsbRead, UsbError, ReaderCheck, ReaderPublish, ReaderStop, ReaderJoinR
<1>5. CASE WriterWait \/ WriterRelease \/ WriterStop
  BY <1>5 DEF WriterWait, WriterRelease, WriterStop
<1>6. CASE WriteTooLarge
  BY <1>6 DEF WriteTooLarge, WriteDataReturns
<1>7. ASSUME NEW ok \in BOOLEAN, NEW carry \in BOOLEAN, WriteSparse(ok, carry)
      PROVE  Blame'
  BY <1>7 DEF WriteSparse, SparseStatus, WriteDataReturns, IInv, Lifecycle
<1>8. ASSUME NEW ok \in BOOLEAN, WriteBulk(ok)
      PROVE  Blame'
  BY <1>8 DEF WriteBulk, WriteDataReturns, IInv, Lifecycle
<1>9. CASE UNCHANGED vars
  BY <1>9
<1> QED
  BY <1>1, <1>2, <1>3, <1>4, <1>5, <1>6, <1>7, <1>8, <1>9 DEF Next, Reader, Writer

\* A sparse download fails only because something in it failed (FailureMeansFault;
\* transfer_parallel.c:147), for every choice of faults.
THEOREM FailureIsFault == Spec => []FailureMeansFault
<1>1. Init => Blame
  BY DEF Init, Blame, FailureMeansFault, WriterWorks
<1>2. IInv /\ Blame /\ [Next]_vars => Blame'
  BY BlameStep
<1>3. Blame => FailureMeansFault
  BY DEF Blame
<1> QED
  BY <1>1, <1>2, <1>3, Invariance, PTL DEF Spec
=============================================================================
