---------------------------- MODULE SparseStream ----------------------------
(***************************************************************************)
(* The sparse image state machine of sparse_state_machine.c, fed by        *)
(* write_data of transfer_parallel.c.  A sparse image arrives in packages, *)
(* pages cut off anywhere in its headers, fill values and raw data; what   *)
(* one call of write_sparse_data_internal does depends on the phase it     *)
(* left behind.  A chunk header split between two packages is kept in      *)
(* unhandle_buf, the tail of a package that is no storage block is moved   *)
(* into the padding before the next package.                               *)
(*                                                                         *)
(* Lengths are in units of two bytes.  The image is abstracted to its      *)
(* layout, and every byte of it to its position in the stream, from 1:     *)
(* the package, the saved part of a header and the partition hold          *)
(* positions.                                                              *)
(***************************************************************************)
EXTENDS Integers, Sequences

CONSTANTS
    Images,         \* the layouts of the images downloaded
    Page,           \* SYSOB_CACHE_PAGE: what a cache takes of the stream
    StorageBlock,   \* STORAGE_BLOCK_SIZE, also the length of the padding
    SparseHeader,   \* sizeof(sparse_header_t)
    ChunkHeader,    \* sizeof(chunk_header_t), the length of unhandle_buf
    FillCache,      \* FILLED_DATA_CACHE_SIZE
    Wrap,           \* 2^32 bytes: byte_to_process is a uint32
    Room            \* the partition's max_size

Types == {"raw", "fill", "skip", "crc", "other"}

\* sizeof(uint32), the fill value and the CRC.
Seed == 2

Even(n) == n % 2 = 0

\* The format makes every length a multiple of four bytes.  Chunk headers are as long
\* as the structure or, of the images aligned to eight bytes, four bytes longer, and no
\* page is shorter: of three pieces of a header, unhandle_buf would lose the first.
ASSUME ImagesAssumption ==
    \A img \in Images :
        /\ img.fileHeader \in Nat /\ Even(img.fileHeader) /\ img.fileHeader >= SparseHeader
        /\ img.chunkHeader \in {ChunkHeader, ChunkHeader + Seed}
        /\ img.sent \in Nat /\ Even(img.sent)
        /\ img.sent >= img.fileHeader \/ img.sent < SparseHeader
        /\ img.chunks \in Seq([type : Types, bytes : Nat])
        /\ \A i \in DOMAIN img.chunks : Even(img.chunks[i].bytes)

ASSUME SizesAssumption ==
    /\ Page \in Nat /\ Even(Page)
    /\ StorageBlock \in Nat \ {0} /\ Even(StorageBlock)
    /\ SparseHeader \in Nat \ {0} /\ Even(SparseHeader)
    /\ ChunkHeader \in Nat \ {0} /\ Even(ChunkHeader) /\ Page >= ChunkHeader + Seed
    /\ FillCache \in Nat \ {0}
    /\ Wrap \in Nat /\ Wrap > Page + StorageBlock
    /\ Room \in Nat
    /\ \A img \in Images : Page >= img.fileHeader

VARIABLES
    stage,          \* where write_storage_proc is: it has no image, waits for a package, handles one, ended
    image,          \* the image of this download
    received,       \* the units of the stream the packages brought so far
    content,        \* content_length of the cache
    padding,        \* the padding of the cache that is next
    data,           \* the package: padding and content
    buf, size,      \* status->buf (an index of the package) and byte_to_process
    phase,          \* wait_phase
    status,         \* handle_status
    unhandled,      \* unhandle_buf, unhandle_buf_size long
    remain,         \* chunk_remain_data_size
    offset,         \* image_address_offset
    processed,      \* chunks_processed
    partition       \* address -> the position of the byte there, Old if not written

packageVars == <<image, received, content, padding, data>>
unsparseVars == <<unhandled, remain, offset, processed>>
streamVars == <<stage, packageVars, buf, size, phase, status, unsparseVars, partition>>

Old == 0
Beyond == -1

StreamInit ==
    /\ stage = "idle"
    /\ image \in Images
    /\ received = 0 /\ content = 0
    /\ padding = <<>> /\ data = <<>>
    /\ buf = 0 /\ size = 0
    /\ phase = "SPARSE_HEADER"
    /\ status = "OK"
    \* The state machine is static: it is as an earlier download left it, or new.
    /\ \/ unhandled = <<>> /\ remain = 0 /\ offset = 0 /\ processed = 0
       \/ unhandled = <<Beyond, Beyond>> /\ remain = Seed /\ offset = StorageBlock /\ processed = 1
    /\ partition = [a \in 0 .. Room - 1 |-> Old]

\* The units a chunk has behind its header.
Body(c) == CASE c.type = "raw" -> c.bytes
             [] c.type \in {"fill", "crc"} -> Seed
             [] OTHER -> 0

\* image -> chunk -> the position of its header.
HeaderAt ==
    [img \in Images |->
        LET at[i \in DOMAIN img.chunks] ==
                IF i = 1 THEN img.fileHeader + 1
                ELSE at[i - 1] + img.chunkHeader + Body(img.chunks[i - 1])
        IN  at]

\* The units of the output a chunk stands for.
Covered(c) == IF c.type \in {"raw", "fill", "skip"} THEN c.bytes ELSE 0

\* image -> chunk -> the address where its output begins.
AddressAt ==
    [img \in Images |->
        LET at[i \in 1 .. Len(img.chunks) + 1] ==
                IF i = 1 THEN 0
                ELSE at[i - 1] + Covered(img.chunks[i - 1])
        IN  at]

Output(img) == AddressAt[img][Len(img.chunks) + 1]

Smaller(m, n) == IF m < n THEN m ELSE n

\* m - n of two uint32.
Minus(m, n) == IF m >= n THEN m - n ELSE m + Wrap - n

\* n units of the package from index k on.
Bytes(k, n) == [j \in 1 .. n |-> IF k + j <= Len(data) THEN data[k + j] ELSE Beyond]

\* set_unsparse_status
SetStatus(s, p, n, b) ==
    /\ status' = s
    /\ phase' = p
    /\ size' = n
    /\ buf' = b

\* emmc_write of n units, a sequence of them, at image_address_offset.
Written(source, n) ==
    [a \in DOMAIN partition |-> IF a \in offset .. offset + n - 1 THEN source[a - offset + 1] ELSE partition[a]]

---------------------------------------------------------------------------
(* write_data and its packages *)

\* download_data and the first run of write_data: an engine whose paddings are empty,
\* a status that waits for the file's header.  An image too large is refused.
Begin ==
    /\ stage = "idle"
    /\ padding' = <<>>
    /\ SetStatus("OK", "SPARSE_HEADER", 0, 0)
    /\ stage' = IF Output(image) > Room THEN "end" ELSE "package"
    /\ UNCHANGED <<image, received, content, data, unsparseVars, partition>>

\* write_storage_proc takes the next cache; the content of the last one is empty.
Package ==
    /\ stage = "package"
    /\ content' = Smaller(Page, image.sent - received)
    /\ received' = received + content'
    /\ data' = padding \o [j \in 1 .. content' |-> received + j]
    /\ buf' = 0 /\ size' = Len(data')
    /\ stage' = IF data' = <<>> THEN "end" ELSE "handle"
    /\ UNCHANGED <<image, padding, phase, status, unsparseVars, partition>>

\* write_sparse_data returns to write_data, and that to write_storage_proc.
Return ==
    /\ stage = "handle"
    /\ size = 0 \/ status # "OK"
    /\ padding' = CASE status = "SPARSE_INCOMPLETE" -> Bytes(buf, size)
                    [] status = "OK" -> <<>>
                    [] OTHER -> padding
    /\ status' = IF status = "SPARSE_INCOMPLETE" THEN "OK" ELSE status
    /\ stage' = IF status' # "OK" \/ content = 0 THEN "end" ELSE "package"
    /\ UNCHANGED <<image, received, content, data, buf, size, phase, unsparseVars, partition>>

---------------------------------------------------------------------------
(* write_sparse_data_internal, by phase *)

Handling(p) == stage = "handle" /\ status = "OK" /\ size > 0 /\ phase = p

FileHeader ==
    /\ Handling("SPARSE_HEADER")
    /\ size >= SparseHeader
    /\ SetStatus("OK", "CHUNK_HEADER", Minus(size, image.fileHeader), buf + image.fileHeader)
    /\ unhandled' = <<>>
    /\ processed' = 0
    /\ remain' = 0 /\ offset' = 0
    /\ UNCHANGED <<stage, packageVars, partition>>

\* A package shorter than the header: nothing is consumed, and write_sparse_data calls again.
NoFileHeader ==
    /\ Handling("SPARSE_HEADER")
    /\ size < SparseHeader
    /\ UNCHANGED streamVars

\* Mutant: one chunk too early.
SkipRestEarly ==
    /\ Handling("CHUNK_HEADER")
    /\ processed + 1 >= Len(image.chunks)
    /\ SetStatus("OK", "CHUNK_HEADER", 0, buf)
    /\ UNCHANGED <<stage, packageVars, unsparseVars, partition>>

\* All chunks are processed: the rest of the file is skipped.
SkipRest ==
    /\ Handling("CHUNK_HEADER")
    /\ processed >= Len(image.chunks)
    /\ SetStatus("OK", "CHUNK_HEADER", 0, buf)
    /\ UNCHANGED <<stage, packageVars, unsparseVars, partition>>

\* Mutant: > for >= where a header is complete.
SaveHeaderLate ==
    /\ Handling("CHUNK_HEADER")
    /\ processed < Len(image.chunks)
    /\ Len(unhandled) + size <= image.chunkHeader
    /\ unhandled' = Bytes(buf, size)
    /\ SetStatus("OK", "CHUNK_HEADER", 0, buf)
    /\ UNCHANGED <<stage, packageVars, remain, offset, processed, partition>>

\* The package ends in a chunk's header.  What was saved before is lost.
SaveHeader ==
    /\ Handling("CHUNK_HEADER")
    /\ processed < Len(image.chunks)
    /\ Len(unhandled) + size < image.chunkHeader
    /\ unhandled' = Bytes(buf, size)
    /\ SetStatus("OK", "CHUNK_HEADER", 0, buf)
    /\ UNCHANGED <<stage, packageVars, remain, offset, processed, partition>>

\* chunk_hdr: the saved part and what completes it.
Header == unhandled \o Bytes(buf, ChunkHeader - Len(unhandled))

\* How much of the package the header takes.
Used == image.chunkHeader - Len(unhandled)

\* The chunk whose header this is: of other bytes, and of some chunks, the type is unknown.
ChunkRead ==
    {i \in DOMAIN image.chunks : image.chunks[i].type # "other" /\ Header = [j \in 1 .. ChunkHeader |-> HeaderAt[image][i] + j - 1]}

ChunkStart ==
    /\ Handling("CHUNK_HEADER")
    /\ processed < Len(image.chunks)
    /\ Len(unhandled) + size >= image.chunkHeader
    /\ unhandled' = <<>>
    /\ \E i \in ChunkRead :
        LET c == image.chunks[i]
        IN  /\ SetStatus("OK", CASE c.type = "raw" -> "CHUNK_DATA"
                                 [] c.type = "skip" -> "CHUNK_HEADER"
                                 [] c.type = "fill" -> "CHUNK_FILL"
                                 [] c.type = "crc" -> "CHUNK_CRC", Minus(size, Used), buf + Used)
            /\ remain' = IF c.type = "skip" THEN 0 ELSE c.bytes
            /\ offset' = IF c.type = "skip" THEN offset + c.bytes ELSE offset
    /\ processed' = processed + 1
    /\ UNCHANGED <<stage, packageVars, partition>>

UnknownChunk ==
    /\ Handling("CHUNK_HEADER")
    /\ processed < Len(image.chunks)
    /\ Len(unhandled) + size >= image.chunkHeader
    /\ ChunkRead = {}
    /\ status' = "UNKNOWN_CHUNK_TYPE"
    /\ unhandled' = <<>>
    /\ remain' = image.chunks[processed + 1].bytes
    /\ UNCHANGED <<stage, packageVars, buf, size, phase, offset, processed, partition>>

\* The fill value over the chunk, a cache full at a time; done units are written and
\* counted when it ends, and all of them if no write failed.  The one that fails may have
\* written some of its own.
Fill(done) ==
    /\ Handling("CHUNK_FILL")
    /\ done = remain \/ (done < remain /\ done % FillCache = 0)
    /\ LET value == Bytes(buf, Seed)
           filled == [k \in 1 .. remain |-> value[1 + ((k - 1) % Seed)]]
       IN  \E reached \in done .. Smaller(remain, done + FillCache) :
              partition' = Written(filled, reached)
    /\ offset' = offset + done
    /\ remain' = remain - done
    /\ IF done = remain
       THEN SetStatus("OK", "CHUNK_HEADER", Minus(size, Seed), buf + Seed)
       ELSE status' = "EMMC_ERR" /\ UNCHANGED <<phase, size, buf>>
    /\ UNCHANGED <<stage, packageVars, unhandled, processed>>

Crc ==
    /\ Handling("CHUNK_CRC")
    /\ remain' = 0
    /\ SetStatus("OK", "CHUNK_HEADER", Minus(size, Seed), buf + Seed)
    /\ UNCHANGED <<stage, packageVars, unhandled, offset, processed, partition>>

\* The whole storage blocks of n units.
Blocks(n) == n - (n % StorageBlock)

\* Write n units of the package.
WriteUnits(n) == partition' = Written(Bytes(buf, n), n)

\* The rest of the chunk is in the package.
WriteRest ==
    /\ Handling("CHUNK_DATA")
    /\ size >= remain
    /\ WriteUnits(remain)
    /\ offset' = offset + remain
    /\ remain' = 0
    /\ SetStatus("OK", "CHUNK_HEADER", size - remain, buf + remain)
    /\ UNCHANGED <<stage, packageVars, unhandled, processed>>

\* The chunk goes on in the next package: write whole blocks, the tail stays to be looked at again.
WritePart ==
    /\ Handling("CHUNK_DATA")
    /\ size < remain /\ size >= StorageBlock
    /\ WriteUnits(Blocks(size))
    /\ offset' = offset + Blocks(size)
    /\ remain' = remain - Blocks(size)
    /\ SetStatus("OK", "CHUNK_DATA", size - Blocks(size), buf + Blocks(size))
    /\ UNCHANGED <<stage, packageVars, unhandled, processed>>

\* Mutant: STATUS_OK for STATUS_SPARSE_INCOMPLETE.
CarryTailLoops ==
    /\ Handling("CHUNK_DATA")
    /\ size < remain /\ size < StorageBlock
    /\ SetStatus("OK", "CHUNK_DATA", size, buf)
    /\ UNCHANGED <<stage, packageVars, unsparseVars, partition>>

\* The tail: it is carried to the padding before the next package.
CarryTail ==
    /\ Handling("CHUNK_DATA")
    /\ size < remain /\ size < StorageBlock
    /\ SetStatus("SPARSE_INCOMPLETE", "CHUNK_DATA", size, buf)
    /\ UNCHANGED <<stage, packageVars, unsparseVars, partition>>

\* emmc_write of raw data fails; some of its blocks may have been written.
WriteFails(n) ==
    /\ Handling("CHUNK_DATA")
    /\ size >= remain \/ size >= StorageBlock
    /\ n < Smaller(size, remain) /\ n % StorageBlock = 0
    /\ WriteUnits(n)
    /\ status' = "EMMC_ERR"
    /\ UNCHANGED <<stage, packageVars, buf, size, phase, unsparseVars>>

StreamNext ==
    \/ Begin
    \/ Package
    \/ Return
    \/ FileHeader
    \/ NoFileHeader
    \/ SkipRest
    \/ SaveHeader
    \/ ChunkStart
    \/ UnknownChunk
    \/ \E n \in 0 .. Room : Fill(n)
    \/ Crc
    \/ WriteRest
    \/ WritePart
    \/ CarryTail
    \/ \E n \in 0 .. Room : WriteFails(n)

\* write_storage_proc has the highest priority and waits for nothing but packages.
StreamSpec == StreamInit /\ [][StreamNext]_streamVars /\ WF_streamVars(StreamNext)

---------------------------------------------------------------------------
(* Properties *)

\* The whole image is sent.
Complete ==
    LET n == Len(image.chunks)
    IN  image.sent + 1 >= IF n = 0 THEN image.fileHeader + 1
                          ELSE HeaderAt[image][n] + image.chunkHeader + Body(image.chunks[n])

\* What belongs at address a: the byte of the raw data, of the fill value, or what was there.
Meaning(a) ==
    LET Covers(i) == /\ AddressAt[image][i] <= a
                     /\ a < AddressAt[image][i] + Covered(image.chunks[i])
        there == {i \in DOMAIN image.chunks : Covers(i)}
        i == CHOOSE j \in there : TRUE
        body == HeaderAt[image][i] + image.chunkHeader
    IN  IF there = {} THEN Old
        ELSE CASE image.chunks[i].type = "skip" -> Old
               [] image.chunks[i].type = "raw" -> body + (a - AddressAt[image][i])
               [] image.chunks[i].type = "fill" -> body + ((a - AddressAt[image][i]) % Seed)

\* The pointer and the count stay inside the package, whatever the place where it was
\* cut, though the fill value and the CRC are taken without a look at the count
\* (sparse_state_machine.c:168); a saved header fits unhandle_buf (line 160) and a tail
\* the padding (transfer_parallel.c:193).
BuffersHold ==
    /\ stage = "handle" =>
        /\ buf + size <= Len(data)
        /\ size > 0 => buf + size = Len(data)
    /\ Len(unhandled) <= ChunkHeader
    /\ Len(padding) < StorageBlock

\* The partition is what the image says up to the current offset and untouched, or
\* already right, beyond it: wherever the pages cut the image, whichever write failed
\* and whatever the download before this one left in the static state.
WrittenIsMeant ==
    stage \in {"package", "handle", "end"} /\ phase # "SPARSE_HEADER" =>
        \A a \in DOMAIN partition :
            \/ partition[a] = Meaning(a)
            \/ a >= offset /\ partition[a] = Old

\* A complete image that ends without an error is on the partition, all of it, and has
\* left nothing in the padding.  Only a chunk of no known type is refused as one: every
\* header is found, however the pages cut it (sparse_state_machine.c:100).
SuccessIsWhole ==
    stage = "end" /\ phase # "SPARSE_HEADER" /\ Complete =>
        /\ status = "OK" => padding = <<>> /\ \A a \in DOMAIN partition : partition[a] = Meaning(a)
        /\ status = "UNKNOWN_CHUNK_TYPE" => image.chunks[processed + 1].type = "other"

\* What is written is right at every step, and a download that succeeds wrote all of it.
ImageArrives == WrittenIsMeant /\ SuccessIsWhole

\* Every package is done with in the end, unless the first one is shorter than the
\* file's header.
PackagesEnd == stage = "handle" /\ image.sent >= SparseHeader ~> stage \in {"package", "end"}
=============================================================================
