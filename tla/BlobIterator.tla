---------------------------- MODULE BlobIterator ----------------------------
(***************************************************************************)
(* One data file, byte by byte: Put appends blobs to it, BlobIterator and  *)
(* the loop in the constructor of DocumentCollection read it back when the *)
(* collection is opened, and Get fetches blobs by their offsets.           *)
(*                                                                         *)
(* The loop has one vector of buffers for all of its batches.  A blob that *)
(* is compressed is decompressed into memory of the buffer's own; one that *)
(* is not is never copied, the buffer becomes a window on the file, which  *)
(* is mapped read-only.  A cursor has one buffer for all the documents it  *)
(* fetches, whatever their sizes.                                          *)
(*                                                                         *)
(* Blob number b is a run of bytes Mark(b), and so is its compressed form: *)
(* LZ4 (external) makes what it decompresses to out of the bytes it is     *)
(* pointed at.  A file is zero behind what was written.                    *)
(***************************************************************************)
EXTENDS BlobFormat

CONSTANTS
    MaxDataFileSize,  \* m_maxDataFileSize
    Sizes,            \* bound: sizes of blobs
    BatchSize,        \* desiredBatchSize
    MaxBlobs          \* bound: blobs in the file

ASSUME IteratorAssumption ==
    /\ MaxDataFileSize \in Nat \ {0}
    /\ Sizes \subseteq Nat \ {0} /\ IsFiniteSet(Sizes)
    /\ \A n \in Sizes : CompressBound(n) < Power[MaxVarintBytes]   \* as 64 bits do
    /\ BatchSize \in Nat \ {0} /\ MaxBlobs \in Nat

VARIABLES
    bytes,    \* what the file holds up to its data length
    written,  \* history: offset, number and size of each blob Put has written
    pc,       \* writing the file, loading it, or dead
    at,       \* m_currentOffsetAddress
    slot,     \* blobs, the buffers of the batches
    filled,   \* batchSize so far
    metas,    \* blobMetadataVec: the offset of each
    ids,      \* m_documentIDMap: offsets
    indexed,  \* history: the documents IndexDocuments was given
    fetch,    \* the cursor's buffer
    fetched   \* history: the blob last fetched

load == <<at, slot, filled, metas, indexed>>
vars == <<bytes, written, pc, load, ids, fetch, fetched>>

Mark(b) == 100 + b
Run(mark, n) == [i \in 1..n |-> mark]

\* The file as a mapping shows it.
Byte == [i \in 0..(MaxDataFileSize + 2 * MaxVarintBytes) |->
            IF i < Len(bytes) THEN bytes[i + 1] ELSE 0]
BytesAt(i, n) == [k \in 1..n |-> Byte[i + k - 1]]

\* LZ4_decompress_fast of n bytes
Decompressed(i, n) == Run(Byte[i], n)

-----------------------------------------------------------------------------
(* BufferImpl: whose memory, what was last put at its start, and lengths. *)

NoBuffer == [memory |-> "none", data |-> <<>>, length |-> 0, capacity |-> 0]

Resize(buf, n) ==
    IF n = buf.capacity THEN buf
    ELSE [memory |-> "heap", data |-> <<>>, length |-> 0, capacity |-> n]

\* A buffer on the bytes of the file, with a deleter that does nothing.
Window(i, n) ==
    [memory |-> "file", data |-> BytesAt(i, n), length |-> n, capacity |-> n]

\* Mutant: the length is set when it grows only.
FilledLonger(buf, data) ==
    [buf EXCEPT !.data = data, !.length = IF Len(data) > @ THEN Len(data) ELSE @]

\* Bytes written into the memory of a buffer, and its length set.
Filled(buf, data) == [buf EXCEPT !.data = data, !.length = Len(data)]

-----------------------------------------------------------------------------
Init ==
    /\ bytes = <<>> /\ written = <<>>
    /\ pc = "write"
    /\ at = 0 /\ filled = 0
    /\ slot = [i \in 1..BatchSize |-> NoBuffer]
    /\ metas = [i \in 1..BatchSize |-> 0]
    /\ ids = <<>> /\ indexed = <<>>
    /\ fetch = NoBuffer /\ fetched = 0

\* Put, while the file has room; else it goes on in the next file.
Put(n, compress) ==
    LET b == Len(written) + 1
    IN  /\ pc = "write" /\ b <= MaxBlobs
        /\ EstimatedBytesToWrite(n, compress) + Len(bytes) <= MaxDataFileSize
        /\ \E stored \in IF compress THEN 1..CompressBound(n) ELSE {n} :
              bytes' = bytes \o WriteBlobHeader(compress, n, stored)
                             \o Run(Mark(b), stored)
        /\ written' = Append(written, [off |-> Len(bytes), blob |-> b, size |-> n])
        /\ ids' = Append(ids, Len(bytes))
        /\ UNCHANGED <<pc, load, fetch, fetched>>

\* The collection is closed and opened again: a fresh BlobIterator.
StartLoad ==
    /\ pc = "write"
    /\ pc' = "batch"
    /\ ids' = <<>>
    /\ fetch' = NoBuffer /\ fetched' = 0
    /\ UNCHANGED <<bytes, written, load>>

-----------------------------------------------------------------------------
(* GetNextBatch, one blob at a time. *)

Header == ReadBlobHeader(Byte, at)

MoreInBatch == pc = "batch" /\ filled < BatchSize /\ at < Len(bytes)

\* What both kinds of blob have in common.
Record(end) ==
    /\ filled' = filled + 1
    /\ metas' = [metas EXCEPT ![filled + 1] = at]
    /\ at' = end

\* The buffer for a compressed blob: twice its size if it has to be made.
Room(buf, n) == IF buf.capacity < n THEN Resize(buf, 2 * n) ELSE buf

ReadCompressed ==
    /\ MoreInBatch /\ ~Header.throws /\ Header.compressed
    /\ LET buf == Room(slot[filled + 1], Header.blobSize)
       IN  IF buf.memory = "file"
           THEN pc' = "dead" /\ UNCHANGED load    \* a write to the mapping
           ELSE /\ slot' = [slot EXCEPT ![filled + 1] =
                              Filled(buf, Decompressed(Header.next, Header.blobSize))]
                /\ Record(Header.next + Header.compSize)
                /\ UNCHANGED <<pc, indexed>>
    /\ UNCHANGED <<bytes, written, ids, fetch, fetched>>

ReadUncompressed ==
    /\ MoreInBatch /\ ~Header.throws /\ ~Header.compressed
    /\ slot' = [slot EXCEPT ![filled + 1] = Window(Header.next, Header.blobSize)]
    /\ Record(Header.next + Header.blobSize)
    /\ UNCHANGED <<bytes, written, pc, indexed, ids, fetch, fetched>>

\* Mutant: every buffer of the vector is taken, those of the last batch too.
IndexAllSlots ==
    /\ pc = "batch" /\ ~MoreInBatch
    /\ IF filled = 0
       THEN pc' = "done" /\ UNCHANGED <<ids, indexed>>
       ELSE /\ ids' = ids \o metas
            /\ indexed' = indexed \o slot
            /\ UNCHANGED pc
    /\ filled' = 0
    /\ UNCHANGED <<bytes, written, at, slot, metas, fetch, fetched>>

\* The batch is over: IndexDocuments and m_documentIDMap get the part of it
\* that was filled; an empty one ends the loop.
IndexBatch ==
    /\ pc = "batch" /\ ~MoreInBatch
    /\ IF filled = 0
       THEN pc' = "done" /\ UNCHANGED <<ids, indexed>>
       ELSE /\ ids' = ids \o SubSeq(metas, 1, filled)
            /\ indexed' = indexed \o SubSeq(slot, 1, filled)
            /\ UNCHANGED pc
    /\ filled' = 0
    /\ UNCHANGED <<bytes, written, at, slot, metas, fetch, fetched>>

-----------------------------------------------------------------------------
\* BlobManager::Get of document i into the buffer of a cursor.
Get(i) ==
    LET header == ReadBlobHeader(Byte, ids[i])
        buf == IF fetch.capacity < header.blobSize
               THEN Resize(fetch, header.blobSize) ELSE fetch
    IN  /\ pc \in {"write", "done"}
        /\ ~header.throws
        /\ fetch' = Filled(buf, IF header.compressed
                                THEN Decompressed(header.next, header.blobSize)
                                ELSE BytesAt(header.next, header.blobSize))
        /\ fetched' = i
        /\ UNCHANGED <<bytes, written, pc, load, ids>>

Next ==
    \/ \E n \in Sizes, compress \in BOOLEAN : Put(n, compress)
    \/ StartLoad
    \/ ReadCompressed \/ ReadUncompressed \/ IndexBatch
    \/ \E i \in DOMAIN ids : Get(i)

Spec == Init /\ [][Next]_vars

-----------------------------------------------------------------------------
\* A buffer that shows blob w, and that only.
Shows(buf, w) ==
    /\ buf.length = w.size
    /\ buf.data = Run(Mark(w.blob), w.size)

\* Every variable has its type; no buffer is longer than its memory, and what
\* is on the file is no longer than the file.
BuffersHoldTheirBlobs ==
    /\ pc \in {"write", "batch", "done", "dead"}
    /\ filled \in 0..BatchSize
    /\ \A buf \in Range(slot) \cup {fetch} :
          /\ buf.memory \in {"none", "heap", "file"}
          /\ Len(buf.data) <= buf.capacity /\ buf.length <= buf.capacity
    /\ at <= Len(bytes)

\* The estimate that Put makes before it compresses covers what it writes then:
\* nothing is written past the end of the mapping.
FileWithinMapping == Len(bytes) <= MaxDataFileSize

\* What is read is what was written, whatever the buffers held before and in
\* whatever batches: the loop has handed to the indexes the blobs of the file
\* from the first one on, whole and in order, under the offsets that Put
\* returned, and all of them when it ends; a document that is fetched is the
\* one under that number, not longer for a longer one before it.
BlobsAreReadAsWritten ==
    /\ pc # "write" =>
          /\ Len(ids) = Len(indexed) /\ Len(indexed) <= Len(written)
          /\ \A i \in DOMAIN indexed : /\ ids[i] = written[i].off
                                       /\ Shows(indexed[i], written[i])
          /\ pc = "done" => Len(indexed) = Len(written)
    /\ fetched # 0 => Shows(fetch, written[fetched])

\* "Passed in buffer is not big enough.  Lets resize it [...] these buffers are
\* reused again", blob_manager.cc:338: a buffer that is big enough can be
\* decompressed into.
MappingNeverWritten == pc # "dead"
=============================================================================
