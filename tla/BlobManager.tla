---------------------------- MODULE BlobManager ----------------------------
(***************************************************************************)
(* The storage engine of one collection: BlobManager, the rows that        *)
(* FileNameManager keeps in the SQLite table CollectionDataFile, the data  *)
(* files that File::FastAllocate creates and MemoryMappedFile maps, and    *)
(* BlobIterator, which reads the files back when the database is opened.   *)
(*                                                                         *)
(* A data file is the set of extents written into it: [off, blob] occupies *)
(* the bytes off .. off + Size[blob] - 1, header included.  A write drops  *)
(* the extents it overwrites.  data is what the mapping shows (the page    *)
(* cache); disk is the part of it that msync has put on stable storage.    *)
(*                                                                         *)
(* Put and MultiPut hold m_writeMutex from their first step to their last, *)
(* so one write operation is under way at a time; a step is one call that  *)
(* can fail or after which the process can die.                            *)
(***************************************************************************)
EXTENDS Integers, Sequences

CONSTANTS
    Blobs,            \* a document's bytes together with its compress flag
    Size,             \* bytes a blob occupies in a file, header included
    Estimate,         \* Put's estimatedBytesToWrite for it
    Oversized,        \* blobs GetCompressedSize refuses
    MaxDataFileSize,  \* m_maxDataFileSize
    MaxFileKey,       \* bound: the last file key
    MaxBatch,         \* bound: blobs in one MultiPut
    MaxAcked,         \* bound: blobs acknowledged in all
    MaxFaults,        \* bound: calls that fail
    MaxCrashes        \* bound: process crashes and power losses

(***************************************************************************)
(* LZ4_compressBound never underestimates, and the header is sized from    *)
(* the same bound.  A blob fits an empty file: the code does not check it, *)
(* a larger one would be written past the end of the mapping.              *)
(***************************************************************************)
ASSUME SizeAssumption ==
    /\ MaxDataFileSize \in Nat \ {0}
    /\ Size \in [Blobs -> 1..MaxDataFileSize]
    /\ Estimate \in [Blobs -> Nat]
    /\ \A b \in Blobs : Size[b] <= Estimate[b]
    /\ Oversized \subseteq Blobs

ASSUME BoundAssumption ==
    /\ MaxFileKey \in Nat /\ MaxBatch \in Nat /\ MaxAcked \in Nat
    /\ MaxFaults \in Nat /\ MaxCrashes \in Nat

FileKeys == 0..MaxFileKey
Extent   == [off : 0..MaxDataFileSize, blob : Blobs]
Metadata == [key : FileKeys, off : 0..MaxDataFileSize, blob : Blobs]

NoRecord == -2        \* no row for the key
Unset    == -1        \* "-1 represents that the length has not been set"

VARIABLES
    rec,      \* FileDataLength of each row of CollectionDataFile
    file,     \* each data file in the file system
    data,     \* extents of each file, as the mappings show them
    disk,     \* extents of each file that are on stable storage
    pc,       \* where the constructor or the write operation is
    opening,  \* TRUE while the constructor runs
    target,   \* key of the file being allocated and mapped
    cur,      \* m_currentBlobFileInfo.fileKey
    wo,       \* m_currentWriteOffset of m_currentBlobFile
    base,     \* baseOffsetInFile
    op,       \* the write operation under way
    batch,    \* its blobs
    metas,    \* the part of blobMetadataVec filled so far
    acked,    \* history: metadata of every blob whose Put or MultiPut returned
    faults, crashes

durable == <<rec, file, data, disk>>
process == <<pc, opening, target, cur, wo, base, op, batch, metas>>
vars    == <<durable, process, acked, faults, crashes>>

End(e) == e.off + Size[e.blob]

\* The committed length of file k, 0 while it has not been set.
Committed(k) == IF rec[k] < 0 THEN 0 ELSE rec[k]

\* Mutant: without ORDER BY FileKey DESC any row may be the first.
IsAnyFileKey(k) == rec[k] # NoRecord

IsLastFileKey(k) ==
    /\ rec[k] # NoRecord
    /\ \A j \in FileKeys : rec[j] # NoRecord => j <= k

NextBlob == batch[Len(metas) + 1]

\* INSERT of a row for file k; the primary key refuses a second one.
AddFileRecord(k) ==
    /\ rec[k] = NoRecord
    /\ rec' = [rec EXCEPT ![k] = Unset]

UpdateDataFileLength(k, n) == rec' = [rec EXCEPT ![k] = n]

-----------------------------------------------------------------------------
Init ==
    /\ rec = [k \in FileKeys |-> NoRecord]
    /\ file = [k \in FileKeys |-> "missing"]
    /\ data = [k \in FileKeys |-> {}]
    /\ disk = [k \in FileKeys |-> {}]
    /\ pc = "down" /\ opening = FALSE /\ target = 0
    /\ cur = 0 /\ wo = 0 /\ base = 0
    /\ op = "none" /\ batch = <<>> /\ metas = <<>>
    /\ acked = <<>>
    /\ faults = 0 /\ crashes = 0

\* The process is gone: nothing in memory survives.
Forget ==
    /\ pc' = "down" /\ opening' = FALSE /\ target' = 0
    /\ cur' = 0 /\ wo' = 0 /\ base' = 0
    /\ op' = "none" /\ batch' = <<>> /\ metas' = <<>>

\* A write operation is over; the current file stays mapped at offset o.
Finish(o) ==
    /\ pc' = "idle" /\ wo' = o
    /\ base' = 0 /\ target' = 0
    /\ op' = "none" /\ batch' = <<>> /\ metas' = <<>>
    /\ UNCHANGED <<opening, cur>>

CanFail == faults < MaxFaults /\ faults' = faults + 1

-----------------------------------------------------------------------------
(* The constructor. *)

\* Mutant: a file that is not there is given up, and the next one opened.
OpenNextFile ==
    /\ pc = "down"
    /\ \/ /\ \A k \in FileKeys : rec[k] = NoRecord
          /\ AddFileRecord(0)
          /\ target' = 0
       \/ \E k \in FileKeys :
             /\ IsLastFileKey(k)
             /\ IF file[k] = "missing" /\ k < MaxFileKey
                THEN target' = k + 1 /\ AddFileRecord(k + 1)
                ELSE target' = k /\ UNCHANGED rec
    /\ opening' = TRUE
    /\ pc' = IF file[target'] = "missing" THEN "create" ELSE "map"
    /\ UNCHANGED <<file, data, disk, cur, wo, base, op, batch, metas,
                   acked, faults, crashes>>

\* GetCurrentDataFileInfo(true): the last row, or a first one; a file that is
\* not there is allocated, one that is there is mapped as it is.
Open ==
    /\ pc = "down"
    /\ \/ /\ \A k \in FileKeys : rec[k] = NoRecord
          /\ AddFileRecord(0)
          /\ target' = 0
       \/ \E k \in FileKeys : IsLastFileKey(k) /\ target' = k /\ UNCHANGED rec
    /\ opening' = TRUE
    /\ pc' = IF file[target'] = "missing" THEN "create" ELSE "map"
    /\ UNCHANGED <<file, data, disk, cur, wo, base, op, batch, metas,
                   acked, faults, crashes>>

\* Mutant: the offset stays where a new mapping has it.
MapCurrentAtStart ==
    /\ pc = "map" /\ opening
    /\ file[target] = "allocated"
    /\ cur' = target
    /\ wo' = 0
    /\ pc' = "load"
    /\ UNCHANGED <<durable, opening, target, base, op, batch, metas,
                   acked, faults, crashes>>

\* The file is mapped at the recorded length.  UpdateDataFileLength then
\* writes the value it has just read, which changes nothing.
MapCurrent ==
    /\ pc = "map" /\ opening
    /\ file[target] = "allocated"
    /\ cur' = target
    /\ wo' = Committed(target)
    /\ pc' = "load"
    /\ UNCHANGED <<durable, opening, target, base, op, batch, metas,
                   acked, faults, crashes>>

\* DocumentCollection's constructor maps every recorded file to iterate it.
Load ==
    /\ pc = "load"
    /\ \A k \in FileKeys : rec[k] # NoRecord => file[k] = "allocated"
    /\ pc' = "idle" /\ opening' = FALSE /\ target' = 0
    /\ UNCHANGED <<durable, cur, wo, base, op, batch, metas,
                   acked, faults, crashes>>

\* mmap refuses a file of length zero and a file that is not there.
OpenThrows ==
    /\ \/ pc = "map" /\ opening /\ file[target] # "allocated"
       \/ pc = "load" /\ \E k \in FileKeys : /\ rec[k] # NoRecord
                                             /\ file[k] # "allocated"
    /\ Forget
    /\ UNCHANGED <<durable, acked, faults, crashes>>

OpenFails ==
    /\ opening
    /\ CanFail
    /\ Forget
    /\ UNCHANGED <<durable, acked, crashes>>

-----------------------------------------------------------------------------
(* File::FastAllocate, from the constructor and from SwitchToNewDataFile. *)

\* open(O_CREAT | O_EXCL) makes the file, of length zero.
CreateFile ==
    /\ pc = "create"
    /\ file[target] = "missing"
    /\ file' = [file EXCEPT ![target] = "empty"]
    /\ pc' = "truncate"
    /\ UNCHANGED <<rec, data, disk, opening, target, cur, wo, base, op,
                   batch, metas, acked, faults, crashes>>

\* ftruncate gives it its full length, of zero bytes.
TruncateFile ==
    /\ pc = "truncate"
    /\ file' = [file EXCEPT ![target] = "allocated"]
    /\ pc' = "map"
    /\ UNCHANGED <<rec, data, disk, opening, target, cur, wo, base, op,
                   batch, metas, acked, faults, crashes>>

-----------------------------------------------------------------------------
(* Put and MultiPut. *)

Begin(o, bs) ==
    /\ pc = "idle"
    /\ Len(acked) + Len(bs) <= MaxAcked
    /\ \E k \in FileKeys : IsLastFileKey(k) /\ k + Len(bs) <= MaxFileKey
    /\ pc' = "next"
    /\ base' = wo
    /\ op' = o /\ batch' = bs /\ metas' = <<>>
    /\ UNCHANGED <<durable, opening, target, cur, wo, acked, faults, crashes>>

Put == \E b \in Blobs : Begin("Put", <<b>>)
MultiPut == \E n \in 1..MaxBatch : \E bs \in [1..n -> Blobs] : Begin("MultiPut", bs)

\* GetCompressedSize throws outside every try block: the offset stays where
\* the earlier blobs of the batch have moved it.
CompressedSizeThrows ==
    /\ pc = "next"
    /\ NextBlob \in Oversized
    /\ Finish(wo)
    /\ UNCHANGED <<durable, acked, faults, crashes>>

\* Mutant: the offset is left out of the comparison.
FitsEmptyFile == Estimate[NextBlob] <= MaxDataFileSize

Fits == Estimate[NextBlob] + wo <= MaxDataFileSize

\* The head of the loop: the blob fits, or a new file is needed.  MultiPut
\* flushes the current file before it leaves it, Put has nothing to flush.
CheckFit ==
    /\ pc = "next"
    /\ NextBlob \notin Oversized
    /\ pc' = IF Fits THEN "write"
             ELSE IF op = "MultiPut" THEN "flushFull" ELSE "record"
    /\ UNCHANGED <<durable, opening, target, cur, wo, base, op, batch,
                   metas, acked, faults, crashes>>

\* Mutant: the first blob of the range is left out.
FlushedPastBase == disk' = [disk EXCEPT ![cur] =
                      @ \cup {e \in data[cur] : base < e.off /\ e.off < wo}]

\* Flush(base, wo - base) on the current file.
Flushed == disk' = [disk EXCEPT ![cur] =
                      @ \cup {e \in data[cur] : base <= e.off /\ e.off < wo}]

FlushFullFile ==
    /\ pc = "flushFull"
    /\ Flushed
    /\ pc' = "record"
    /\ UNCHANGED <<rec, file, data, opening, target, cur, wo, base, op,
                   batch, metas, acked, faults, crashes>>

-----------------------------------------------------------------------------
(* SwitchToNewDataFile: a row, a file, a mapping, the old file's length. *)

\* The row of the key after the last one.
GetNextDataFileInfo ==
    /\ pc = "record"
    /\ \E k \in FileKeys :
          /\ IsLastFileKey(k) /\ k + 1 \in FileKeys
          /\ AddFileRecord(k + 1)
          /\ target' = k + 1
    /\ pc' = "create"
    /\ UNCHANGED <<file, data, disk, opening, cur, wo, base, op, batch,
                   metas, acked, faults, crashes>>

MapNew ==
    /\ pc = "map" /\ ~opening
    /\ file[target] = "allocated"
    /\ pc' = "oldLength"
    /\ UNCHANGED <<durable, opening, target, cur, wo, base, op, batch,
                   metas, acked, faults, crashes>>

\* Mutant: the old file is recorded at its full size.
SetOldLengthToSize ==
    /\ pc = "oldLength"
    /\ UpdateDataFileLength(cur, MaxDataFileSize)
    /\ pc' = "swap"
    /\ UNCHANGED <<file, data, disk, opening, target, cur, wo, base, op,
                   batch, metas, acked, faults, crashes>>

SetOldLength ==
    /\ pc = "oldLength"
    /\ UpdateDataFileLength(cur, wo)
    /\ pc' = "swap"
    /\ UNCHANGED <<file, data, disk, opening, target, cur, wo, base, op,
                   batch, metas, acked, faults, crashes>>

\* Mutant: the caller goes on with the base offset it had in the old file.
SwapFileKeepsBase ==
    /\ pc = "swap"
    /\ cur' = target /\ wo' = 0 /\ target' = 0
    /\ pc' = "write"
    /\ UNCHANGED <<durable, opening, base, op, batch, metas, acked, faults,
                   crashes>>

\* The new file becomes current, and the caller's base its offset, 0.
SwapFile ==
    /\ pc = "swap"
    /\ cur' = target /\ wo' = 0 /\ base' = 0 /\ target' = 0
    /\ pc' = "write"
    /\ UNCHANGED <<durable, opening, op, batch, metas, acked, faults,
                   crashes>>

\* No catch block surrounds the switch: the offset is not rolled back.
SwitchFails ==
    /\ \/ pc \in {"record", "create", "truncate", "oldLength"}
       \/ pc = "map" /\ file[target] = "allocated"
    /\ ~opening
    /\ CanFail
    /\ Finish(wo)
    /\ UNCHANGED <<durable, acked, crashes>>

-----------------------------------------------------------------------------
\* What a write of b at offset o leaves of the extents in E.
Overwrite(E, o, b) ==
    {e \in E : End(e) <= o \/ o + Size[b] <= e.off}

\* PutInternal: header and contents at the current offset, and the metadata.
PutInternal ==
    /\ pc = "write"
    /\ data' = [data EXCEPT ![cur] =
          Overwrite(@, wo, NextBlob) \cup {[off |-> wo, blob |-> NextBlob]}]
    /\ disk' = [disk EXCEPT ![cur] = Overwrite(@, wo, NextBlob)]
    /\ metas' = Append(metas, [key |-> cur, off |-> wo, blob |-> NextBlob])
    /\ wo' = wo + Size[NextBlob]
    /\ pc' = IF Len(metas) + 1 = Len(batch) THEN "flush" ELSE "next"
    /\ UNCHANGED <<rec, file, opening, target, cur, base, op, batch,
                   acked, faults, crashes>>

FlushBatch ==
    /\ pc = "flush"
    /\ Flushed
    /\ pc' = "length"
    /\ UNCHANGED <<rec, file, data, opening, target, cur, wo, base, op,
                   batch, metas, acked, faults, crashes>>

\* The catch blocks around Flush and PutInternal restore the base offset.
WriteFails ==
    /\ pc \in {"flushFull", "write", "flush"}
    /\ CanFail
    /\ Finish(base)
    /\ UNCHANGED <<durable, acked, crashes>>

\* Mutant: the length is recorded before the batch, not behind it.
SetLengthToBase ==
    /\ pc = "length"
    /\ UpdateDataFileLength(cur, base)
    /\ acked' = acked \o metas
    /\ Finish(wo)
    /\ UNCHANGED <<file, data, disk, faults, crashes>>

\* UpdateDataFileLength commits everything below the write offset.
SetLength ==
    /\ pc = "length"
    /\ UpdateDataFileLength(cur, wo)
    /\ acked' = acked \o metas
    /\ Finish(wo)
    /\ UNCHANGED <<file, data, disk, faults, crashes>>

\* It is the last statement of both operations, outside every try block.
SetLengthFails ==
    /\ pc = "length"
    /\ CanFail
    /\ Finish(wo)
    /\ UNCHANGED <<durable, acked, crashes>>

-----------------------------------------------------------------------------
\* The destructor unmaps the files; it flushes and records nothing.
Close ==
    /\ pc = "idle"
    /\ Forget
    /\ UNCHANGED <<durable, acked, faults, crashes>>

\* The process dies; the page cache keeps what it wrote.
ProcessCrash ==
    /\ pc # "down"
    /\ crashes < MaxCrashes /\ crashes' = crashes + 1
    /\ Forget
    /\ UNCHANGED <<durable, acked, faults>>

\* What a power loss can leave of file k.  The first msync of a file makes the
\* file itself durable; until then its size and its name can be lost.
Survives(k) ==
    {s \in {"missing", "empty", "allocated"} :
        \/ s = file[k]
        \/ disk[k] = {} /\ file[k] # "missing" /\ (s = "missing" \/ file[k] = "allocated")}

\* The machine dies; of what was never flushed, any part survives.  SQLite's
\* rows survive: journal_mode = WAL with synchronous = FULL.
PowerLoss ==
    /\ crashes < MaxCrashes /\ crashes' = crashes + 1
    /\ \E left \in [FileKeys -> {"missing", "empty", "allocated"}] :
          /\ \A k \in FileKeys : left[k] \in Survives(k)
          /\ file' = left
    /\ \E kept \in [FileKeys -> SUBSET UNION {data[k] : k \in FileKeys}] :
          /\ \A k \in FileKeys : /\ disk[k] \subseteq kept[k]
                                 /\ kept[k] \subseteq data[k]
                                 /\ file'[k] # "allocated" => kept[k] = {}
          /\ data' = kept /\ disk' = kept
    /\ Forget
    /\ UNCHANGED <<rec, acked, faults>>

Next ==
    \/ Open \/ MapCurrent \/ Load \/ OpenThrows \/ OpenFails
    \/ CreateFile \/ TruncateFile
    \/ Put \/ MultiPut
    \/ CompressedSizeThrows \/ CheckFit \/ FlushFullFile
    \/ GetNextDataFileInfo \/ MapNew \/ SetOldLength \/ SwapFile \/ SwitchFails
    \/ PutInternal \/ FlushBatch \/ WriteFails
    \/ SetLength \/ SetLengthFails
    \/ Close \/ ProcessCrash \/ PowerLoss

Spec == Init /\ [][Next]_vars

-----------------------------------------------------------------------------
(* Correctness of the files.  BlobReload says what reading them back gives. *)

FilesTyped ==
    /\ rec \in [FileKeys -> {NoRecord, Unset} \cup 0..MaxDataFileSize]
    /\ file \in [FileKeys -> {"missing", "empty", "allocated"}]
    /\ data \in [FileKeys -> SUBSET Extent]
    /\ disk \in [FileKeys -> SUBSET Extent]

ProcessTyped ==
    /\ pc \in {"down", "create", "truncate", "map", "load", "idle", "next",
               "flushFull", "record", "oldLength", "swap", "write", "flush",
               "length"}
    /\ opening \in BOOLEAN /\ op \in {"none", "Put", "MultiPut"}
    /\ target \in FileKeys /\ cur \in FileKeys
    /\ wo \in 0..MaxDataFileSize /\ base \in 0..MaxDataFileSize
    /\ batch \in Seq(Blobs) /\ metas \in Seq(Metadata)

HistoryTyped ==
    acked \in Seq(Metadata) /\ faults \in Nat /\ crashes \in Nat

\* Every variable has its type; the write offset never leaves the mapping.
TypeOK == FilesTyped /\ ProcessTyped /\ HistoryTyped

\* The blob of m can be read, and is on stable storage below a committed length.
Stored(m) ==
    LET e == [off |-> m.off, blob |-> m.blob]
    IN  /\ file[m.key] = "allocated"
        /\ e \in data[m.key] /\ e \in disk[m.key]
        /\ End(e) <= Committed(m.key)

\* A blob whose Put or MultiPut returned stays readable at the metadata it was
\* given, below the committed length and on stable storage: no failure, crash,
\* power loss or later write takes it away ("Flush the contents to ensure
\* durability", blob_manager.cc:191).
AckedDurable == \A i \in DOMAIN acked : Stored(acked[i])

\* The extents of E cut the bytes below n into whole blobs, without a gap.
Tiles(E, n) ==
    /\ \A p \in 0..(n - 1) : \E e \in E : e.off <= p /\ p < End(e)
    /\ \A e \in E : e.off < n => End(e) <= n
    /\ \A e, f \in E : e = f \/ End(e) <= f.off \/ End(f) <= e.off

\* Whatever failed or crashed, the committed prefix of every file is a run of
\* whole blobs, so that BlobIterator, which finds each header where the blob
\* before it ends, never reads the middle of a blob or bytes never written.
CommittedTiled == \A k \in FileKeys : Tiles(data[k], Committed(k))

\* What a committed length covers has been flushed ("Flush to make sure all
\* blobs are written to disk", blob_manager.cc:247), though the flush of one
\* operation starts at that operation's own base offset.
CommittedFlushed ==
    \A k \in FileKeys : \A e \in data[k] : e.off < Committed(k) => e \in disk[k]

\* No step, a rollback or a power loss included, shortens a committed length or
\* takes away or overwrites an extent below it: document ids handed out from
\* these positions stay right.
CommittedNeverRewritten ==
    [][\A k \in FileKeys :
          /\ Committed(k) <= Committed(k)'
          /\ \A e \in data[k] : e.off < Committed(k) => e \in data'[k]]_vars

\* Without an I/O error, a crash at any step leaves every recorded file but the
\* last allocated.  A last file that is missing is allocated by the constructor
\* (blob_manager.cc:150), so the only crash after which the collection cannot be
\* opened is one that leaves the last file with length zero: between
\* open(O_CREAT) and ftruncate or, losing power, before its first msync.
OpenableUnlessTorn ==
    faults = 0 =>
        \A k \in FileKeys : rec[k] # NoRecord =>
            file[k] = "allocated" \/ IsLastFileKey(k)
=============================================================================
