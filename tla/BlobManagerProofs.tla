------------------------- MODULE BlobManagerProofs -------------------------
(***************************************************************************)
(* Proofs about BlobManager, in four layers.  Control is the invariant of  *)
(* the control flow: where the current file, its offset and the key being  *)
(* allocated stand at each step.  Acknowledged adds what becomes of the    *)
(* blobs of the batch under way.  Layout adds how the files are cut into   *)
(* blobs; it needs every committed byte to be flushed, which the code      *)
(* guarantees only as long as GetCompressedSize refuses no blob.  Ordered  *)
(* adds where the blobs of the batch and those acknowledged lie in the     *)
(* files; what a reload reads is the one listing of the committed blobs by *)
(* these places, so that BlobManager implements BlobLog.                   *)
(***************************************************************************)
EXTENDS BlobReload, SequenceTheorems, WellFoundedInduction, TLAPS

USE DEF AddFileRecord, UpdateDataFileLength

\* The process serves calls: the constructor is over.
Running == pc # "down" /\ ~opening

Switching == pc \in {"create", "truncate", "map", "oldLength", "swap"} /\ ~opening

\* Steps whose catch block may roll the offset back to base.
Guarded == pc \in {"next", "flushFull", "write", "flush"}

Control ==
    /\ opening => pc \in {"create", "truncate", "map", "load"}
    /\ pc = "load" => opening /\ wo = Committed(cur)
    /\ pc \in {"create", "truncate", "map"} => rec[target] # NoRecord
    /\ Running \/ pc = "load" =>
          /\ rec[cur] # NoRecord
          /\ file[cur] = "allocated"
          /\ Committed(cur) <= wo
    /\ Guarded => Committed(cur) <= base
    /\ IF Running THEN base <= wo ELSE base = 0
    /\ Switching \/ pc \in {"next", "flushFull", "record", "write"} =>
          Len(metas) < Len(batch)
    /\ Switching => /\ rec[target] = Unset
                    /\ target # cur
                    /\ data[target] = {}
    /\ pc = "swap" => rec[cur] = wo
    /\ pc \in {"oldLength", "swap"} => file[target] = "allocated"
    /\ op = "Put" => Len(batch) = 1
    /\ op = "none" => batch = <<>>
    /\ pc = "write" => wo + Size[NextBlob] <= MaxDataFileSize
    /\ \A k \in FileKeys : rec[k] = NoRecord => data[k] = {}
    /\ \A k \in FileKeys : disk[k] \subseteq data[k]

ControlInv == TypeOK /\ Control

\* A blob the batch under way has put in the current file.
WrittenHere(m) ==
    LET e == [off |-> m.off, blob |-> m.blob]
    IN  /\ m.key = cur
        /\ e \in data[cur]
        /\ base <= m.off /\ End(e) <= wo
        /\ Switching \/ pc \in {"record", "length"} => e \in disk[cur]

Acknowledged ==
    /\ AckedDurable
    /\ \A i \in DOMAIN metas : Stored(metas[i]) \/ WrittenHere(metas[i])
    /\ ~Running => metas = <<>>

FlushedTo(k, n) == \A e \in data[k] : e.off < n => e \in disk[k]

Layout ==
    /\ CommittedTiled /\ CommittedFlushed
    /\ Running => Tiles(data[cur], wo)
    /\ Guarded => Tiles(data[cur], base) /\ FlushedTo(cur, base)
    /\ Switching \/ pc \in {"idle", "record", "length"} => FlushedTo(cur, wo)
    /\ pc = "next" /\ op = "Put" => base = wo

\* The loop over a batch is at a blob of it, whose size its estimate bounds.
LEMMA NextBlobInBlobs ==
    ASSUME TypeOK, Len(metas) < Len(batch)
    PROVE  /\ NextBlob \in Blobs
           /\ Size[NextBlob] \in 1..MaxDataFileSize
           /\ Estimate[NextBlob] \in Nat
           /\ Size[NextBlob] <= Estimate[NextBlob]
  BY SizeAssumption DEF TypeOK, ProcessTyped, NextBlob

\* A committed length is an offset in a data file.
LEMMA CommittedTyped ==
    ASSUME TypeOK, NEW k \in FileKeys
    PROVE  Committed(k) \in 0..MaxDataFileSize
<1>1. rec[k] \in {NoRecord, Unset} \cup 0..MaxDataFileSize
  BY DEF TypeOK, FilesTyped
<1> QED
  BY <1>1, SizeAssumption DEF Committed, NoRecord, Unset

\* Put and MultiPut start with a sequence of blobs that is not empty.
LEMMA BeginsNonEmpty ==
    ASSUME Put \/ MultiPut
    PROVE  \E o \in {"Put", "MultiPut"}, bs \in Seq(Blobs) :
              Begin(o, bs) /\ Len(bs) > 0 /\ (o = "Put" => Len(bs) = 1)
<1>1. CASE Put
  <2>1. PICK b \in Blobs : Begin("Put", <<b>>)
    BY <1>1 DEF Put
  <2>2. <<b>> \in Seq(Blobs) /\ Len(<<b>>) = 1 /\ Len(<<b>>) > 0
    OBVIOUS
  <2> QED
    BY <2>1, <2>2
<1>2. CASE MultiPut
  <2>1. PICK n \in 1..MaxBatch : \E bs \in [1..n -> Blobs] : Begin("MultiPut", bs)
    BY <1>2 DEF MultiPut
  <2>2. PICK bs \in [1..n -> Blobs] : Begin("MultiPut", bs)
    BY <2>1
  <2>3. n \in Nat /\ n > 0
    BY <2>1, BoundAssumption
  <2>4. bs \in Seq(Blobs) /\ Len(bs) = n
    BY <2>2, <2>3
  <2>5. Len(bs) > 0 /\ "MultiPut" # "Put"
    BY <2>3, <2>4
  <2> QED
    BY <2>2, <2>4, <2>5
<1> QED
  BY <1>1, <1>2

\* The end of the process leaves memory as Init has it.
LEMMA ForgetTyped == Forget => ProcessTyped'
<1> SUFFICES ASSUME Forget PROVE ProcessTyped'
  OBVIOUS
<1>1. /\ target' \in FileKeys /\ cur' \in FileKeys
      /\ wo' \in 0..MaxDataFileSize /\ base' \in 0..MaxDataFileSize
      /\ batch' \in Seq(Blobs) /\ metas' \in Seq(Metadata)
  BY SizeAssumption, BoundAssumption DEF Forget, FileKeys
<1>2. opening' \in BOOLEAN /\ op' \in {"none", "Put", "MultiPut"}
  BY DEF Forget
<1> QED
  BY <1>1, <1>2 DEF Forget, ProcessTyped

\* The end of a write operation leaves the process in a typed idle state.
LEMMA FinishTyped ==
    ASSUME TypeOK, NEW o \in 0..MaxDataFileSize, Finish(o)
    PROVE  ProcessTyped'
<1>1. /\ target' \in FileKeys /\ cur' \in FileKeys
      /\ wo' \in 0..MaxDataFileSize /\ base' \in 0..MaxDataFileSize
      /\ batch' \in Seq(Blobs) /\ metas' \in Seq(Metadata)
  BY SizeAssumption, BoundAssumption DEF Finish, FileKeys, TypeOK, ProcessTyped
<1>2. opening' \in BOOLEAN /\ op' \in {"none", "Put", "MultiPut"}
  BY DEF Finish, TypeOK, ProcessTyped
<1> QED
  BY <1>1, <1>2 DEF Finish, ProcessTyped

\* The invariants hold in the initial state.
LEMMA ControlInit == Init => ControlInv
<1> SUFFICES ASSUME Init PROVE ControlInv
  OBVIOUS
<1>1. FilesTyped
  BY DEF Init, FilesTyped
<1>2. /\ target \in FileKeys /\ cur \in FileKeys
      /\ wo \in 0..MaxDataFileSize /\ base \in 0..MaxDataFileSize
      /\ batch \in Seq(Blobs) /\ metas \in Seq(Metadata)
  BY SizeAssumption, BoundAssumption DEF Init, FileKeys
<1>3. opening \in BOOLEAN /\ op \in {"none", "Put", "MultiPut"}
  BY DEF Init
<1>4. ProcessTyped
  BY <1>2, <1>3 DEF Init, ProcessTyped
<1>5. HistoryTyped
  BY DEF Init, HistoryTyped
<1>6. Control
  BY DEF Init, Control, Committed, NoRecord, Unset, Running, Switching, Guarded
<1> QED
  BY <1>1, <1>4, <1>5, <1>6 DEF ControlInv, TypeOK

\* Every step keeps the types.
LEMMA TypeStep == ControlInv /\ [Next]_vars => TypeOK'
<1> SUFFICES ASSUME ControlInv, [Next]_vars PROVE TypeOK'
  OBVIOUS
<1> USE SizeAssumption, BoundAssumption DEF ControlInv, FileKeys, TypeOK
<1>1. CASE Open
  BY <1>1 DEF Open, FilesTyped, ProcessTyped, HistoryTyped
<1>2. CASE MapCurrent
  <2>1. Committed(target) \in 0..MaxDataFileSize
    BY CommittedTyped DEF ProcessTyped
  <2> QED
    BY <1>2, <2>1 DEF MapCurrent, FilesTyped, ProcessTyped, HistoryTyped, durable
<1>3. CASE Load
  <2>1. opening' \in BOOLEAN
    BY <1>3 DEF Load
  <2> QED
    BY <1>3, <2>1 DEF Load, FilesTyped, ProcessTyped, HistoryTyped, durable
<1>4. CASE OpenThrows \/ OpenFails \/ Close \/ ProcessCrash
  <2>1. ProcessTyped'
    BY <1>4, ForgetTyped DEF OpenThrows, OpenFails, Close, ProcessCrash
  <2>2. FilesTyped'
    BY <1>4 DEF OpenThrows, OpenFails, Close, ProcessCrash, FilesTyped, durable
  <2>3. HistoryTyped'
    BY <1>4 DEF OpenThrows, OpenFails, Close, ProcessCrash, CanFail, HistoryTyped
  <2> QED
    BY <2>1, <2>2, <2>3
<1>5. CASE CreateFile \/ TruncateFile
  BY <1>5 DEF CreateFile, TruncateFile, FilesTyped, ProcessTyped, HistoryTyped
<1>6. CASE Put \/ MultiPut
  <2>1. PICK o \in {"Put", "MultiPut"}, bs \in Seq(Blobs) : Begin(o, bs)
    BY <1>6, BeginsNonEmpty
  <2> QED
    BY <2>1 DEF Begin, FilesTyped, ProcessTyped, HistoryTyped, durable
<1>7. CASE CompressedSizeThrows \/ SwitchFails \/ SetLengthFails \/ WriteFails
  <2>1. PICK o \in {wo, base} : Finish(o)
    BY <1>7 DEF CompressedSizeThrows, SwitchFails, SetLengthFails, WriteFails
  <2>2. ProcessTyped'
    BY <2>1, FinishTyped DEF ProcessTyped
  <2>3. FilesTyped'
    BY <1>7 DEF CompressedSizeThrows, SwitchFails, SetLengthFails, WriteFails,
       FilesTyped, durable
  <2>4. HistoryTyped'
    BY <1>7 DEF CompressedSizeThrows, SwitchFails, SetLengthFails, WriteFails,
       CanFail, HistoryTyped
  <2> QED
    BY <2>2, <2>3, <2>4
<1>8. CASE CheckFit
  BY <1>8 DEF CheckFit, FilesTyped, ProcessTyped, HistoryTyped, durable
<1>9. CASE FlushFullFile \/ FlushBatch
  BY <1>9 DEF FlushFullFile, FlushBatch, Flushed, FilesTyped, ProcessTyped,
     HistoryTyped
<1>10. CASE GetNextDataFileInfo
  BY <1>10 DEF GetNextDataFileInfo, FilesTyped, ProcessTyped, HistoryTyped
<1>11. CASE MapNew
  BY <1>11 DEF MapNew, FilesTyped, ProcessTyped, HistoryTyped, durable
<1>12. CASE SetOldLength
  BY <1>12 DEF SetOldLength, FilesTyped, ProcessTyped, HistoryTyped
<1>13. CASE SwapFile
  BY <1>13 DEF SwapFile, FilesTyped, ProcessTyped, HistoryTyped, durable
<1>14. CASE PutInternal
  <2>1. NextBlob \in Blobs /\ Size[NextBlob] \in Nat
    BY <1>14, NextBlobInBlobs DEF PutInternal, Control
  <2>2. wo \in 0..MaxDataFileSize /\ wo' = wo + Size[NextBlob]
        /\ wo' <= MaxDataFileSize
    BY <1>14 DEF PutInternal, Control, ProcessTyped
  <2>3. [off |-> wo, blob |-> NextBlob] \in Extent
    BY <2>1, <2>2 DEF Extent
  <2>4. FilesTyped'
    BY <1>14, <2>3 DEF PutInternal, Overwrite, FilesTyped
  <2>5. metas' \in Seq(Metadata)
    BY <1>14, <2>1, <2>2 DEF PutInternal, ProcessTyped, Metadata
  <2> QED
    BY <1>14, <2>1, <2>2, <2>4, <2>5 DEF PutInternal, ProcessTyped, HistoryTyped
<1>15. CASE SetLength
  <2>1. wo \in 0..MaxDataFileSize /\ metas \in Seq(Metadata)
    BY DEF ProcessTyped
  <2>2. ProcessTyped'
    BY <1>15, <2>1, FinishTyped DEF SetLength
  <2>3. FilesTyped'
    BY <1>15, <2>1 DEF SetLength, FilesTyped
  <2>4. HistoryTyped'
    BY <1>15, <2>1 DEF SetLength, HistoryTyped
  <2> QED
    BY <2>2, <2>3, <2>4
<1>16. CASE PowerLoss
  BY <1>16, ForgetTyped DEF PowerLoss, FilesTyped, HistoryTyped
<1>17. CASE UNCHANGED vars
  BY <1>17 DEF FilesTyped, ProcessTyped, HistoryTyped, vars, durable, process
<1> QED
  BY <1>1, <1>2, <1>3, <1>4, <1>5, <1>6, <1>7, <1>8, <1>9, <1>10, <1>11, <1>12,
     <1>13, <1>14, <1>15, <1>16, <1>17 DEF Next

\* Every step keeps the invariant of the control flow.
LEMMA ControlStep == ControlInv /\ [Next]_vars => Control'
<1> SUFFICES ASSUME ControlInv, [Next]_vars PROVE Control'
  OBVIOUS
<1>t. TypeOK'
  BY TypeStep
<1> USE SizeAssumption, BoundAssumption
    DEF ControlInv, TypeOK, FilesTyped, ProcessTyped, Running, Switching, Guarded
<1>1. CASE Open
  <2>1. pc' \in {"create", "map"} /\ opening' /\ base' = 0
    BY <1>1 DEF Open, Control
  <2>4. rec'[target'] # NoRecord
    BY <1>1 DEF Open, IsLastFileKey, Unset, NoRecord, FileKeys
  <2>2. \A k \in FileKeys : rec'[k] = NoRecord => rec[k] = NoRecord
    BY <1>1 DEF Open
  <2>3. UNCHANGED <<data, disk, op, batch>>
    BY <1>1 DEF Open
  <2> QED
    BY <2>1, <2>2, <2>3, <2>4 DEF Control
<1>2. CASE MapCurrent
  BY <1>2, <1>t DEF MapCurrent, Control, Committed, durable, Unset, NoRecord
<1>3. CASE Load
  <2>1. pc' = "idle" /\ ~opening' /\ base' <= wo'
    BY <1>3 DEF Load, Control
  <2> QED
    BY <1>3, <2>1 DEF Load, Control, Committed, durable
<1>4. CASE OpenThrows \/ OpenFails \/ Close \/ ProcessCrash
  BY <1>4, <1>t DEF OpenThrows, OpenFails, Close, ProcessCrash, Forget, Control, durable
<1>5. CASE CreateFile \/ TruncateFile
  BY <1>5, <1>t DEF CreateFile, TruncateFile, Control, Committed, Unset, NoRecord
<1>6. CASE Put \/ MultiPut
  <2>1. PICK o \in {"Put", "MultiPut"}, bs \in Seq(Blobs) :
                Begin(o, bs) /\ Len(bs) > 0 /\ (o = "Put" => Len(bs) = 1)
    BY <1>6, BeginsNonEmpty
  <2>2. pc' = "next" /\ ~opening' /\ base' = wo /\ batch' = bs /\ metas' = <<>>
    BY <2>1 DEF Begin, Control
  <2>4. op' = "Put" => Len(batch') = 1
    <3>1. op' = o /\ batch' = bs
      BY <2>1 DEF Begin
    <3> QED
      BY <2>1, <3>1
  <2>3. Len(metas') < Len(batch')
    BY <2>1, <2>2
  <2> QED
    BY <2>1, <2>2, <2>3, <2>4 DEF Begin, Control, Committed, durable
<1>7. CASE CompressedSizeThrows \/ SwitchFails \/ SetLengthFails \/ WriteFails
  BY <1>7, <1>t DEF CompressedSizeThrows, SwitchFails, SetLengthFails, WriteFails,
     Finish, Control, Committed, durable
<1>8. CASE CheckFit
  <2>1. pc = "next" /\ pc' \in {"write", "flushFull", "record"}
    BY <1>8 DEF CheckFit
  <2>2. UNCHANGED <<rec, file, data, disk, opening, target, cur, wo, base, op, batch, metas>>
    BY <1>8 DEF CheckFit, durable
  <2>3. pc' = "write" => wo + Size[NextBlob] <= MaxDataFileSize
    <3>1. Len(metas) < Len(batch)
      BY <2>1 DEF Control
    <3>2. PICK e \in Nat, s \in Nat : e = Estimate[NextBlob] /\ s = Size[NextBlob] /\ s <= e
      BY <3>1, NextBlobInBlobs
    <3>3. pc' = "write" => e + wo <= MaxDataFileSize
      BY <1>8, <3>2 DEF CheckFit, Fits
    <3> QED
      BY <3>2, <3>3
  <2>4. NextBlob' = NextBlob
    BY <2>2 DEF NextBlob
  <2> QED
    BY <2>1, <2>2, <2>3, <2>4 DEF Control, Committed
<1>9. CASE FlushFullFile \/ FlushBatch
  <2>1. \A k \in FileKeys : disk'[k] \subseteq data'[k]
    <3>1. data' = data /\ Flushed
      BY <1>9 DEF FlushFullFile, FlushBatch
    <3>2. disk' = [disk EXCEPT ![cur] = @ \cup {e \in data[cur] : base <= e.off /\ e.off < wo}]
      BY <3>1 DEF Flushed
    <3>3. \A k \in FileKeys : disk'[k] \subseteq disk[k] \cup data[k]
      BY <3>2
    <3> QED
      BY <3>1, <3>3 DEF Control
  <2>2. UNCHANGED <<rec, file, data, opening, target, cur, wo, base, op, batch, metas>>
    BY <1>9 DEF FlushFullFile, FlushBatch
  <2>3. \/ pc = "flushFull" /\ pc' = "record"
        \/ pc = "flush" /\ pc' = "length"
    BY <1>9 DEF FlushFullFile, FlushBatch
  <2> QED
    BY <2>1, <2>2, <2>3 DEF Control, Committed
<1>10. CASE GetNextDataFileInfo
  <2>1. PICK k \in FileKeys : AddFileRecord(k) /\ target' = k
    BY <1>10 DEF GetNextDataFileInfo
  <2>2. rec[k] = NoRecord /\ rec' = [rec EXCEPT ![k] = Unset]
    BY <2>1 DEF AddFileRecord
  <2>3. /\ pc = "record" /\ pc' = "create"
        /\ UNCHANGED <<file, data, disk, opening, cur, wo, base, op, batch, metas>>
    BY <1>10 DEF GetNextDataFileInfo
  <2>4. rec[cur] # NoRecord /\ rec'[cur] = rec[cur] /\ k # cur /\ data[k] = {}
    BY <2>2, <2>3 DEF Control
  <2> QED
    BY <2>1, <2>2, <2>3, <2>4 DEF Control, Committed, Unset, NoRecord
<1>11. CASE MapNew
  BY <1>11, <1>t DEF MapNew, Control, Committed, durable
<1>12. CASE SetOldLength
  BY <1>12, <1>t DEF SetOldLength, Control, Committed, Unset, NoRecord
<1>13. CASE SwapFile
  <2>1. Len(metas) < Len(batch) /\ rec[target] = Unset /\ file[target] = "allocated"
    BY <1>13 DEF SwapFile, Control
  <2>2. NextBlob' = NextBlob /\ Size[NextBlob] \in 1..MaxDataFileSize
    BY <1>13, <2>1, NextBlobInBlobs DEF SwapFile, NextBlob
  <2>3. pc' = "write" /\ ~opening' /\ cur' = target /\ wo' = 0 /\ base' = 0
    BY <1>13 DEF SwapFile, Control
  <2>4. UNCHANGED <<rec, file, data, disk, op, batch, metas>>
    BY <1>13 DEF SwapFile, durable
  <2> QED
    BY <2>1, <2>2, <2>3, <2>4 DEF Control, Committed, Unset, NoRecord
<1>14. CASE PutInternal
  <2>1. /\ Len(metas) < Len(batch)
        /\ NextBlob \in Blobs /\ Size[NextBlob] \in 1..MaxDataFileSize
    BY <1>14, NextBlobInBlobs DEF PutInternal, Control
  <2>2. ~opening' /\ wo' = wo + Size[NextBlob]
    BY <1>14 DEF PutInternal, Control
  <2>6. pc' = "flush" \/ (pc' = "next" /\ Len(metas') < Len(batch'))
    <3>1. Len(metas') = Len(metas) + 1 /\ batch' = batch
      BY <1>14, <2>1 DEF PutInternal
    <3>2. Len(metas) \in Nat /\ Len(batch) \in Nat
      OBVIOUS
    <3> QED
      BY <1>14, <2>1, <3>1, <3>2 DEF PutInternal
  <2>3. \A k \in FileKeys : disk'[k] \subseteq data'[k]
    BY <1>14 DEF PutInternal, Overwrite, Control
  <2>4. \A k \in FileKeys : rec[k] = NoRecord => data'[k] = {}
    BY <1>14 DEF PutInternal, Control
  <2>5. UNCHANGED <<rec, file, cur, base, target, op, batch>>
    BY <1>14 DEF PutInternal
  <2> QED
    <3>1. Committed(cur)' = Committed(cur) /\ Committed(cur) \in Nat
      BY <2>5, CommittedTyped DEF Committed
    <3>2. /\ pc = "write" /\ Running /\ Running'
          /\ Committed(cur)' <= base' /\ Committed(cur)' <= wo' /\ base' <= wo'
      BY <1>14, <2>1, <2>2, <2>5, <2>6, <3>1 DEF PutInternal, Control
    <3> QED
      BY <2>2, <2>3, <2>4, <2>5, <2>6, <3>2 DEF Control
<1>15. CASE SetLength
  BY <1>15, <1>t DEF SetLength, Finish, Control, Committed, Unset, NoRecord
<1>16. CASE PowerLoss
  BY <1>16, <1>t DEF PowerLoss, Forget, Control
<1>17. CASE UNCHANGED vars
  BY <1>17 DEF Control, Committed, NextBlob, vars, durable, process
<1> QED
  BY <1>1, <1>2, <1>3, <1>4, <1>5, <1>6, <1>7, <1>8, <1>9, <1>10, <1>11, <1>12,
     <1>13, <1>14, <1>15, <1>16, <1>17 DEF Next

-----------------------------------------------------------------------------
(* What a step does to what was stored before it. *)

\* A committed length never shrinks.
LEMMA CommittedGrows ==
    ASSUME ControlInv, [Next]_vars, NEW k \in FileKeys
    PROVE  Committed(k) <= Committed(k)'
<1> USE DEF Committed, Unset, NoRecord
<1>1. rec[k] \in {NoRecord, Unset} \cup 0..MaxDataFileSize
  BY DEF ControlInv, TypeOK, FilesTyped
<1>2. CASE UNCHANGED rec
  BY <1>1, <1>2, SizeAssumption
<1>3. CASE Open \/ GetNextDataFileInfo
  BY <1>1, <1>3, SizeAssumption DEF Open, GetNextDataFileInfo, ControlInv, TypeOK, FilesTyped
<1>4. CASE SetOldLength \/ SetLength
  <2>1. rec' = [rec EXCEPT ![cur] = wo] /\ Committed(cur) <= wo
    BY <1>4 DEF SetOldLength, SetLength, ControlInv, Control, Running
  <2>2. wo \in Nat
    BY SizeAssumption DEF ControlInv, TypeOK, ProcessTyped
  <2> QED
    BY <1>1, <2>1, <2>2, SizeAssumption DEF ControlInv, TypeOK, FilesTyped
<1>5. CASE UNCHANGED vars
  BY <1>2, <1>5 DEF vars, durable
<1> QED
  BY <1>2, <1>3, <1>4, <1>5 DEF Next, durable, Put, MultiPut, Begin, MapCurrent, Load,
     OpenThrows, OpenFails, CreateFile, TruncateFile, CompressedSizeThrows, CheckFit,
     FlushFullFile, MapNew, SwapFile, SwitchFails, PutInternal, FlushBatch, WriteFails,
     SetLengthFails, Close, ProcessCrash, PowerLoss

\* What is on disk stays there unless a write overwrites it, and stays readable.
LEMMA ExtentsKept ==
    ASSUME ControlInv, [Next]_vars, NEW k \in FileKeys, NEW e \in data[k],
           e \in disk[k] \/ ~PowerLoss,
           ~(PutInternal /\ k = cur /\ wo < End(e))
    PROVE  e \in data'[k] /\ (e \in disk[k] => e \in disk'[k])
<1>1. CASE UNCHANGED <<data, disk>>
  BY <1>1
<1>2. CASE FlushFullFile \/ FlushBatch
  BY <1>2 DEF FlushFullFile, FlushBatch, Flushed, ControlInv, TypeOK, FilesTyped
<1>3. CASE PutInternal
  <2>1. k # cur \/ ~(wo < End(e))
    BY <1>3
  <2>2. e \in Extent /\ wo \in Nat
    BY SizeAssumption DEF ControlInv, TypeOK, FilesTyped, ProcessTyped
  <2>3. e.off \in Nat /\ Size[e.blob] \in Nat /\ End(e) \in Nat
    BY <2>2, SizeAssumption DEF Extent, End
  <2>4. k = cur => End(e) <= wo
    BY <2>1, <2>2, <2>3
  <2> QED
    BY <1>3, <2>4 DEF PutInternal, Overwrite, ControlInv, TypeOK, FilesTyped
<1>4. CASE PowerLoss
  BY <1>4 DEF PowerLoss
<1>5. CASE UNCHANGED vars
  BY <1>1, <1>5 DEF vars, durable
<1> QED
  BY <1>1, <1>2, <1>3, <1>4, <1>5 DEF Next, durable, Open, Put, MultiPut, Begin,
     MapCurrent, Load, OpenThrows, OpenFails, CreateFile, TruncateFile,
     CompressedSizeThrows, CheckFit, GetNextDataFileInfo, MapNew, SetOldLength, SwapFile,
     SwitchFails, WriteFails, SetLength, SetLengthFails, Close, ProcessCrash

\* A file once allocated stays allocated; a power loss may take it away only if
\* nothing of it was ever flushed.
LEMMA AllocatedKept ==
    ASSUME ControlInv, [Next]_vars, NEW k \in FileKeys, file[k] = "allocated",
           disk[k] # {} \/ ~PowerLoss
    PROVE  file'[k] = "allocated"
<1>1. CASE UNCHANGED file
  BY <1>1
<1>2. CASE CreateFile \/ TruncateFile
  BY <1>2 DEF CreateFile, TruncateFile, ControlInv, TypeOK, FilesTyped
<1>3. CASE PowerLoss
  BY <1>3 DEF PowerLoss, Survives
<1>4. CASE UNCHANGED vars
  BY <1>1, <1>4 DEF vars, durable
<1> QED
  BY <1>1, <1>2, <1>3, <1>4 DEF Next, durable, Open, Put, MultiPut, Begin, MapCurrent,
     Load, OpenThrows, OpenFails, CompressedSizeThrows, CheckFit, FlushFullFile,
     GetNextDataFileInfo, MapNew, SetOldLength, SwapFile, SwitchFails, PutInternal,
     FlushBatch, WriteFails, SetLength, SetLengthFails, Close, ProcessCrash

\* A blob that is stored stays stored, whatever the step.
LEMMA StoredKept ==
    ASSUME ControlInv, [Next]_vars, NEW m \in Metadata, Stored(m)
    PROVE  Stored(m)'
<1> DEFINE e == [off |-> m.off, blob |-> m.blob]
<1>1. /\ m.key \in FileKeys
      /\ e \in data[m.key] /\ e \in disk[m.key]
      /\ file[m.key] = "allocated" /\ End(e) <= Committed(m.key)
  BY DEF Stored, Metadata
<1>2. Committed(m.key) \in Nat /\ Committed(m.key)' \in Nat /\ End(e) \in Nat
  <2>1. TypeOK'
    BY TypeStep
  <2>2. Committed(m.key) \in Nat
    BY <1>1, CommittedTyped, SizeAssumption DEF ControlInv
  <2>3. Committed(m.key)' \in Nat
    <3>1. rec'[m.key] \in {NoRecord, Unset} \cup 0..MaxDataFileSize
      BY <1>1, <2>1 DEF TypeOK, FilesTyped
    <3> QED
      BY <3>1, SizeAssumption DEF Committed, NoRecord, Unset
  <2> QED
    BY <2>2, <2>3, SizeAssumption DEF End, Metadata
<1>3. ~(PutInternal /\ m.key = cur /\ wo < End(e))
  <2>1. PutInternal => Committed(cur) <= wo
    BY DEF PutInternal, ControlInv, Control, Running
  <2>2. wo \in Nat
    BY SizeAssumption DEF ControlInv, TypeOK, ProcessTyped
  <2> QED
    BY <1>1, <1>2, <2>1, <2>2
<1>4. e \in data'[m.key] /\ e \in disk'[m.key]
  BY <1>1, <1>3, ExtentsKept
<1>5. Committed(m.key) <= Committed(m.key)'
  BY <1>1, CommittedGrows
<1>6. file'[m.key] = "allocated"
  BY <1>1, AllocatedKept
<1> QED
  BY <1>1, <1>2, <1>4, <1>5, <1>6 DEF Stored, End

-----------------------------------------------------------------------------
(* The blobs of the batch under way, and those acknowledged. *)

AcknowledgedInv == ControlInv /\ Acknowledged

\* Nothing is acknowledged or written in the initial state.
LEMMA AcknowledgedInit == Init => Acknowledged
  BY DEF Init, Acknowledged, AckedDurable, Running

\* Steps inside an operation that leave its batch and its file as they are.
InnerStep == \/ CheckFit \/ FlushFullFile \/ GetNextDataFileInfo \/ CreateFile
             \/ TruncateFile \/ MapNew \/ SetOldLength \/ FlushBatch

\* A step that acknowledges nothing new keeps what has been acknowledged.
LEMMA AckedKept ==
    ASSUME AcknowledgedInv, [Next]_vars, acked' = acked
    PROVE  AckedDurable'
<1> SUFFICES ASSUME NEW i \in DOMAIN acked PROVE Stored(acked[i])'
  BY DEF AckedDurable, Stored, End, Committed
<1>1. acked[i] \in Metadata
  BY DEF AcknowledgedInv, ControlInv, TypeOK, HistoryTyped
<1>2. Stored(acked[i])
  BY DEF AcknowledgedInv, Acknowledged, AckedDurable
<1>3. \A m \in Metadata : Stored(m) => Stored(m)'
  BY StoredKept DEF AcknowledgedInv
<1> QED
  BY <1>1, <1>2, <1>3 DEF Stored, End, Committed

\* A blob of the batch stays where it was written.  Before the current file is
\* left or the batch is over a flush has put it on disk; a Put has written
\* nothing when it finds that it needs another file.
LEMMA WrittenKept ==
    ASSUME ControlInv, Running, InnerStep, NEW m \in Metadata, WrittenHere(m),
           metas # <<>>
    PROVE  WrittenHere(m)'
<1> DEFINE e == [off |-> m.off, blob |-> m.blob]
<1>1. /\ m.key = cur /\ cur \in FileKeys
      /\ e \in data[cur] /\ base <= m.off /\ End(e) <= wo
      /\ Switching \/ pc \in {"record", "length"} => e \in disk[cur]
  BY DEF WrittenHere, Metadata
<1>2. UNCHANGED <<cur, wo, base, data, opening>>
  BY DEF InnerStep, CheckFit, FlushFullFile, GetNextDataFileInfo, CreateFile, TruncateFile,
     MapNew, SetOldLength, FlushBatch, durable
<1>3. e.off < wo
  BY <1>1, SizeAssumption DEF End, Metadata, ControlInv, TypeOK, ProcessTyped
<1>4. Switching' \/ pc' \in {"record", "length"} => e \in disk'[cur]
  <2>1. CASE FlushFullFile \/ FlushBatch
    BY <1>1, <1>3, <2>1 DEF FlushFullFile, FlushBatch, Flushed, ControlInv, TypeOK,
       FilesTyped
  <2>2. CASE CheckFit
    <3>1. pc' # "record"
      <4>1. Len(metas) < Len(batch) /\ metas \in Seq(Metadata) /\ pc = "next"
        BY <2>2 DEF CheckFit, ControlInv, Control, TypeOK, ProcessTyped
      <4>2. Len(metas) > 0
        BY <4>1
      <4>3. op = "Put" => Len(batch) = 1
        BY DEF ControlInv, Control
      <4>4. op # "Put"
        BY <4>1, <4>2, <4>3 DEF ControlInv, TypeOK, ProcessTyped
      <4>5. op # "none"
        BY <4>1 DEF ControlInv, Control
      <4>6. op = "MultiPut"
        BY <4>4, <4>5 DEF ControlInv, TypeOK, ProcessTyped
      <4> QED
        BY <2>2, <4>6 DEF CheckFit
    <3> QED
      BY <2>2, <3>1 DEF CheckFit, Switching
  <2>3. CASE GetNextDataFileInfo \/ CreateFile \/ TruncateFile \/ MapNew \/ SetOldLength
    <3>1. Switching \/ pc = "record"
      BY <2>3 DEF GetNextDataFileInfo, CreateFile, TruncateFile, MapNew, SetOldLength,
         Switching, Running
    <3>2. UNCHANGED disk
      BY <2>3 DEF GetNextDataFileInfo, CreateFile, TruncateFile, MapNew, SetOldLength, durable
    <3> QED
      BY <1>1, <3>1, <3>2
  <2> QED
    BY <2>1, <2>2, <2>3 DEF InnerStep
<1> QED
  BY <1>1, <1>2, <1>4 DEF WrittenHere, End

\* When SwapFile leaves the file, its length has been set.
LEMMA WrittenStored ==
    ASSUME ControlInv, SwapFile \/ SetLength, NEW m \in Metadata, WrittenHere(m)
    PROVE  Stored(m)'
<1> DEFINE e == [off |-> m.off, blob |-> m.blob]
<1>1. /\ m.key = cur /\ cur \in FileKeys
      /\ e \in data[cur] /\ e \in disk[cur] /\ End(e) <= wo
  BY DEF WrittenHere, Metadata, SwapFile, SetLength, Switching, ControlInv, Control
<1>2. file[cur] = "allocated" /\ wo \in Nat
  BY SizeAssumption
  DEF SwapFile, SetLength, ControlInv, Control, Running, TypeOK, ProcessTyped
<1>3. rec'[cur] = wo
  BY DEF SwapFile, SetLength, ControlInv, Control, durable, TypeOK, FilesTyped,
     ProcessTyped
<1>4. UNCHANGED <<file, data, disk>>
  BY DEF SwapFile, SetLength, durable
<1> QED
  BY <1>1, <1>2, <1>3, <1>4 DEF Stored, End, Committed

\* Every step keeps what is acknowledged, and accounts for what the batch under
\* way has written: it is stored, about to be, or rolled back with the batch.
LEMMA AcknowledgedStep == AcknowledgedInv /\ [Next]_vars => Acknowledged'
<1> SUFFICES ASSUME AcknowledgedInv, [Next]_vars PROVE Acknowledged'
  OBVIOUS
<1>c. ControlInv /\ ControlInv'
  BY TypeStep, ControlStep DEF AcknowledgedInv, ControlInv
<1>t. /\ metas \in Seq(Metadata) /\ metas' \in Seq(Metadata)
      /\ acked \in Seq(Metadata)
  BY <1>c DEF ControlInv, TypeOK, ProcessTyped, HistoryTyped
<1>m. /\ \A i \in DOMAIN metas : Stored(metas[i]) \/ WrittenHere(metas[i])
      /\ ~Running => metas = <<>>
  BY DEF AcknowledgedInv, Acknowledged
<1>k. \A m \in Metadata : Stored(m) => Stored(m)'
  BY <1>c, StoredKept
<1>1. CASE metas' = <<>> /\ acked' = acked
  <2>1. AckedDurable'
    BY <1>1, AckedKept
  <2> QED
    BY <1>1, <2>1 DEF Acknowledged
<1>2. CASE SetLength
  <2>1. \A m \in Metadata : WrittenHere(m) => Stored(m)'
    BY <1>2, <1>c, WrittenStored
  <2>2. acked' = acked \o metas /\ metas' = <<>>
    BY <1>2 DEF SetLength, Finish
  <2>3. \A i \in DOMAIN acked : Stored(acked[i])
    BY DEF AcknowledgedInv, Acknowledged, AckedDurable
  <2>4. ASSUME NEW i \in DOMAIN acked' PROVE Stored(acked[i])'
    <3>1. PICK m \in Metadata : m = acked'[i] /\ (Stored(m) \/ WrittenHere(m))
      <4>1. CASE i \in DOMAIN acked
        BY <1>t, <2>2, <2>3, <4>1
      <4>2. CASE i \notin DOMAIN acked
        <5>1. i - Len(acked) \in DOMAIN metas /\ acked'[i] = metas[i - Len(acked)]
          BY <1>t, <2>2, <4>2
        <5> QED
          BY <1>t, <1>m, <5>1
      <4> QED
        BY <4>1, <4>2
    <3>2. Stored(m)'
      BY <1>k, <2>1, <3>1
    <3> QED
      BY <3>1, <3>2 DEF Stored, End, Committed
  <2>5. AckedDurable'
    BY <2>4 DEF AckedDurable
  <2> QED
    BY <2>2, <2>5 DEF Acknowledged
<1>3. CASE Running /\ InnerStep
  <2>1. UNCHANGED <<metas, acked>> /\ Running'
    BY <1>3 DEF InnerStep, CheckFit, FlushFullFile, GetNextDataFileInfo, CreateFile,
       TruncateFile, MapNew, SetOldLength, FlushBatch, Running
  <2>2. ASSUME NEW i \in DOMAIN metas'
        PROVE  Stored(metas[i])' \/ WrittenHere(metas[i])'
    <3>1. PICK m \in Metadata : m = metas[i] /\ (Stored(m) \/ WrittenHere(m))
      BY <1>t, <1>m, <2>1
    <3>2. metas # <<>>
      BY <2>1
    <3>3. Stored(m)' \/ WrittenHere(m)'
      BY <1>3, <1>c, <1>k, <3>1, <3>2, WrittenKept
    <3> QED
      BY <2>1, <3>1, <3>3 DEF Stored, WrittenHere, End, Committed
  <2> QED
    BY <2>1, <2>2, AckedKept DEF Acknowledged
<1>4. CASE SwapFile
  <2>1. UNCHANGED <<metas, acked>> /\ Running'
    BY <1>4, <1>c DEF SwapFile, Running, ControlInv, Control
  <2>2. ASSUME NEW i \in DOMAIN metas'
        PROVE  Stored(metas[i])' \/ WrittenHere(metas[i])'
    <3>1. PICK m \in Metadata : m = metas[i] /\ (Stored(m) \/ WrittenHere(m))
      BY <1>t, <1>m, <2>1
    <3>2. Stored(m)'
      BY <1>4, <1>c, <1>k, <3>1, WrittenStored
    <3> QED
      BY <2>1, <3>1, <3>2 DEF Stored, End, Committed
  <2> QED
    BY <2>1, <2>2, AckedKept DEF Acknowledged
<1>5. CASE PutInternal
  <2>1. acked' = acked /\ Running' /\ Running
    BY <1>5, <1>c DEF PutInternal, Running, ControlInv, Control
  <2>2. /\ Len(metas) < Len(batch)
        /\ NextBlob \in Blobs /\ Size[NextBlob] \in 1..MaxDataFileSize
    BY <1>5, <1>c, NextBlobInBlobs DEF PutInternal, ControlInv, Control
  <2>8. [key |-> cur, off |-> wo, blob |-> NextBlob] \in Metadata
    BY <1>c, <2>2 DEF Metadata, ControlInv, TypeOK, ProcessTyped
  <2>9. PICK new \in Metadata : new = [key |-> cur, off |-> wo, blob |-> NextBlob]
    BY <2>8
  <2>3. metas' = Append(metas, new) /\ wo' = wo + Size[NextBlob]
    BY <1>5, <2>9 DEF PutInternal
  <2>4. /\ cur' = cur /\ base' = base /\ base <= wo /\ pc' \in {"flush", "next"}
        /\ cur \in FileKeys /\ wo \in Nat /\ base \in Nat
    BY <1>5, <1>c, SizeAssumption
    DEF PutInternal, ControlInv, Control, TypeOK, ProcessTyped, Running
  <2>5. ASSUME NEW m \in Metadata, WrittenHere(m) PROVE WrittenHere(m)'
    <3> DEFINE e == [off |-> m.off, blob |-> m.blob]
    <3>1. m.key = cur /\ e \in data[cur] /\ base <= m.off /\ End(e) <= wo
      BY <2>5 DEF WrittenHere
    <3>2. End(e) \in Nat
      BY SizeAssumption DEF End, Metadata
    <3>3. ~(wo < End(e)) /\ ~PowerLoss
      BY <1>5, <2>4, <3>1, <3>2 DEF PutInternal, PowerLoss, Forget
    <3>4. e \in data'[cur]
      BY <1>c, <2>4, <3>1, <3>3, ExtentsKept
    <3>5. End(e) <= wo'
      BY <2>2, <2>3, <2>4, <3>1, <3>2
    <3> QED
      BY <2>4, <3>1, <3>4, <3>5 DEF WrittenHere, End, Switching
  <2>6. WrittenHere(new)'
    <3>1. [off |-> wo, blob |-> NextBlob] \in data'[cur]
      BY <1>5, <1>c, <2>4 DEF PutInternal, ControlInv, TypeOK, FilesTyped
    <3>2. base' <= wo /\ wo + Size[NextBlob] <= wo'
      BY <2>2, <2>3, <2>4
    <3>3. new.key = cur /\ new.off = wo /\ new.blob = NextBlob
      BY <2>9
    <3> QED
      BY <2>4, <3>1, <3>2, <3>3 DEF WrittenHere, End, Switching
  <2>7. ASSUME NEW i \in DOMAIN metas'
        PROVE  Stored(metas[i])' \/ WrittenHere(metas[i])'
    <3>1. CASE i \in DOMAIN metas
      <4>1. PICK m \in Metadata : m = metas'[i] /\ (Stored(m) \/ WrittenHere(m))
        BY <1>t, <1>m, <2>3, <3>1
      <4>2. Stored(m)' \/ WrittenHere(m)'
        BY <1>k, <2>5, <4>1
      <4> QED
        BY <4>1, <4>2 DEF Stored, WrittenHere, End, Committed
    <3>2. CASE i \notin DOMAIN metas
      <4>1. metas'[i] = new
        BY <1>t, <2>3, <3>2
      <4> QED
        BY <2>6, <4>1 DEF WrittenHere, End
    <3> QED
      BY <3>1, <3>2
  <2> QED
    BY <2>1, <2>7, AckedKept DEF Acknowledged
<1>6. CASE UNCHANGED vars
  BY <1>6 DEF AcknowledgedInv, Acknowledged, AckedDurable, Stored, WrittenHere, End,
     Committed, Running, Switching, vars, durable, process
<1>7. CASE \/ Open \/ MapCurrent \/ Load
           \/ (CreateFile \/ TruncateFile) /\ ~Running
  BY <1>1, <1>7, <1>m DEF Open, MapCurrent, Load, CreateFile, TruncateFile, Running,
     AcknowledgedInv, ControlInv, Control
<1>8. CASE \/ OpenThrows \/ OpenFails \/ Put \/ MultiPut \/ CompressedSizeThrows
           \/ SwitchFails \/ WriteFails \/ SetLengthFails \/ Close
           \/ ProcessCrash \/ PowerLoss
  BY <1>1, <1>8 DEF OpenThrows, OpenFails, Forget, Put, MultiPut, Begin,
     CompressedSizeThrows, SwitchFails, WriteFails, SetLengthFails, Finish, Close,
     ProcessCrash, PowerLoss
<1>9. InnerStep => Running \/ CreateFile \/ TruncateFile
  BY <1>c DEF InnerStep, CheckFit, FlushFullFile, GetNextDataFileInfo, MapNew, SetOldLength,
     FlushBatch, Running, ControlInv, Control
<1> QED
  BY <1>2, <1>3, <1>4, <1>5, <1>6, <1>7, <1>8, <1>9 DEF Next, InnerStep

\* Type correctness: in particular the write offset never leaves the mapping.
THEOREM TypeCorrect == Spec => []TypeOK
<1>1. Init => ControlInv
  BY ControlInit
<1>2. ControlInv /\ [Next]_vars => ControlInv'
  BY TypeStep, ControlStep DEF ControlInv
<1>3. ControlInv => TypeOK
  BY DEF ControlInv
<1> QED
  BY <1>1, <1>2, <1>3, PTL DEF Spec

\* What is acknowledged is stored, and what the batch under way has written is
\* stored or about to be, in every reachable state.
LEMMA AcknowledgedInvariant == Spec => []AcknowledgedInv
<1>1. Init => AcknowledgedInv
  BY ControlInit, AcknowledgedInit DEF AcknowledgedInv
<1>2. AcknowledgedInv /\ [Next]_vars => AcknowledgedInv'
  BY TypeStep, ControlStep, AcknowledgedStep DEF AcknowledgedInv, ControlInv
<1> QED
  BY <1>1, <1>2, PTL DEF Spec

\* A blob whose Put or MultiPut returned can be read at the metadata it was
\* given for ever: whatever fails, crashes or is written later, it is in its
\* file, on stable storage, below the committed length (blob_manager.cc:173-259).
THEOREM AcknowledgedBlobsAreDurable == Spec => []AckedDurable
<1>1. AcknowledgedInv => AckedDurable
  BY DEF AcknowledgedInv, Acknowledged
<1> QED
  BY <1>1, AcknowledgedInvariant, PTL

-----------------------------------------------------------------------------
(* Extents that tile a prefix of a file. *)

\* The bounds of an extent are offsets, and it is not empty.
LEMMA EndTyped == ASSUME NEW e \in Extent
                  PROVE  e.off \in Nat /\ Size[e.blob] \in Nat \ {0} /\ End(e) \in Nat
                         /\ e.off < End(e)
<1>1. e.off \in Nat /\ e.blob \in Blobs
  BY SizeAssumption DEF Extent
<1>2. Size[e.blob] \in 1..MaxDataFileSize
  BY <1>1, SizeAssumption
<1> QED
  BY <1>1, <1>2, SizeAssumption DEF End

\* Writing at or beyond the end of a tiled prefix leaves it tiled.
LEMMA TilesKept ==
    ASSUME NEW E \in SUBSET Extent, NEW o \in Nat, NEW b \in Blobs,
           NEW n \in Nat, n <= o, Tiles(E, n), [off |-> o, blob |-> b] \in Extent
    PROVE  Tiles(Overwrite(E, o, b) \cup {[off |-> o, blob |-> b]}, n)
<1> DEFINE new == [off |-> o, blob |-> b]
           F == Overwrite(E, o, b) \cup {new}
<1>1. Size[b] \in Nat /\ new.off = o /\ End(new) = o + Size[b]
  BY SizeAssumption DEF End
<1>2. ASSUME NEW p \in 0..(n - 1) PROVE \E e \in F : e.off <= p /\ p < End(e)
  <2>1. PICK e \in E : e.off <= p /\ p < End(e)
    BY DEF Tiles
  <2>2. End(e) <= o
    BY <2>1, EndTyped DEF Tiles
  <2> QED
    BY <2>1, <2>2 DEF Overwrite
<1>3. \A e \in F : e.off < n => End(e) <= n
  BY <1>1 DEF Tiles, Overwrite
<1>4. \A e, f \in F : e = f \/ End(e) <= f.off \/ End(f) <= e.off
  BY <1>1 DEF Tiles, Overwrite
<1> QED
  BY <1>2, <1>3, <1>4 DEF Tiles

\* Writing a blob right behind a tiled prefix extends it by the blob.
LEMMA TilesExtended ==
    ASSUME NEW E \in SUBSET Extent, NEW o \in Nat, NEW b \in Blobs, Tiles(E, o),
           [off |-> o, blob |-> b] \in Extent
    PROVE  Tiles(Overwrite(E, o, b) \cup {[off |-> o, blob |-> b]}, o + Size[b])
<1> DEFINE new == [off |-> o, blob |-> b]
           F == Overwrite(E, o, b) \cup {new}
<1>1. Size[b] \in Nat /\ new.off = o /\ End(new) = o + Size[b]
  BY SizeAssumption DEF End
<1>0. PICK n \in Nat : n = o + Size[b]
  BY <1>1
<1>2. Tiles(F, o)
  BY TilesKept
<1>3. ASSUME NEW p \in 0..(n - 1) PROVE \E e \in F : e.off <= p /\ p < End(e)
  <2>1. CASE p < o
    BY <1>2, <2>1 DEF Tiles
  <2>2. CASE o <= p
    <3>1. new \in F /\ new.off <= p /\ p < End(new)
      BY <1>0, <1>1, <2>2
    <3> QED
      BY <3>1
  <2> QED
    BY <2>1, <2>2, <1>0, <1>1
<1>4. ASSUME NEW e \in F, e.off < n PROVE End(e) <= n
  <2>1. CASE e = new
    BY <1>0, <1>1, <2>1
  <2>2. CASE e # new
    <3>1. e \in E /\ (End(e) <= o \/ o + Size[b] <= e.off)
      BY <2>2 DEF Overwrite
    <3>2. End(e) <= o
      BY <1>0, <1>1, <1>4, <3>1, EndTyped
    <3> QED
      BY <1>0, <1>1, <3>1, <3>2, EndTyped
  <2> QED
    BY <2>1, <2>2
<1>5. \A e, f \in F : e = f \/ End(e) <= f.off \/ End(f) <= e.off
  BY <1>2 DEF Tiles
<1> HIDE DEF F
<1>6. Tiles(F, n)
  BY <1>3, <1>4, <1>5 DEF Tiles
<1> QED
  BY <1>0, <1>6 DEF F

\* Losing extents that lie behind a tiled prefix leaves it tiled.
LEMMA TilesSubset ==
    ASSUME NEW E \in SUBSET Extent, NEW F \in SUBSET E, NEW n \in Nat, Tiles(E, n),
           \A e \in E : e.off < n => e \in F
    PROVE  Tiles(F, n)
<1>1. ASSUME NEW p \in 0..(n - 1) PROVE \E e \in F : e.off <= p /\ p < End(e)
  <2>1. PICK e \in E : e.off <= p /\ p < End(e)
    BY DEF Tiles
  <2>2. e.off < n
    BY <2>1, EndTyped
  <2> QED
    BY <2>1, <2>2
<1> QED
  BY <1>1 DEF Tiles

\* An empty file is tiled up to 0.
LEMMA TilesNothing == Tiles({}, 0)
  BY DEF Tiles

-----------------------------------------------------------------------------
(* How the files are cut into blobs, as long as no blob is refused. *)

LayoutInv == ControlInv /\ Layout

\* Every file is empty in the initial state.
LEMMA LayoutInit == Init => Layout
<1> SUFFICES ASSUME Init PROVE Layout
  OBVIOUS
<1>1. \A k \in FileKeys : data[k] = {} /\ Committed(k) = 0
  BY DEF Init, Committed, NoRecord
<1>2. CommittedTiled /\ CommittedFlushed
  BY <1>1, TilesNothing DEF CommittedTiled, CommittedFlushed
<1> QED
  BY <1>2 DEF Init, Layout, Running, Guarded, Switching

\* Outside PutInternal and PowerLoss the extents stay, and what is flushed stays
\* flushed.
LEMMA FilesKept ==
    ASSUME ControlInv, [Next]_vars, ~PutInternal, ~PowerLoss, NEW k \in FileKeys
    PROVE  data'[k] = data[k] /\ disk[k] \subseteq disk'[k]
<1>1. UNCHANGED data
  BY DEF Next, vars, durable, Open, Put, MultiPut, Begin, MapCurrent, Load, OpenThrows,
     OpenFails, CreateFile, TruncateFile, CompressedSizeThrows, CheckFit, FlushFullFile,
     GetNextDataFileInfo, MapNew, SetOldLength, SwapFile, SwitchFails, FlushBatch, WriteFails,
     SetLength, SetLengthFails, Close, ProcessCrash
<1>2. ASSUME NEW e \in disk[k] PROVE e \in disk'[k]
  BY <1>2, ExtentsKept DEF ControlInv, Control
<1> QED
  BY <1>1, <1>2

\* The committed length moves only in the two steps that record the offset.
LEMMA CommittedMoves ==
    ASSUME ControlInv, [Next]_vars, NEW k \in FileKeys
    PROVE  \/ Committed(k)' = Committed(k)
           \/ (SetOldLength \/ SetLength) /\ k = cur /\ Committed(k)' = wo
<1> USE DEF Committed, Unset, NoRecord
<1>1. CASE UNCHANGED rec
  BY <1>1
<1>2. CASE Open \/ GetNextDataFileInfo
  BY <1>2 DEF Open, GetNextDataFileInfo, ControlInv, TypeOK, FilesTyped
<1>3. CASE SetOldLength \/ SetLength
  <2>1. rec' = [rec EXCEPT ![cur] = wo] /\ wo \in Nat
    BY <1>3, SizeAssumption DEF SetOldLength, SetLength, ControlInv, TypeOK, ProcessTyped
  <2> QED
    BY <1>3, <2>1 DEF ControlInv, TypeOK, FilesTyped
<1>4. CASE UNCHANGED vars
  BY <1>1, <1>4 DEF vars, durable
<1> QED
  BY <1>1, <1>2, <1>3, <1>4 DEF Next, durable, Put, MultiPut, Begin, MapCurrent, Load,
     OpenThrows, OpenFails, CreateFile, TruncateFile, CompressedSizeThrows, CheckFit,
     FlushFullFile, MapNew, SwapFile, SwitchFails, PutInternal, FlushBatch, WriteFails,
     SetLengthFails, Close, ProcessCrash, PowerLoss

\* PutInternal writes behind everything committed and behind the base offset.
LEMMA LayoutPut ==
    ASSUME LayoutInv, PutInternal
    PROVE  Layout'
<1>1. /\ Len(metas) < Len(batch)
      /\ NextBlob \in Blobs /\ Size[NextBlob] \in 1..MaxDataFileSize
  BY NextBlobInBlobs DEF PutInternal, LayoutInv, ControlInv, Control
<1>2. /\ cur \in FileKeys /\ wo \in Nat /\ base \in Nat /\ base <= wo
      /\ Committed(cur) \in Nat /\ Committed(cur) <= wo
      /\ Running /\ Guarded /\ [off |-> wo, blob |-> NextBlob] \in Extent
  BY <1>1, CommittedTyped, SizeAssumption
  DEF PutInternal, LayoutInv, ControlInv, Control, Running, Guarded, TypeOK, ProcessTyped,
      Extent
<1> DEFINE new == [off |-> wo, blob |-> NextBlob]
           E == data[cur]
           F == Overwrite(E, wo, NextBlob) \cup {new}
<1>3. /\ E \in SUBSET Extent
      /\ data' = [data EXCEPT ![cur] = F]
      /\ disk' = [disk EXCEPT ![cur] = Overwrite(@, wo, NextBlob)]
      /\ data'[cur] = F /\ disk'[cur] = Overwrite(disk[cur], wo, NextBlob)
      /\ \A k \in FileKeys \ {cur} : data'[k] = data[k] /\ disk'[k] = disk[k]
  BY <1>2 DEF PutInternal, LayoutInv, ControlInv, TypeOK, FilesTyped
<1>4. UNCHANGED <<rec, cur, base, op, opening>> /\ wo' = wo + Size[NextBlob]
  BY DEF PutInternal
<1>5. \A k \in FileKeys : Committed(k)' = Committed(k)
  BY <1>4 DEF Committed
<1>6. Tiles(E, Committed(cur)) /\ Tiles(E, wo) /\ Tiles(E, base)
  BY <1>2 DEF LayoutInv, Layout, CommittedTiled
<1>7. Tiles(F, Committed(cur)) /\ Tiles(F, base)
  BY <1>1, <1>2, <1>3, <1>6, TilesKept
<1>8. Tiles(F, wo + Size[NextBlob])
  BY <1>1, <1>2, <1>3, <1>6, TilesExtended
<1> HIDE DEF F
<1>9. CommittedTiled'
  BY <1>3, <1>5, <1>7, <1>2 DEF CommittedTiled, LayoutInv, Layout, Tiles, End
<1>10. ASSUME NEW n \in Nat, n <= wo, FlushedTo(cur, n)
       PROVE  \A e \in data'[cur] : e.off < n => e \in disk'[cur]
  <2> SUFFICES ASSUME NEW e \in data'[cur], e.off < n PROVE e \in disk'[cur]
    OBVIOUS
  <2>1. e \in Overwrite(E, wo, NextBlob)
    BY <1>2, <1>3, <1>10 DEF F
  <2>2. e \in disk[cur]
    BY <1>10, <2>1 DEF Overwrite, FlushedTo
  <2> QED
    BY <1>3, <2>1, <2>2 DEF Overwrite
<1>11. FlushedTo(cur, Committed(cur)) /\ FlushedTo(cur, base)
  BY <1>2 DEF LayoutInv, Layout, CommittedFlushed, FlushedTo
<1>12. CommittedFlushed'
  <2>1. \A e \in data'[cur] : e.off < Committed(cur) => e \in disk'[cur]
    BY <1>2, <1>10, <1>11
  <2>2. \A k \in FileKeys \ {cur} : \A e \in data'[k] : e.off < Committed(k) => e \in disk'[k]
    BY <1>3 DEF LayoutInv, Layout, CommittedFlushed
  <2> QED
    BY <1>5, <2>1, <2>2 DEF CommittedFlushed
<1>13. FlushedTo(cur, base)'
  BY <1>2, <1>4, <1>10, <1>11 DEF FlushedTo
<1>14. Tiles(data[cur], wo)' /\ Tiles(data[cur], base)'
  BY <1>3, <1>4, <1>7, <1>8 DEF Tiles, End
<1>15. pc' \in {"flush", "next"} /\ (pc' = "next" => op' # "Put")
  <2>1. pc' = "next" => Len(batch) # Len(metas) + 1
    BY DEF PutInternal
  <2>2. op = "Put" => Len(batch) = 1
    BY DEF LayoutInv, ControlInv, Control
  <2>3. Len(metas) \in Nat /\ Len(batch) \in Nat
    BY DEF LayoutInv, ControlInv, TypeOK, ProcessTyped
  <2>4. op = "Put" => Len(batch) = Len(metas) + 1
    BY <1>1, <2>2, <2>3
  <2>5. pc' \in {"flush", "next"} /\ op' = op
    BY DEF PutInternal
  <2> QED
    BY <2>1, <2>4, <2>5
<1> QED
  BY <1>9, <1>12, <1>13, <1>14, <1>15 DEF Layout, Switching

\* A power loss keeps what was flushed, so all that is committed.
LEMMA LayoutPowerLoss ==
    ASSUME LayoutInv, PowerLoss
    PROVE  Layout'
<1>1. \A k \in FileKeys : /\ data'[k] = disk'[k]
                          /\ disk[k] \subseteq data'[k] /\ data'[k] \subseteq data[k]
  BY DEF PowerLoss
<1>2. \A k \in FileKeys : Committed(k)' = Committed(k)
  BY DEF PowerLoss, Committed
<1>3. ASSUME NEW k \in FileKeys PROVE Tiles(data'[k], Committed(k))
  <2>1. data[k] \in SUBSET Extent /\ Committed(k) \in Nat
    BY CommittedTyped, SizeAssumption DEF LayoutInv, ControlInv, TypeOK, FilesTyped
  <2>2. Tiles(data[k], Committed(k))
    BY DEF LayoutInv, Layout, CommittedTiled
  <2>3. \A e \in data[k] : e.off < Committed(k) => e \in data'[k]
    BY <1>1 DEF LayoutInv, Layout, CommittedFlushed
  <2>4. data'[k] \in SUBSET data[k]
    BY <1>1
  <2> QED
    BY <2>1, <2>2, <2>3, <2>4, TilesSubset
<1>4. CommittedTiled'
  BY <1>2, <1>3 DEF CommittedTiled, Tiles, End
<1>5. CommittedFlushed'
  BY <1>1 DEF CommittedFlushed
<1>6. pc' = "down"
  BY DEF PowerLoss, Forget
<1> QED
  BY <1>4, <1>5, <1>6 DEF Layout, Running, Guarded, Switching

\* The other steps move the offset, the base or the committed length only to
\* places where the file is tiled, and commit only what has been flushed.
LEMMA LayoutStep ==
    ASSUME LayoutInv, [Next]_vars, Oversized = {}
    PROVE  Layout'
<1>1. CASE PutInternal
  BY <1>1, LayoutPut
<1>2. CASE PowerLoss
  BY <1>2, LayoutPowerLoss
<1>3. CASE ~PutInternal /\ ~PowerLoss
  <2>i. ControlInv /\ Control'
    BY ControlStep DEF LayoutInv
  <2>k. \A k \in FileKeys : data'[k] = data[k] /\ disk[k] \subseteq disk'[k]
    BY <1>3, <2>i, FilesKept
  <2>t. cur \in FileKeys /\ cur' \in FileKeys /\ wo \in Nat /\ base \in Nat
    BY <2>i, TypeStep, SizeAssumption DEF ControlInv, TypeOK, ProcessTyped
  <2>f. ASSUME NEW k \in FileKeys, NEW n, FlushedTo(k, n)
        PROVE  \A e \in data'[k] : e.off < n => e \in disk'[k]
    BY <2>k, <2>f DEF FlushedTo
  <2>w. /\ Running => Tiles(data[cur], wo)
        /\ Guarded => Tiles(data[cur], base) /\ FlushedTo(cur, base)
        /\ Switching \/ pc \in {"idle", "record", "length"} => FlushedTo(cur, wo)
        /\ pc = "next" /\ op = "Put" => base = wo
        /\ \A k \in FileKeys : /\ Tiles(data[k], Committed(k))
                               /\ FlushedTo(k, Committed(k))
    BY DEF LayoutInv, Layout, CommittedTiled, CommittedFlushed, FlushedTo
  <2>s. SetOldLength \/ SetLength =>
           Running /\ (Switching \/ pc \in {"idle", "record", "length"})
    BY <2>i DEF SetOldLength, SetLength, Running, Switching, ControlInv, Control
  <2>1. CommittedTiled'
    <3> SUFFICES ASSUME NEW k \in FileKeys PROVE Tiles(data'[k], Committed(k)')
      BY DEF CommittedTiled, Tiles, End, Committed
    <3> QED
      BY <2>i, <2>k, <2>w, <2>s, CommittedMoves
  <2>2. CommittedFlushed'
    <3> SUFFICES ASSUME NEW k \in FileKeys, NEW e \in data'[k], e.off < Committed(k)'
                 PROVE  e \in disk'[k]
      BY DEF CommittedFlushed, Committed
    <3>1. FlushedTo(k, Committed(k)')
      BY <2>i, <2>w, <2>s, CommittedMoves DEF FlushedTo
    <3> QED
      BY <2>k, <3>1 DEF FlushedTo
  <2>r. CASE ~Running'
    BY <2>1, <2>2, <2>i, <2>r DEF Layout, Running, Guarded, Switching, Control
  <2>3. CASE Put \/ MultiPut
    <3>1. /\ pc = "idle" /\ pc' = "next" /\ base' = wo
          /\ UNCHANGED <<data, disk, cur, wo, opening>>
      BY <2>3 DEF Put, MultiPut, Begin, durable
    <3>2. Running /\ Running'
      BY <2>i, <3>1 DEF Running, ControlInv, Control
    <3>3. Tiles(data'[cur'], wo') /\ \A e \in data'[cur'] : e.off < wo' => e \in disk'[cur']
      BY <2>w, <3>1, <3>2 DEF FlushedTo
    <3> QED
      BY <2>1, <2>2, <3>1, <3>3 DEF Layout, Switching, Guarded, FlushedTo, Tiles, End
  <2>4. CASE CheckFit
    <3>1. /\ pc = "next" /\ UNCHANGED <<data, disk, cur, wo, base, op, opening>>
          /\ pc' \in {"write", "flushFull", "record"}
          /\ pc' = "record" => op # "MultiPut"
      BY <2>4 DEF CheckFit, durable
    <3>2. Running /\ Running' /\ Guarded /\ op # "none"
      BY <2>i, <3>1 DEF Running, Guarded, ControlInv, Control, TypeOK, ProcessTyped
    <3>3. pc' = "record" => FlushedTo(cur, wo)
      BY <2>i, <2>w, <3>1, <3>2 DEF ControlInv, TypeOK, ProcessTyped
    <3> QED
      BY <2>1, <2>2, <2>w, <3>1, <3>2, <3>3
      DEF Layout, Switching, FlushedTo, Tiles, End
  <2>5. CASE FlushFullFile \/ FlushBatch
    <3>1. /\ pc \in {"flushFull", "flush"} /\ pc' \in {"record", "length"}
          /\ UNCHANGED <<data, cur, wo, base, opening>> /\ Flushed
      BY <2>5 DEF FlushFullFile, FlushBatch
    <3>2. Running /\ Running' /\ Guarded
      BY <2>i, <3>1 DEF Running, Guarded, ControlInv, Control
    <3>3. \A e \in data[cur] : e.off < wo => e \in disk'[cur]
      <4> SUFFICES ASSUME NEW e \in data[cur], e.off < wo PROVE e \in disk'[cur]
        OBVIOUS
      <4>1. e \in Extent /\ e.off \in Nat
        BY <2>i, <2>t, EndTyped DEF ControlInv, TypeOK, FilesTyped
      <4>2. CASE e.off < base
        BY <2>k, <2>t, <2>w, <3>2, <4>2 DEF FlushedTo
      <4>3. CASE base <= e.off
        BY <2>i, <2>t, <3>1, <4>3 DEF Flushed, ControlInv, TypeOK, FilesTyped
      <4> QED
        BY <2>t, <4>1, <4>2, <4>3
    <3> QED
      BY <2>1, <2>2, <2>w, <3>1, <3>2, <3>3
      DEF Layout, Switching, Guarded, FlushedTo, Tiles, End
  <2>6. CASE /\ \/ GetNextDataFileInfo \/ CreateFile \/ TruncateFile \/ MapNew
                \/ SetOldLength \/ SwitchFails \/ SetLength \/ SetLengthFails
             /\ Running
    <3>1. /\ Switching \/ pc \in {"record", "length"}
          /\ UNCHANGED <<data, disk, cur, wo, opening>>
          /\ Switching' \/ pc' = "idle"
      BY <2>6, <2>i
      DEF GetNextDataFileInfo, CreateFile, TruncateFile, MapNew, SetOldLength, SwitchFails,
          SetLength, SetLengthFails, Finish, durable, Switching, Running, ControlInv,
          Control
    <3>2. FlushedTo(cur, wo) /\ Tiles(data[cur], wo)
      BY <2>6, <2>w, <3>1
    <3> QED
      BY <2>1, <2>2, <3>1, <3>2 DEF Layout, Switching, Guarded, FlushedTo, Tiles, End
  <2>7. CASE SwapFile
    <3>1. /\ UNCHANGED <<data, disk>> /\ cur' = target /\ wo' = 0 /\ base' = 0
          /\ pc' = "write"
      BY <2>7 DEF SwapFile, durable
    <3>2. data[target] = {}
      BY <2>7, <2>i DEF SwapFile, Switching, ControlInv, Control
    <3>3. Tiles(data'[cur'], 0)
      BY <3>1, <3>2, TilesNothing
    <3> QED
      BY <2>1, <2>2, <3>1, <3>2, <3>3
      DEF Layout, Switching, Guarded, FlushedTo, Tiles, End
  <2>8. CASE WriteFails
    <3>1. /\ Guarded /\ UNCHANGED <<data, disk, cur, opening>> /\ wo' = base
          /\ pc' = "idle"
      BY <2>8 DEF WriteFails, Finish, durable, Guarded
    <3> QED
      BY <2>1, <2>2, <2>w, <3>1 DEF Layout, Switching, Guarded, FlushedTo, Tiles, End
  <2>9. CASE Load
    <3>1. /\ UNCHANGED <<data, disk, cur, wo>> /\ pc' = "idle" /\ wo = Committed(cur)
      BY <2>9, <2>i DEF Load, durable, ControlInv, Control
    <3>2. Tiles(data[cur], wo) /\ FlushedTo(cur, wo)
      BY <2>t, <2>w, <3>1
    <3> QED
      BY <2>1, <2>2, <3>1, <3>2 DEF Layout, Switching, Guarded, FlushedTo, Tiles, End
  <2>10. CASE UNCHANGED vars
    BY <2>10 DEF LayoutInv, Layout, CommittedTiled, CommittedFlushed, FlushedTo, Tiles,
       End, Committed, Running, Guarded, Switching, vars, durable, process
  <2>11. ~CompressedSizeThrows
    BY DEF CompressedSizeThrows
  <2>12. \/ Open \/ MapCurrent \/ OpenThrows \/ OpenFails \/ Close \/ ProcessCrash
         \/ (CreateFile \/ TruncateFile) /\ ~Running
         => ~Running'
    BY DEF Open, MapCurrent, OpenThrows, OpenFails, Close, ProcessCrash, Forget,
       CreateFile, TruncateFile, Running
  <2>13. GetNextDataFileInfo \/ MapNew \/ SetOldLength \/ SwitchFails \/ SetLength
         \/ SetLengthFails => Running
    BY <2>i DEF GetNextDataFileInfo, MapNew, SetOldLength, SwitchFails, SetLength,
       SetLengthFails, Running, ControlInv, Control
  <2> QED
    BY <1>3, <2>r, <2>3, <2>4, <2>5, <2>6, <2>7, <2>8, <2>9, <2>10, <2>11, <2>12, <2>13
    DEF Next
<1> QED
  BY <1>1, <1>2, <1>3

\* The layout is an invariant of every storage engine that refuses no blob.
LEMMA LayoutInvariant ==
    ASSUME Oversized = {}
    PROVE  Spec => []LayoutInv
<1>1. Init => LayoutInv
  BY ControlInit, LayoutInit DEF LayoutInv
<1>2. LayoutInv /\ [Next]_vars => LayoutInv'
  BY TypeStep, ControlStep, LayoutStep DEF LayoutInv, ControlInv
<1> QED
  BY <1>1, <1>2, PTL DEF Spec

\* The committed prefix of every file is a run of whole blobs: BlobIterator
\* finds every header where it looks for one (blob_manager.cc:317-367).
THEOREM CommittedPrefixIsTiled ==
    ASSUME Oversized = {}
    PROVE  Spec => []CommittedTiled
<1>1. LayoutInv => CommittedTiled
  BY DEF LayoutInv, Layout
<1> QED
  BY <1>1, LayoutInvariant, PTL

\* What a committed length covers has been flushed, by this operation or by the
\* one before it (blob_manager.cc:191-201, 247-258).
THEOREM CommittedPrefixIsFlushed ==
    ASSUME Oversized = {}
    PROVE  Spec => []CommittedFlushed
<1>1. LayoutInv => CommittedFlushed
  BY DEF LayoutInv, Layout
<1> QED
  BY <1>1, LayoutInvariant, PTL

\* No step rewrites a committed prefix or shortens it.
THEOREM CommittedPrefixIsKept ==
    ASSUME Oversized = {}
    PROVE  Spec => CommittedNeverRewritten
<1> DEFINE Kept == \A k \in FileKeys :
                      /\ Committed(k) <= Committed(k)'
                      /\ \A e \in data[k] : e.off < Committed(k) => e \in data'[k]
<1>1. LayoutInv /\ [Next]_vars => [Kept]_vars
  <2> SUFFICES ASSUME LayoutInv, [Next]_vars, NEW k \in FileKeys
               PROVE  /\ Committed(k) <= Committed(k)'
                      /\ \A e \in data[k] : e.off < Committed(k) => e \in data'[k]
    OBVIOUS
  <2>1. Committed(k) <= Committed(k)'
    BY CommittedGrows DEF LayoutInv
  <2>2. ASSUME NEW e \in data[k], e.off < Committed(k) PROVE e \in data'[k]
    <3>1. e \in disk[k] /\ End(e) <= Committed(k)
      BY <2>2 DEF LayoutInv, Layout, CommittedFlushed, CommittedTiled, Tiles
    <3>2. PutInternal => Committed(cur) <= wo
      BY DEF PutInternal, LayoutInv, ControlInv, Control, Running
    <3>3. wo \in Nat /\ Committed(k) \in Nat /\ End(e) \in Nat
      BY CommittedTyped, EndTyped, SizeAssumption
      DEF LayoutInv, ControlInv, TypeOK, FilesTyped, ProcessTyped
    <3>4. ~(PutInternal /\ k = cur /\ wo < End(e))
      BY <3>1, <3>2, <3>3
    <3> QED
      BY <3>1, <3>4, ExtentsKept DEF LayoutInv
  <2> QED
    BY <2>1, <2>2
<1> QED
  BY <1>1, LayoutInvariant, PTL DEF Spec, CommittedNeverRewritten
-----------------------------------------------------------------------------
(* The chain of the files *)

\* Every blob's estimate fits an empty file.
EstimatesFit == \A b \in Blobs : Estimate[b] <= MaxDataFileSize

Recorded == {k \in FileKeys : rec[k] # NoRecord}

\* As long as no call has failed, the file being written is the last one, or the one being
\* allocated is; those before it have something flushed, so that they outlive a power loss.
Chain ==
    /\ \A k \in Recorded : IsLastFileKey(k) \/ (file[k] = "allocated" /\ disk[k] # {})
    /\ Switching \/ opening => IsLastFileKey(target)
    /\ (Running /\ ~Switching) \/ pc = "load" => IsLastFileKey(cur)
    /\ pc \in {"flushFull", "record"} => wo > 0

ChainInv == faults = 0 => Chain

\* The last file stays the last one while no row is added.
LEMMA LastKept ==
    ASSUME Recorded' = Recorded
    PROVE  \A k \in FileKeys : IsLastFileKey(k)' <=> IsLastFileKey(k)
<1>1. \A k \in FileKeys : rec'[k] # NoRecord <=> rec[k] # NoRecord
  BY DEF Recorded
<1> QED
  BY <1>1 DEF IsLastFileKey

\* A file that begins with something flushed up to an offset has it on the disk.
LEMMA SomethingFlushed ==
    ASSUME TypeOK, NEW k \in FileKeys, NEW n \in Nat, n > 0, Tiles(data[k], n), FlushedTo(k, n)
    PROVE  disk[k] # {}
<1>1. 0 \in 0..(n - 1)
  OBVIOUS
<1>2. PICK e \in data[k] : e.off <= 0
  BY <1>1 DEF Tiles
<1>3. e.off < n
  BY <1>2, SizeAssumption DEF TypeOK, FilesTyped, Extent
<1> QED
  BY <1>3 DEF FlushedTo

\* A new row is that of the file being allocated.
LEMMA RowsKeepChain ==
    ASSUME LayoutInv, Chain, TypeOK', Control', Open \/ GetNextDataFileInfo
    PROVE  Chain'
<1>t. /\ cur \in FileKeys /\ cur' \in FileKeys /\ target' \in FileKeys /\ wo \in Nat
      /\ rec \in [FileKeys -> {NoRecord, Unset} \cup 0..MaxDataFileSize]
      /\ FileKeys \subseteq Nat
  BY SizeAssumption, BoundAssumption
  DEF LayoutInv, ControlInv, TypeOK, FilesTyped, ProcessTyped, FileKeys
<1>1. CASE Open
  <2>1. IsLastFileKey(target)' /\ \A k \in Recorded' : k = target' \/ k \in Recorded
    <3>1. CASE Recorded = {}
      <4>1. rec' = [rec EXCEPT ![0] = Unset] /\ target' = 0 /\ \A k \in FileKeys : rec[k] = NoRecord
        BY <1>1, <3>1 DEF Open, Recorded, IsLastFileKey
      <4> QED
        BY <1>t, <4>1 DEF Recorded, IsLastFileKey, Unset, NoRecord
    <3>2. CASE Recorded # {}
      <4>1. UNCHANGED rec /\ IsLastFileKey(target')
        BY <1>1, <3>2 DEF Open, Recorded
      <4> QED
        BY <4>1 DEF Recorded, IsLastFileKey
    <3> QED
      BY <3>1, <3>2
  <2>2. \A k \in Recorded \ {target'} : ~IsLastFileKey(k) \/ UNCHANGED rec
    BY <1>1 DEF Open, Recorded, IsLastFileKey
  <2>3. UNCHANGED rec => \A k \in FileKeys : IsLastFileKey(k)' <=> IsLastFileKey(k)
    BY DEF IsLastFileKey
  <2>4. UNCHANGED <<file, disk>> /\ opening' /\ pc' \in {"create", "map"}
    BY <1>1 DEF Open
  <2>5. \A k \in Recorded' : IsLastFileKey(k)' \/ (file'[k] = "allocated" /\ disk'[k] # {})
    BY <2>1, <2>2, <2>3, <2>4 DEF Chain, Recorded
  <2> QED
    BY <2>1, <2>4, <2>5 DEF Chain, Running, Switching
<1>2. CASE GetNextDataFileInfo
  <2>1. pc = "record" /\ Running /\ ~Switching /\ wo > 0 /\ IsLastFileKey(cur)
    BY <1>2 DEF GetNextDataFileInfo, LayoutInv, ControlInv, Control, Running, Switching, Chain
  <2>2. /\ rec' = [rec EXCEPT ![target'] = Unset] /\ target' = cur + 1 /\ cur + 1 \in FileKeys
        /\ UNCHANGED <<file, disk, opening>> /\ pc' = "create"
    BY <1>2, <1>t, <2>1 DEF GetNextDataFileInfo, IsLastFileKey
  <2>3. disk[cur] # {} /\ file[cur] = "allocated"
    BY <1>t, <2>1, SomethingFlushed DEF LayoutInv, Layout, ControlInv, Control
  <2>4. IsLastFileKey(target)'
    BY <1>t, <2>1, <2>2 DEF IsLastFileKey, Unset, NoRecord
  <2>5. \A k \in Recorded' : k = target' \/ k = cur \/ (k \in Recorded /\ ~IsLastFileKey(k))
    <3> SUFFICES ASSUME NEW k \in Recorded', k # target', IsLastFileKey(k)
                 PROVE  k = cur
      <4>1. \A k \in Recorded' : k = target' \/ k \in Recorded
        BY <1>t, <2>2 DEF Recorded
      <4> QED
        BY <4>1
    <3>1. k \in FileKeys /\ k <= cur /\ cur <= k
      BY <1>t, <2>1 DEF Recorded, IsLastFileKey
    <3> QED
      BY <1>t, <3>1
  <2>6. \A k \in Recorded' : IsLastFileKey(k)' \/ (file'[k] = "allocated" /\ disk'[k] # {})
    BY <2>2, <2>3, <2>4, <2>5 DEF Chain
  <2>7. ~opening' /\ ~(pc' \in {"flushFull", "record", "load"}) /\ Switching'
    BY <2>1, <2>2 DEF Running, Switching
  <2> QED
    BY <2>4, <2>6, <2>7 DEF Chain
<1> QED
  BY <1>1, <1>2

\* The other steps add no row, and take nothing from a file that is not the last.
LEMMA OthersKeepChain ==
    ASSUME LayoutInv, Chain, TypeOK', Control', [Next]_vars,
           ~Open, ~GetNextDataFileInfo, faults' = 0, Oversized = {}, EstimatesFit
    PROVE  Chain'
<1>t. /\ cur \in FileKeys /\ target \in FileKeys /\ wo \in Nat /\ faults \in Nat
      /\ rec \in [FileKeys -> {NoRecord, Unset} \cup 0..MaxDataFileSize]
      /\ file \in [FileKeys -> {"missing", "empty", "allocated"}]
      /\ disk \in [FileKeys -> SUBSET Extent]
  BY SizeAssumption DEF LayoutInv, ControlInv, TypeOK, FilesTyped, ProcessTyped, HistoryTyped
<1>c. ~CompressedSizeThrows /\ ~CanFail
  BY <1>t DEF CompressedSizeThrows, CanFail
<1>s. ~OpenFails /\ ~SwitchFails /\ ~WriteFails /\ ~SetLengthFails
  BY <1>c DEF OpenFails, SwitchFails, WriteFails, SetLengthFails
<1>1. Recorded' = Recorded
  <2>1. CASE UNCHANGED rec
    BY <2>1 DEF Recorded
  <2>2. CASE SetOldLength \/ SetLength
    <3>1. rec' = [rec EXCEPT ![cur] = wo] /\ pc # "down" /\ ~opening
      BY <2>2 DEF SetOldLength, SetLength, LayoutInv, ControlInv, Control
    <3>2. rec[cur] # NoRecord /\ wo # NoRecord
      BY <1>t, <3>1 DEF LayoutInv, ControlInv, Control, Running, NoRecord
    <3> QED
      BY <1>t, <3>1, <3>2 DEF Recorded
  <2> QED
    BY <1>s, <2>1, <2>2 DEF Next, vars, durable, Put, MultiPut, Begin, MapCurrent, Load,
       OpenThrows, CreateFile, TruncateFile, CompressedSizeThrows, CheckFit,
       FlushFullFile, MapNew, SwapFile, PutInternal, FlushBatch,
       Close, ProcessCrash, PowerLoss
<1>2. \A k \in FileKeys : IsLastFileKey(k)' <=> IsLastFileKey(k)
  BY <1>1, LastKept
<1>3. \A k \in Recorded : IsLastFileKey(k) \/ (file'[k] = "allocated" /\ disk'[k] # {})
  <2> SUFFICES ASSUME NEW k \in Recorded, ~IsLastFileKey(k)
               PROVE  file'[k] = "allocated" /\ disk'[k] # {}
    OBVIOUS
  <2>1. file[k] = "allocated" /\ disk[k] # {} /\ k \in FileKeys
    BY DEF Chain, Recorded
  <2>2. CASE CreateFile \/ TruncateFile
    <3>1. /\ UNCHANGED disk /\ (Switching \/ opening)
          /\ \/ file' = [file EXCEPT ![target] = "empty"]
             \/ file' = [file EXCEPT ![target] = "allocated"]
      BY <2>2 DEF CreateFile, TruncateFile, Switching
    <3>2. k # target
      BY <3>1 DEF Chain
    <3> QED
      BY <1>t, <2>1, <3>1, <3>2
  <2>3. CASE PutInternal
    <3>1. Running /\ ~Switching
      BY <2>3 DEF PutInternal, LayoutInv, ControlInv, Control, Running, Switching
    <3>2. k # cur
      BY <3>1 DEF Chain
    <3> QED
      BY <1>t, <2>1, <2>3, <3>2 DEF PutInternal
  <2>4. CASE PowerLoss
    <3>1. file'[k] \in Survives(k) /\ disk[k] \subseteq disk'[k]
      BY <2>1, <2>4 DEF PowerLoss
    <3> QED
      BY <2>1, <3>1 DEF Survives
  <2>5. CASE FlushFullFile \/ FlushBatch
    BY <1>t, <2>1, <2>5 DEF FlushFullFile, FlushBatch, Flushed
  <2>6. CASE UNCHANGED <<file, disk>>
    BY <2>1, <2>6
  <2> QED
    BY <1>s, <2>2, <2>3, <2>4, <2>5, <2>6 DEF Next, vars, durable, Put, MultiPut, Begin,
       MapCurrent, Load, OpenThrows, CompressedSizeThrows, CheckFit, MapNew, SetOldLength,
       SwapFile, SetLength, Close, ProcessCrash
<1>4. /\ Switching' \/ opening' => IsLastFileKey(target')
      /\ (Running' /\ ~Switching') \/ pc' = "load" => IsLastFileKey(cur')
      /\ pc' \in {"flushFull", "record"} => wo' > 0
  <2> USE DEF Chain, Running, Switching
  <2>1. CASE MapCurrent
    BY <2>1 DEF MapCurrent
  <2>2. CASE Load
    BY <2>2 DEF Load
  <2>3. CASE OpenThrows \/ Close \/ ProcessCrash \/ PowerLoss
    BY <2>3 DEF OpenThrows, Close, ProcessCrash, PowerLoss, Forget
  <2>4. CASE CreateFile \/ TruncateFile \/ MapNew \/ SetOldLength
    BY <2>4 DEF CreateFile, TruncateFile, MapNew, SetOldLength, LayoutInv, ControlInv, Control
  <2>5. CASE Put \/ MultiPut
    <3>1. /\ pc = "idle" /\ pc' = "next" /\ UNCHANGED <<opening, target, cur, wo>> /\ ~opening
      BY <2>5 DEF Put, MultiPut, Begin, LayoutInv, ControlInv, Control
    <3> QED
      BY <3>1
  <2>6. CASE CheckFit
    <3>1. pc = "next" /\ UNCHANGED <<opening, target, cur, wo>> /\ ~opening
      BY <2>6 DEF CheckFit, LayoutInv, ControlInv, Control
    <3>2. pc' = "write" \/ (pc' \in {"flushFull", "record"} /\ ~Fits)
      BY <2>6 DEF CheckFit
    <3>3. ~Fits => wo > 0
      <4>1. NextBlob \in Blobs /\ Estimate[NextBlob] \in Nat
        BY <3>1, NextBlobInBlobs DEF LayoutInv, ControlInv, Control
      <4> QED
        BY <1>t, <4>1, SizeAssumption DEF Fits, EstimatesFit
    <3> QED
      BY <3>1, <3>2, <3>3
  <2>7. CASE FlushFullFile \/ FlushBatch \/ PutInternal
    BY <2>7 DEF FlushFullFile, FlushBatch, PutInternal, LayoutInv, ControlInv, Control
  <2>8. CASE SwapFile
    BY <2>8 DEF SwapFile, LayoutInv, ControlInv, Control
  <2>9. CASE SetLength
    BY <2>9 DEF SetLength, Finish, LayoutInv, ControlInv, Control
  <2>10. CASE UNCHANGED vars
    BY <2>10 DEF vars, process
  <2> QED
    BY <1>c, <1>s, <2>1, <2>2, <2>3, <2>4, <2>5, <2>6, <2>7, <2>8, <2>9, <2>10 DEF Next
<1>5. target' \in FileKeys /\ cur' \in FileKeys
  BY DEF TypeOK, ProcessTyped
<1> QED
  BY <1>1, <1>2, <1>3, <1>4, <1>5 DEF Chain, Running, Switching, Recorded

\* No step takes back a failure.
LEMMA FaultsStay == ControlInv /\ [Next]_vars /\ faults' = 0 => faults = 0
<1> SUFFICES ASSUME ControlInv, [Next]_vars, faults' # faults PROVE faults' # 0
  OBVIOUS
<1>1. faults \in Nat
  BY DEF ControlInv, TypeOK, HistoryTyped
<1>2. CanFail
  BY DEF Next, vars, Put, MultiPut, Begin, Open, MapCurrent, Load, OpenThrows, OpenFails,
     CreateFile, TruncateFile, CompressedSizeThrows, CheckFit, FlushFullFile,
     GetNextDataFileInfo, MapNew, SetOldLength, SwapFile, SwitchFails, PutInternal,
     FlushBatch, WriteFails, SetLength, SetLengthFails, Close, ProcessCrash, PowerLoss
<1> QED
  BY <1>1, <1>2 DEF CanFail

\* Crashes alone, at whatever step and with whatever a power loss leaves of what was not
\* flushed, leave every recorded file but the last allocated, so that the constructor can
\* map them all and allocate a last one that is missing (blob_manager.cc:150).  It needs
\* each blob's estimate to fit an empty file: a larger one makes Put leave a file behind
\* in which nothing was ever flushed.
THEOREM OpenableAfterCrashes ==
    ASSUME Oversized = {}, EstimatesFit
    PROVE  Spec => []OpenableUnlessTorn
<1>1. Init => ChainInv
  BY DEF Init, ChainInv, Chain, Recorded, Switching, Running
<1>2. LayoutInv /\ LayoutInv' /\ ChainInv /\ [Next]_vars => ChainInv'
  <2> SUFFICES ASSUME LayoutInv, LayoutInv', ChainInv, [Next]_vars, faults' = 0
               PROVE  Chain'
    BY DEF ChainInv
  <2>1. Chain /\ TypeOK' /\ Control'
    BY FaultsStay DEF ChainInv, LayoutInv, ControlInv
  <2> QED
    BY <2>1, RowsKeepChain, OthersKeepChain
<1>3. ChainInv => OpenableUnlessTorn
  BY DEF ChainInv, Chain, Recorded, OpenableUnlessTorn
<1> QED
  BY <1>1, <1>2, <1>3, LayoutInvariant, PTL DEF Spec

-----------------------------------------------------------------------------
(* Listings: sets of blobs in the order of their places *)

\* Where the blob of y lies behind that of x.
Before(x, y) == x.key < y.key \/ (x.key = y.key /\ x.off < y.off)

InOrder(s) == \A i, j \in DOMAIN s : i < j => Before(s[i], s[j])

\* s has the members of S, each once and by their places in the files.
Lists(s, S) == s \in Seq(Metadata) /\ InOrder(s) /\ S = {s[i] : i \in DOMAIN s}

\* What holds of 0 and with a number of the next one holds of every number.
LEMMA Induction ==
  ASSUME NEW S, 0 \in S, \A n \in Nat : n \in S => n + 1 \in S
  PROVE  \A n \in Nat : n \in S
<1> DEFINE T == Nat \ S
           R == {ss \in Nat \X Nat : ss[1] < ss[2]}
<1> SUFFICES ASSUME T # {} PROVE FALSE
  OBVIOUS
<1>1. IsWellFoundedOn(R, Nat)
  BY NatLessThanWellFounded DEF OpToRel
<1>2. PICK x \in T : \A y \in T : ~(<<y, x>> \in R)
  <2> HIDE DEF R
  <2>1. T \subseteq Nat
    OBVIOUS
  <2> HIDE DEF T
  <2> QED
    BY <1>1, <2>1, WFMin
<1>3. x \in Nat /\ x # 0 /\ x - 1 \in Nat
  OBVIOUS
<1>4. <<x - 1, x>> \in R
  BY <1>3
<1>5. x - 1 \notin T
  BY <1>2, <1>4
<1>6. x - 1 \in S /\ x = (x - 1) + 1
  BY <1>3, <1>5
<1> QED
  BY <1>3, <1>6

\* A set of natural numbers that is not empty has a least member.
LEMMA Least ==
  ASSUME NEW T \in SUBSET Nat, T # {}
  PROVE  \E x \in T : \A y \in T : x <= y
<1> DEFINE R == {ss \in Nat \X Nat : ss[1] < ss[2]}
<1>1. IsWellFoundedOn(R, Nat)
  BY NatLessThanWellFounded DEF OpToRel
<1>2. PICK x \in T : \A y \in T : ~(<<y, x>> \in R)
  <2> HIDE DEF R
  <2> QED
    BY <1>1, WFMin
<1>3. ASSUME NEW y \in T PROVE x <= y
  <2>1. x \in Nat /\ y \in Nat
    OBVIOUS
  <2>2. y < x => <<y, x>> \in R
    BY <2>1
  <2>3. ~(<<y, x>> \in R)
    BY <1>2
  <2> HIDE DEF R
  <2> QED
    BY <2>1, <2>2, <2>3
<1> QED
  BY <1>3

\* Keys and offsets are numbers, so that the places of blobs are in an order.
LEMMA BeforeIsAnOrder ==
  /\ \A x \in Metadata : ~Before(x, x)
  /\ \A x, y \in Metadata : ~(Before(x, y) /\ Before(y, x))
  /\ \A x, y, z \in Metadata : Before(x, y) /\ Before(y, z) => Before(x, z)
<1>1. \A x \in Metadata : x.key \in Nat /\ x.off \in Nat
  BY SizeAssumption, BoundAssumption DEF Metadata, FileKeys
<1> QED
  BY <1>1 DEF Before

\* What sorted listings of one set have in common up to a place, they have there too.
LEMMA ListedNext ==
  ASSUME NEW S, NEW s, NEW t, Lists(s, S), Lists(t, S), NEW i \in DOMAIN s,
         \A j \in 1..(i - 1) : j \in DOMAIN t /\ t[j] = s[j]
  PROVE  i \in DOMAIN t /\ (t[i] = s[i] \/ Before(t[i], s[i]))
<1>1. /\ s \in Seq(Metadata) /\ t \in Seq(Metadata) /\ InOrder(s) /\ InOrder(t)
      /\ \E j \in DOMAIN t : t[j] = s[i]
  BY DEF Lists
<1>2. PICK j \in DOMAIN t : t[j] = s[i]
  BY <1>1
<1>3. /\ DOMAIN s = 1..Len(s) /\ DOMAIN t = 1..Len(t) /\ Len(s) \in Nat /\ Len(t) \in Nat
      /\ s[i] \in Metadata
  BY <1>1
<1>4. ~(j < i)
  <2> SUFFICES ASSUME j < i PROVE FALSE
    OBVIOUS
  <2>1. t[j] = s[j] /\ j \in DOMAIN s
    BY <1>3
  <2>2. Before(s[j], s[i])
    BY <1>1, <2>1 DEF InOrder
  <2> QED
    BY <1>2, <1>3, <2>1, <2>2, BeforeIsAnOrder
<1>5. i \in DOMAIN t /\ (i = j \/ i < j)
  BY <1>3, <1>4
<1> QED
  BY <1>1, <1>2, <1>5 DEF InOrder

\* There is only one listing of a set.
LEMMA ListedOnce ==
  ASSUME NEW S, NEW s, NEW t, Lists(s, S), Lists(t, S)
  PROVE  s = t
<1> DEFINE Same(i) == (i \in DOMAIN s <=> i \in DOMAIN t) /\ (i \in DOMAIN s => s[i] = t[i])
           T == {i \in Nat : ~Same(i)}
<1>t. /\ s \in Seq(Metadata) /\ t \in Seq(Metadata)
      /\ DOMAIN s = 1..Len(s) /\ DOMAIN t = 1..Len(t) /\ Len(s) \in Nat /\ Len(t) \in Nat
  BY DEF Lists
<1>1. T = {}
  <2> SUFFICES ASSUME T # {} PROVE FALSE
    OBVIOUS
  <2>1. PICK i \in T : \A j \in T : i <= j
    <3> HIDE DEF T
    <3>1. T \subseteq Nat
      BY DEF T
    <3> QED
      BY <3>1, Least
  <2>2. i \in Nat /\ ~Same(i) /\ \A j \in Nat : j < i => Same(j)
    BY <2>1
  <2>3. CASE i \in DOMAIN s
    <3>1. \A j \in 1..(i - 1) : j \in DOMAIN s /\ j \in DOMAIN t /\ t[j] = s[j]
      BY <1>t, <2>2, <2>3
    <3>2. i \in DOMAIN t /\ (t[i] = s[i] \/ Before(t[i], s[i]))
      BY <2>3, <3>1, ListedNext
    <3>3. s[i] = t[i] \/ Before(s[i], t[i])
      BY <3>1, <3>2, ListedNext
    <3>4. s[i] \in Metadata /\ t[i] \in Metadata
      BY <1>t, <2>3, <3>2
    <3> QED
      BY <2>2, <2>3, <3>2, <3>3, <3>4, BeforeIsAnOrder
  <2>4. CASE i \in DOMAIN t
    <3>1. \A j \in 1..(i - 1) : j \in DOMAIN s /\ j \in DOMAIN t /\ s[j] = t[j]
      BY <1>t, <2>2, <2>4
    <3>2. i \in DOMAIN s
      BY <2>4, <3>1, ListedNext
    <3> QED
      BY <2>3, <3>2
  <2> QED
    BY <2>2, <2>3, <2>4
<1>2. \A i \in Nat : Same(i)
  BY <1>1
<1>3. Len(s) = Len(t)
  <2>1. Len(s) \in DOMAIN s \/ Len(s) = 0
    BY <1>t
  <2>2. Len(t) \in DOMAIN t \/ Len(t) = 0
    BY <1>t
  <2>3. Len(s) \in DOMAIN s => Len(s) <= Len(t)
    BY <1>t, <1>2
  <2>4. Len(t) \in DOMAIN t => Len(t) <= Len(s)
    BY <1>t, <1>2
  <2>5. Len(s) \in Nat /\ Len(t) \in Nat
    BY <1>t
  <2>6. Len(s) <= Len(t)
    BY <2>1, <2>3, <2>5
  <2>7. Len(t) <= Len(s)
    BY <2>2, <2>4, <2>5
  <2> QED
    BY <2>5, <2>6, <2>7
<1>4. \A i \in 1..Len(s) : s[i] = t[i]
  BY <1>t, <1>2
<1> HIDE DEF Same, T
<1> QED
  BY <1>t, <1>3, <1>4, SeqEqual

\* What lies wholly behind a list is listed behind it.
LEMMA ListedConcat ==
  ASSUME NEW S, NEW T, NEW s, NEW t, Lists(s, S), Lists(t, T),
         \A x \in S, y \in T : Before(x, y)
  PROVE  Lists(s \o t, S \cup T)
<1>t. /\ s \in Seq(Metadata) /\ t \in Seq(Metadata) /\ InOrder(s) /\ InOrder(t)
      /\ DOMAIN s = 1..Len(s) /\ DOMAIN t = 1..Len(t) /\ Len(s) \in Nat /\ Len(t) \in Nat
      /\ S = {s[i] : i \in DOMAIN s} /\ T = {t[i] : i \in DOMAIN t}
  BY DEF Lists
<1>1. PICK u : u = s \o t
  OBVIOUS
<1>2. /\ u \in Seq(Metadata) /\ DOMAIN u = 1..(Len(s) + Len(t))
      /\ \A i \in 1..(Len(s) + Len(t)) : u[i] = IF i <= Len(s) THEN s[i] ELSE t[i - Len(s)]
  BY <1>1, <1>t, ConcatProperties
<1>3. ASSUME NEW i \in DOMAIN u, NEW j \in DOMAIN u, i < j PROVE Before(u[i], u[j])
  <2>1. CASE j <= Len(s)
    <3>1. i \in DOMAIN s /\ j \in DOMAIN s /\ u[i] = s[i] /\ u[j] = s[j]
      BY <1>t, <1>2, <1>3, <2>1
    <3> QED
      BY <1>t, <1>3, <3>1 DEF InOrder
  <2>2. CASE i <= Len(s) /\ Len(s) < j
    <3>1. i \in DOMAIN s /\ j - Len(s) \in DOMAIN t /\ u[i] = s[i] /\ u[j] = t[j - Len(s)]
      BY <1>t, <1>2, <1>3, <2>2
    <3> QED
      BY <1>t, <3>1
  <2>3. CASE Len(s) < i
    <3>1. PICK a, b : a = i - Len(s) /\ b = j - Len(s)
      OBVIOUS
    <3>2. a \in DOMAIN t /\ b \in DOMAIN t /\ a < b /\ u[i] = t[a] /\ u[j] = t[b]
      BY <1>t, <1>2, <1>3, <2>3, <3>1
    <3> QED
      BY <1>t, <3>2 DEF InOrder
  <2> QED
    BY <1>t, <1>2, <1>3, <2>1, <2>2, <2>3
<1>4. S \cup T = {u[i] : i \in DOMAIN u}
  <2>1. ASSUME NEW i \in DOMAIN s PROVE s[i] \in {u[j] : j \in DOMAIN u}
    <3>1. i \in DOMAIN u /\ u[i] = s[i]
      BY <1>t, <1>2
    <3> QED
      BY <3>1
  <2>2. ASSUME NEW i \in DOMAIN t PROVE t[i] \in {u[j] : j \in DOMAIN u}
    <3>1. i + Len(s) \in DOMAIN u /\ u[i + Len(s)] = t[i]
      BY <1>t, <1>2
    <3> QED
      BY <3>1
  <2>3. ASSUME NEW i \in DOMAIN u PROVE u[i] \in S \cup T
    <3>1. CASE i <= Len(s)
      BY <1>t, <1>2, <3>1
    <3>2. CASE Len(s) < i
      <4>1. i - Len(s) \in DOMAIN t /\ u[i] = t[i - Len(s)]
        BY <1>t, <1>2, <3>2
      <4> QED
        BY <1>t, <4>1
    <3> QED
      BY <1>t, <1>2, <3>1, <3>2
  <2> QED
    BY <1>t, <2>1, <2>2, <2>3
<1> QED
  BY <1>1, <1>2, <1>3, <1>4 DEF Lists, InOrder

\* A part of the set that lies wholly in front is a beginning of the list.
LEMMA ListedFront ==
  ASSUME NEW S, NEW F \in SUBSET S, NEW s, Lists(s, S),
         \A x \in F, y \in S \ F : Before(x, y)
  PROVE  \E n \in 0..Len(s) : Lists(SubSeq(s, 1, n), F)
<1>t. /\ s \in Seq(Metadata) /\ InOrder(s) /\ DOMAIN s = 1..Len(s) /\ Len(s) \in Nat
      /\ S = {s[i] : i \in DOMAIN s} /\ S \subseteq Metadata
  BY DEF Lists
<1> DEFINE T == {i \in 1..(Len(s) + 1) : i = Len(s) + 1 \/ s[i] \notin F}
<1>1. PICK k \in T : \A j \in T : k <= j
  <2>1. T \subseteq Nat /\ T # {}
    BY <1>t
  <2> HIDE DEF T
  <2> QED
    BY <2>1, Least
<1>2. PICK n \in 0..Len(s) : n = k - 1
  BY <1>t
<1>3. \A i \in 1..n : s[i] \in F
  BY <1>t, <1>1, <1>2
<1>4. ASSUME NEW i \in DOMAIN s, n < i PROVE s[i] \notin F
  <2>1. n + 1 \in DOMAIN s /\ s[n + 1] \notin F /\ s[n + 1] \in S /\ s[i] \in S
    BY <1>t, <1>1, <1>2, <1>4
  <2>2. n + 1 = i \/ Before(s[n + 1], s[i])
    BY <1>t, <1>4, <2>1 DEF InOrder
  <2>3. s[i] \in F => Before(s[i], s[n + 1])
    BY <2>1
  <2> QED
    BY <1>t, <2>1, <2>2, <2>3, BeforeIsAnOrder
<1>5. PICK u : u = SubSeq(s, 1, n)
  OBVIOUS
<1>6. u \in Seq(Metadata) /\ DOMAIN u = 1..n /\ \A i \in 1..n : u[i] = s[i]
  <2>1. \A i \in 1..n : s[i] \in Metadata
    BY <1>t
  <2>2. /\ u \in Seq(Metadata) /\ Len(u) = IF 1 <= n THEN n - 1 + 1 ELSE 0
        /\ \A i \in 1..(n - 1 + 1) : u[i] = s[1 + i - 1]
    BY <1>5, <2>1, SubSeqProperties
  <2> QED
    BY <1>t, <2>2
<1>7. InOrder(u)
  BY <1>t, <1>6 DEF InOrder
<1>8. F = {u[i] : i \in DOMAIN u}
  <2>1. ASSUME NEW x \in F PROVE x \in {u[i] : i \in DOMAIN u}
    <3>1. PICK i \in DOMAIN s : s[i] = x
      BY <1>t
    <3>2. i \in 1..n
      BY <1>t, <1>4, <3>1
    <3> QED
      BY <1>6, <3>1, <3>2
  <2> QED
    BY <1>3, <1>6, <2>1
<1>9. Lists(u, F)
  BY <1>6, <1>7, <1>8 DEF Lists
<1> QED
  BY <1>2, <1>5, <1>9

\* t is the end of s.
EndOf(t, s) == Len(t) <= Len(s) /\ t = SubSeq(s, Len(s) - Len(t) + 1, Len(s))

\* One that lies wholly behind is its end.
LEMMA ListedBack ==
  ASSUME NEW S, NEW B \in SUBSET S, NEW s, NEW t, Lists(s, S), Lists(t, B),
         \A x \in B, y \in S : Before(x, y) => y \in B
  PROVE  EndOf(t, s)
<1>t. /\ s \in Seq(Metadata) /\ t \in Seq(Metadata) /\ InOrder(s)
      /\ S = {s[i] : i \in DOMAIN s} /\ DOMAIN s = 1..Len(s)
      /\ Len(s) \in Nat /\ Len(t) \in Nat
  BY DEF Lists
<1>1. \A x, y \in S : x = y \/ Before(x, y) \/ Before(y, x)
  BY <1>t DEF InOrder
<1>2. \A x \in S \ B, y \in B : Before(x, y)
  BY <1>1
<1>3. S \ (S \ B) = B /\ S = (S \ B) \cup B
  OBVIOUS
<1>4. PICK n \in 0..Len(s) : Lists(SubSeq(s, 1, n), S \ B)
  BY <1>2, <1>3, ListedFront
<1>5. PICK u : u = SubSeq(s, 1, n)
  OBVIOUS
<1>6. Lists(u \o t, S)
  BY <1>2, <1>3, <1>4, <1>5, ListedConcat
<1>7. s = u \o t
  BY <1>6, ListedOnce
<1>8. u \in Seq(Metadata) /\ Len(u) = n
  <2>1. u \in Seq(Metadata)
    BY <1>4, <1>5 DEF Lists
  <2>2. \A i \in 1..n : s[i] \in Metadata
    BY <1>t
  <2>3. Len(u) = IF 1 <= n THEN n - 1 + 1 ELSE 0
    BY <1>5, <2>2, SubSeqProperties
  <2> QED
    BY <2>1, <2>3
<1>9. /\ Len(s) = n + Len(t)
      /\ \A i \in 1..Len(s) : s[i] = IF i <= n THEN u[i] ELSE t[i - n]
  <2>1. PICK w : w = u \o t
    OBVIOUS
  <2>2. /\ Len(w) = Len(u) + Len(t)
        /\ \A i \in 1..(Len(u) + Len(t)) : w[i] = IF i <= Len(u) THEN u[i] ELSE t[i - Len(u)]
    BY <1>t, <1>8, <2>1, ConcatProperties
  <2>3. w = s
    BY <1>7, <2>1
  <2> QED
    BY <1>8, <2>2, <2>3
<1>10. PICK v : v = SubSeq(s, n + 1, Len(s))
  OBVIOUS
<1>11. /\ v \in Seq(Metadata) /\ Len(v) = Len(t)
       /\ \A i \in 1..Len(t) : v[i] = s[n + i]
  <2>1. \A i \in (n + 1)..Len(s) : s[i] \in Metadata
    BY <1>t
  <2>2. /\ v \in Seq(Metadata)
        /\ Len(v) = IF n + 1 <= Len(s) THEN Len(s) - (n + 1) + 1 ELSE 0
        /\ \A i \in 1..(Len(s) - (n + 1) + 1) : v[i] = s[n + 1 + i - 1]
    BY <1>t, <1>10, <2>1, SubSeqProperties
  <2>3. Len(s) - (n + 1) + 1 = Len(t)
    BY <1>t, <1>9
  <2>4. \A i \in 1..Len(t) : n + 1 + i - 1 = n + i
    BY <1>t
  <2> QED
    BY <1>t, <1>9, <2>2, <2>3, <2>4
<1>12. \A i \in 1..Len(t) : v[i] = t[i]
  <2> TAKE i \in 1..Len(t)
  <2>1. n + i \in 1..Len(s) /\ ~(n + i <= n) /\ (n + i) - n = i
    BY <1>t, <1>9
  <2> QED
    BY <1>9, <1>11, <2>1
<1>13. v = t
  BY <1>t, <1>11, <1>12, SeqEqual
<1>14. n + 1 = Len(s) - Len(t) + 1 /\ Len(t) <= Len(s)
  BY <1>t, <1>9
<1> QED
  BY <1>10, <1>13, <1>14 DEF EndOf

-----------------------------------------------------------------------------
(* What BlobIterator reads of tiled files *)

\* The blobs of file k, with the extents E, from p up to n.
Items(k, E, p, n) ==
    {[key |-> k, off |-> e.off, blob |-> e.blob] : e \in {x \in E : p <= x.off /\ x.off < n}}

\* Walk as a function of the extents, and one turn of its loop at offset q.
WalkOf(E, k, p, n) ==
    LET from[q \in 0..MaxDataFileSize] ==
            LET here == {e \in E : e.off = q}
            IN  IF q >= n THEN <<>>
                ELSE IF here = {} THEN <<Garbage>>
                ELSE LET e == CHOOSE x \in here : TRUE
                     IN  <<[key |-> k, off |-> q, blob |-> e.blob]>> \o from[End(e)]
    IN  from[p]

At(E, q) == CHOOSE x \in {e \in E : e.off = q} : TRUE

WalkTurn(E, k, n, q, f) ==
    IF q >= n THEN <<>>
    ELSE IF {e \in E : e.off = q} = {} THEN <<Garbage>>
    ELSE <<[key |-> k, off |-> q, blob |-> At(E, q).blob]>> \o f[End(At(E, q))]

\* A turn looks only at what lies behind its offset.
LEMMA TurnsAgree ==
  ASSUME NEW E \in SUBSET Extent, NEW k, NEW n \in 0..MaxDataFileSize, Tiles(E, n),
         NEW q \in Nat, NEW f, NEW g,
         \A r \in (q + 1)..MaxDataFileSize : f[r] = g[r]
  PROVE  WalkTurn(E, k, n, q, f) = WalkTurn(E, k, n, q, g)
<1>1. CASE q < n /\ {e \in E : e.off = q} # {}
  <2>1. At(E, q) \in E /\ At(E, q).off = q
    BY <1>1 DEF At
  <2>2. PICK e \in E : e = At(E, q) /\ e.off = q
    BY <2>1
  <2>3. End(e) \in Nat /\ q < End(e) /\ End(e) <= n /\ MaxDataFileSize \in Nat
    BY <1>1, <2>2, EndTyped, SizeAssumption DEF Tiles
  <2>4. f[End(e)] = g[End(e)]
    BY <2>3
  <2> QED
    BY <2>2, <2>4 DEF WalkTurn
<1>2. CASE ~(q < n /\ {e \in E : e.off = q} # {})
  <2>1. n \in Nat
    BY SizeAssumption
  <2>2. q >= n \/ {e \in E : e.off = q} = {}
    BY <1>2, <2>1
  <2> QED
    BY <2>2 DEF WalkTurn
<1> QED
  BY <1>1, <1>2

\* The recursion of Walk is well founded: each turn goes on behind its blob.
LEMMA WalkExists ==
  ASSUME NEW E \in SUBSET Extent, NEW k, NEW n \in 0..MaxDataFileSize, Tiles(E, n)
  PROVE  \E f : f = [q \in 0..MaxDataFileSize |-> WalkTurn(E, k, n, q, f)]
<1> DEFINE Top == MaxDataFileSize
           Down(m, f) == f = [q \in (Top - m)..Top |-> WalkTurn(E, k, n, q, f)]
           S == {m \in Nat : m <= Top => \E f : Down(m, f)}
<1>t. Top \in Nat /\ n \in Nat /\ n <= Top
  BY SizeAssumption
<1>1. 0 \in S
  <2> DEFINE g == [q \in (Top - 0)..Top |-> <<>>]
  <2>1. ASSUME NEW q \in (Top - 0)..Top PROVE WalkTurn(E, k, n, q, g) = <<>>
    BY <1>t DEF WalkTurn
  <2>2. Down(0, g)
    BY <2>1
  <2> HIDE DEF g, Down
  <2> QED
    BY <2>2
<1>2. ASSUME NEW m \in Nat, m \in S PROVE m + 1 \in S
  <2> SUFFICES ASSUME m + 1 <= Top PROVE \E f : Down(m + 1, f)
    OBVIOUS
  <2>1. PICK f : Down(m, f)
    <3> HIDE DEF Down
    <3> QED
      BY <1>t, <1>2
  <2>2. PICK low \in Nat : low = Top - (m + 1) /\ Top - m = low + 1
    BY <1>t
  <2> DEFINE g == [q \in low..Top |-> IF q = low THEN WalkTurn(E, k, n, q, f) ELSE f[q]]
  <2>3. \A r \in (low + 1)..Top : g[r] = f[r] /\ f[r] = WalkTurn(E, k, n, r, f)
    <3> TAKE r \in (low + 1)..Top
    <3>1. r \in low..Top /\ r # low /\ r \in (Top - m)..Top
      BY <1>t, <2>2
    <3>2. f[r] = WalkTurn(E, k, n, r, f)
      BY <2>1, <3>1
    <3> QED
      BY <3>1, <3>2
  <2>4. ASSUME NEW q \in low..Top PROVE g[q] = WalkTurn(E, k, n, q, g)
    <3>1. q \in Nat /\ \A r \in (q + 1)..Top : f[r] = g[r]
      <4> HIDE DEF g
      <4> QED
        BY <1>t, <2>2, <2>3
    <3>2. WalkTurn(E, k, n, q, f) = WalkTurn(E, k, n, q, g)
      <4> HIDE DEF g
      <4> QED
        BY <3>1, TurnsAgree
    <3>3. g[q] = WalkTurn(E, k, n, q, f)
      <4>1. q = low \/ q \in (low + 1)..Top
        BY <1>t, <2>2
      <4>2. q = low => g[q] = WalkTurn(E, k, n, q, f)
        OBVIOUS
      <4> HIDE DEF g
      <4> QED
        BY <2>3, <4>1, <4>2
    <3> QED
      BY <3>2, <3>3
  <2>5. g = [q \in low..Top |-> g[q]]
    OBVIOUS
  <2>6. g = [q \in low..Top |-> WalkTurn(E, k, n, q, g)]
    <3> HIDE DEF g
    <3> QED
      BY <2>4, <2>5
  <2>7. Down(m + 1, g)
    <3> HIDE DEF g
    <3> QED
      BY <2>2, <2>6
  <2> HIDE DEF g, Down
  <2> QED
    BY <2>7
<1> HIDE DEF S
<1>3. Top \in S
  BY <1>t, <1>1, <1>2, Induction
<1>4. PICK f : Down(Top, f)
  <2> HIDE DEF Down
  <2> QED
    BY <1>t, <1>3 DEF S
<1>5. Top - Top = 0
  BY <1>t
<1> QED
  BY <1>4, <1>5

\* The least lists.
LEMMA ListedNothing == Lists(<<>>, {})
<1>1. <<>> \in Seq(Metadata)
  OBVIOUS
<1> QED
  BY <1>1 DEF Lists, InOrder

LEMMA ListedOne ==
  ASSUME NEW m \in Metadata
  PROVE  Lists(<<m>>, {m})
<1>1. PICK s : s = <<m>>
  OBVIOUS
<1>2. s \in Seq(Metadata) /\ DOMAIN s = {1} /\ s[1] = m
  BY <1>1
<1>3. InOrder(s)
  BY <1>2 DEF InOrder
<1>4. {m} = {s[i] : i \in DOMAIN s}
  BY <1>2
<1> QED
  BY <1>1, <1>2, <1>3, <1>4 DEF Lists

\* Where a tiled prefix ends within a longer one, there is a blob, which extends it.
LEMMA BlobAtBoundary ==
  ASSUME NEW E \in SUBSET Extent, NEW n \in Nat, NEW p \in 0..(n - 1),
         Tiles(E, n), Tiles(E, p)
  PROVE  \E e \in E : /\ {x \in E : x.off = p} = {e}
                      /\ End(e) \in (p + 1)..n
                      /\ Tiles(E, End(e))
                      /\ \A x \in E : p <= x.off => x = e \/ End(e) <= x.off
<1>1. PICK e \in E : e.off <= p /\ p < End(e)
  BY DEF Tiles
<1>2. \A x \in E : x.off \in Nat /\ End(x) \in Nat /\ x.off < End(x)
  BY EndTyped
<1>3. e.off = p
  BY <1>1, <1>2 DEF Tiles
<1>4. \A x \in E : x = e \/ End(x) <= e.off \/ End(e) <= x.off
  BY DEF Tiles
<1>5. \A x \in E : p <= x.off => x = e \/ End(e) <= x.off
  BY <1>2, <1>3, <1>4
<1>6. {x \in E : x.off = p} = {e}
  BY <1>1, <1>2, <1>3, <1>5
<1>7. End(e) \in (p + 1)..n
  BY <1>1, <1>2, <1>3 DEF Tiles
<1>8. PICK b \in Nat : b = End(e)
  BY <1>2
<1>9. Tiles(E, b)
  <2>1. ASSUME NEW q \in 0..(b - 1) PROVE \E x \in E : x.off <= q /\ q < End(x)
    <3>1. CASE q < p
      BY <3>1 DEF Tiles
    <3>2. CASE p <= q
      BY <1>3, <1>8, <3>2
    <3> QED
      BY <3>1, <3>2
  <2>2. ASSUME NEW x \in E, x.off < b PROVE End(x) <= b
    <3>1. x = e \/ End(x) <= p
      BY <1>2, <1>3, <1>4, <1>8, <2>2
    <3> QED
      BY <1>2, <1>3, <1>8, <3>1
  <2>3. \A x, y \in E : x = y \/ End(x) <= y.off \/ End(y) <= x.off
    BY DEF Tiles
  <2> QED
    BY <2>1, <2>2, <2>3 DEF Tiles
<1> QED
  BY <1>5, <1>6, <1>7, <1>8, <1>9

\* A walk between two boundaries of blobs lists the blobs between them.
LEMMA WalkLists ==
  ASSUME NEW k \in FileKeys, NEW E \in SUBSET Extent, NEW n \in 0..MaxDataFileSize,
         NEW p \in 0..n, Tiles(E, n), Tiles(E, p)
  PROVE  Lists(WalkOf(E, k, p, n), Items(k, E, p, n))
<1> DEFINE from[q \in 0..MaxDataFileSize] ==
              LET here == {e \in E : e.off = q}
              IN  IF q >= n THEN <<>>
                  ELSE IF here = {} THEN <<Garbage>>
                  ELSE LET e == CHOOSE x \in here : TRUE
                       IN  <<[key |-> k, off |-> q, blob |-> e.blob]>> \o from[End(e)]
           S == {m \in Nat : \A q \in 0..n : n - q <= m /\ Tiles(E, q)
                                => Lists(from[q], Items(k, E, q, n))}
<1>t. MaxDataFileSize \in Nat /\ n \in Nat /\ n <= MaxDataFileSize /\ p \in Nat
  BY SizeAssumption
<1>1. WalkOf(E, k, p, n) = from[p]
  BY DEF WalkOf
<1>2. from = CHOOSE f : f = [q \in 0..MaxDataFileSize |-> WalkTurn(E, k, n, q, f)]
  BY DEF WalkTurn, At
<1> HIDE DEF from
<1>3. from = [q \in 0..MaxDataFileSize |-> WalkTurn(E, k, n, q, from)]
  BY <1>2, WalkExists
<1>4. \A q \in 0..n : from[q] = WalkTurn(E, k, n, q, from)
  BY <1>t, <1>3
<1>5. Lists(from[n], Items(k, E, n, n))
  <2>1. from[n] = <<>>
    <3>1. from[n] = WalkTurn(E, k, n, n, from) /\ n >= n
      BY <1>t, <1>4
    <3> QED
      BY <3>1 DEF WalkTurn
  <2>2. Items(k, E, n, n) = {}
    <3>1. \A x \in E : x.off \in Nat
      BY EndTyped
    <3> QED
      BY <1>t, <3>1 DEF Items
  <2> QED
    BY <2>1, <2>2, ListedNothing
<1>6. 0 \in S
  <2>1. \A q \in 0..n : n - q <= 0 => q = n
    BY <1>t
  <2> QED
    BY <1>5, <2>1
<1>7. ASSUME NEW m \in Nat, m \in S PROVE m + 1 \in S
  <2> SUFFICES ASSUME NEW q \in 0..n, n - q <= m + 1, Tiles(E, q)
               PROVE  Lists(from[q], Items(k, E, q, n))
    OBVIOUS
  <2>1. CASE q = n
    BY <1>5, <2>1
  <2>2. CASE q < n
    <3>0. q \in 0..(n - 1)
      BY <1>t, <2>2
    <3>1. PICK e \in E : /\ {x \in E : x.off = q} = {e}
                         /\ End(e) \in (q + 1)..n /\ Tiles(E, End(e))
                         /\ \A x \in E : q <= x.off => x = e \/ End(e) <= x.off
      BY <1>t, <3>0, BlobAtBoundary
    <3>2. At(E, q) = e /\ e.off = q
      BY <3>1 DEF At
    <3>3. PICK m1 : m1 = [key |-> k, off |-> q, blob |-> e.blob]
      OBVIOUS
    <3>4. from[q] = <<m1>> \o from[End(e)]
      <4>1. ~(q >= n) /\ {x \in E : x.off = q} # {}
        BY <1>t, <2>2, <3>1
      <4> QED
        BY <1>4, <3>2, <3>3, <4>1 DEF WalkTurn
    <3>5. Lists(from[End(e)], Items(k, E, End(e), n))
      <4>1. End(e) \in 0..n /\ n - End(e) <= m
        BY <1>t, <3>1
      <4> QED
        BY <1>7, <3>1, <4>1
    <3>6. m1 \in Metadata
      <4>1. q \in 0..MaxDataFileSize /\ e.blob \in Blobs
        BY <1>t DEF Extent
      <4> QED
        BY <3>3, <4>1 DEF Metadata
    <3>7. \A y \in Items(k, E, End(e), n) : Before(m1, y)
      <4>1. \A x \in E : End(e) <= x.off => q < x.off
        BY <1>t, <3>1, EndTyped
      <4> QED
        BY <3>3, <4>1 DEF Items, Before
    <3>8. Items(k, E, q, n) = {m1} \cup Items(k, E, End(e), n)
      <4>1. \A x \in E : x.off \in Nat /\ End(e) \in Nat /\ q < End(e)
        BY <1>t, <3>1, EndTyped
      <4>2. \A x \in E : q <= x.off /\ x.off < n
                           <=> x = e \/ (End(e) <= x.off /\ x.off < n)
        BY <1>t, <2>2, <3>1, <3>2, <4>1
      <4> QED
        BY <3>2, <3>3, <4>2 DEF Items
    <3>9. Lists(<<m1>>, {m1})
      BY <3>6, ListedOne
    <3>10. Lists(<<m1>> \o from[End(e)], {m1} \cup Items(k, E, End(e), n))
      BY <3>5, <3>7, <3>9, ListedConcat
    <3> QED
      BY <3>4, <3>8, <3>10
  <2> QED
    BY <1>t, <2>1, <2>2
<1>8. n \in S
  <2> HIDE DEF S
  <2> QED
    BY <1>t, <1>6, <1>7, Induction
<1>9. n - p <= n
  BY <1>t
<1> QED
  BY <1>1, <1>8, <1>9

\* Lists one behind the other, put together.
FlatTurn(W, i, f) == IF i = 1 THEN W[i] ELSE f[i - 1] \o W[i]

LEMMA FlattenExists ==
  ASSUME NEW W, NEW n \in Nat
  PROVE  \E f : f = [i \in 1..n |-> FlatTurn(W, i, f)]
<1> DEFINE Upto(m, f) == f = [i \in 1..m |-> FlatTurn(W, i, f)]
           S == {m \in Nat : \E f : Upto(m, f)}
<1>1. 0 \in S
  <2>1. Upto(0, [i \in 1..0 |-> <<>>])
    OBVIOUS
  <2> QED
    BY <2>1
<1>2. ASSUME NEW m \in Nat, m \in S PROVE m + 1 \in S
  <2>1. PICK f : Upto(m, f)
    BY <1>2
  <2> DEFINE g == [i \in 1..(m + 1) |-> IF i = m + 1 THEN FlatTurn(W, i, f) ELSE f[i]]
  <2>2. ASSUME NEW i \in 1..(m + 1) PROVE g[i] = FlatTurn(W, i, g)
    <3>1. i # 1 => g[i - 1] = f[i - 1]
      OBVIOUS
    <3>2. FlatTurn(W, i, f) = FlatTurn(W, i, g)
      <4> HIDE DEF g
      <4> QED
        BY <3>1 DEF FlatTurn
    <3>3. i # m + 1 => i \in 1..m /\ f[i] = FlatTurn(W, i, f)
      BY <2>1
    <3> QED
      BY <3>2, <3>3
  <2>3. Upto(m + 1, g)
    BY <2>2
  <2> HIDE DEF g, Upto
  <2> QED
    BY <2>3
<1> HIDE DEF S
<1>3. n \in S
  BY <1>1, <1>2, Induction
<1> QED
  BY <1>3 DEF S

LEMMA FlattenUnfolds ==
  ASSUME NEW W, Len(W) \in Nat \ {0}
  PROVE  \E f : /\ FlattenSeq(W) = f[Len(W)]
                /\ f = [i \in 1..Len(W) |-> FlatTurn(W, i, f)]
<1> DEFINE flatten[i \in 1..Len(W)] == IF i = 1 THEN W[i] ELSE flatten[i - 1] \o W[i]
<1>1. FlattenSeq(W) = flatten[Len(W)]
  BY DEF FlattenSeq
<1>2. flatten = CHOOSE f : f = [i \in 1..Len(W) |-> FlatTurn(W, i, f)]
  BY DEF FlatTurn
<1> HIDE DEF flatten
<1>3. flatten = [i \in 1..Len(W) |-> FlatTurn(W, i, flatten)]
  BY <1>2, FlattenExists
<1> QED
  BY <1>1, <1>3

LEMMA FlattenLists ==
  ASSUME NEW n \in Nat \ {0}, NEW W, NEW T, NEW A, W \in Seq(Seq(Metadata)), Len(W) = n,
         A = UNION {T[i] : i \in 1..n},
         \A i \in 1..n : Lists(W[i], T[i]),
         \A i, j \in 1..n : i < j => \A x \in T[i], y \in T[j] : Before(x, y)
  PROVE  Lists(FlattenSeq(W), A)
<1>1. PICK flatten : /\ FlattenSeq(W) = flatten[n]
                     /\ flatten = [i \in 1..n |-> FlatTurn(W, i, flatten)]
  BY FlattenUnfolds
<1> DEFINE Upto(m) == UNION {T[i] : i \in 1..m}
           S == {m \in Nat : m + 1 <= n => Lists(flatten[m + 1], Upto(m + 1))}
<1>3. flatten = [i \in 1..n |-> FlatTurn(W, i, flatten)]
  BY <1>1
<1>4. 0 \in S
  <2>1. flatten[1] = W[1]
    BY <1>3 DEF FlatTurn
  <2>2. Upto(1) = T[1]
    OBVIOUS
  <2> HIDE DEF Upto
  <2>3. Lists(flatten[0 + 1], Upto(0 + 1))
    BY <2>1, <2>2
  <2> QED
    BY <2>3
<1>5. ASSUME NEW m \in Nat, m \in S PROVE m + 1 \in S
  <2> SUFFICES ASSUME (m + 1) + 1 <= n PROVE Lists(flatten[(m + 1) + 1], Upto((m + 1) + 1))
    OBVIOUS
  <2>1. PICK i \in 1..n : i = (m + 1) + 1 /\ i - 1 = m + 1 /\ i # 1 /\ m + 1 \in 1..n
    OBVIOUS
  <2>2. flatten[i] = flatten[m + 1] \o W[i]
    BY <1>3, <2>1 DEF FlatTurn
  <2>3. Lists(flatten[m + 1], Upto(m + 1))
    <3> HIDE DEF Upto
    <3> QED
      BY <1>5, <2>1
  <2>4. \A j \in 1..(m + 1) : j \in 1..n /\ j < i
    BY <2>1
  <2>5. \A x \in Upto(m + 1), y \in T[i] : Before(x, y)
    BY <2>4
  <2>6. \A j : j \in 1..i <=> j = i \/ j \in 1..(m + 1)
    BY <2>1
  <2>7. Upto(i) = Upto(m + 1) \cup T[i]
    BY <2>6, Zenon
  <2>8. Lists(W[i], T[i])
    OBVIOUS
  <2> HIDE DEF Upto
  <2>9. Lists(flatten[m + 1] \o W[i], Upto(m + 1) \cup T[i])
    BY <2>3, <2>5, <2>8, ListedConcat
  <2> QED
    BY <2>1, <2>2, <2>7, <2>9
<1>6. n - 1 \in S
  <2> HIDE DEF S
  <2>1. n - 1 \in Nat
    OBVIOUS
  <2> QED
    BY <1>4, <1>5, <2>1, Induction
<1>7. (n - 1) + 1 = n
  OBVIOUS
<1> QED
  BY <1>1, <1>6, <1>7

\* Every blob below a committed length.
AllItems(D, C) == UNION {Items(k, D[k], 0, C[k]) : k \in FileKeys}

\* Where the committed prefixes are tiled, a reload lists just the blobs in them.
LEMMA ReloadOf ==
  ASSUME NEW D \in [FileKeys -> SUBSET Extent], NEW C \in [FileKeys -> 0..MaxDataFileSize],
         \A k \in FileKeys : Tiles(D[k], C[k])
  PROVE  Lists(FlattenSeq([i \in 1..(MaxFileKey + 1) |-> WalkOf(D[i - 1], i - 1, 0, C[i - 1])]),
               AllItems(D, C))
<1> DEFINE n == MaxFileKey + 1
           W == [i \in 1..n |-> WalkOf(D[i - 1], i - 1, 0, C[i - 1])]
           T == [i \in 1..n |-> Items(i - 1, D[i - 1], 0, C[i - 1])]
<1>1. n \in Nat \ {0} /\ \A i \in 1..n : i - 1 \in FileKeys
  BY BoundAssumption DEF FileKeys
<1>2. ASSUME NEW i \in 1..n PROVE Lists(W[i], T[i])
  <2>1. PICK k \in FileKeys : k = i - 1
    BY <1>1
  <2>2. D[k] \in SUBSET Extent /\ C[k] \in 0..MaxDataFileSize /\ 0 \in 0..C[k] /\ Tiles(D[k], C[k])
    BY SizeAssumption
  <2>3. Tiles(D[k], 0)
    <3>1. \A e \in D[k] : e.off \in Nat
      BY <2>2, EndTyped
    <3>2. \A e, f \in D[k] : e = f \/ End(e) <= f.off \/ End(f) <= e.off
      BY <2>2 DEF Tiles
    <3> QED
      BY <3>1, <3>2 DEF Tiles
  <2>4. Lists(WalkOf(D[k], k, 0, C[k]), Items(k, D[k], 0, C[k]))
    BY <2>2, <2>3, WalkLists
  <2> QED
    BY <2>1, <2>4
<1>3. ASSUME NEW i \in 1..n, NEW j \in 1..n, i < j, NEW x \in T[i], NEW y \in T[j]
      PROVE  Before(x, y)
  <2>1. x.key = i - 1 /\ y.key = j - 1
    BY DEF Items
  <2> QED
    BY <1>1, <1>3, <2>1 DEF Before
<1>4. W \in Seq(Seq(Metadata)) /\ Len(W) = n
  <2>1. \A i \in 1..n : W[i] \in Seq(Metadata)
    BY <1>2 DEF Lists
  <2>2. W \in [1..n -> Seq(Metadata)]
    BY <2>1
  <2>3. n \in Nat
    BY <1>1
  <2> HIDE DEF W, n
  <2> QED
    BY <2>2, <2>3
<1>5. UNION {T[i] : i \in 1..n} = AllItems(D, C)
  <2>1. \A k \in FileKeys : k + 1 \in 1..n /\ (k + 1) - 1 = k
    BY BoundAssumption DEF FileKeys
  <2>2. \A i \in 1..n : T[i] \in {Items(k, D[k], 0, C[k]) : k \in FileKeys}
    BY <1>1
  <2>3. \A k \in FileKeys : Items(k, D[k], 0, C[k]) = T[k + 1]
    BY <2>1
  <2>4. \A k \in FileKeys : Items(k, D[k], 0, C[k]) \in {T[i] : i \in 1..n}
    <3> HIDE DEF T, n
    <3> QED
      BY <2>1, <2>3
  <2>5. {T[i] : i \in 1..n} = {Items(k, D[k], 0, C[k]) : k \in FileKeys}
    <3> HIDE DEF T, n
    <3> QED
      BY <2>2, <2>4
  <2> QED
    BY <2>5 DEF AllItems
<1>6. Lists(FlattenSeq(W), AllItems(D, C))
  <2> HIDE DEF W, T, n
  <2>1. /\ \A i \in 1..n : Lists(W[i], T[i])
        /\ \A i, j \in 1..n : i < j => \A x \in T[i], y \in T[j] : Before(x, y)
    BY <1>2, <1>3
  <2> QED
    BY <1>1, <1>4, <1>5, <2>1, FlattenLists
<1> QED
  BY <1>6

-----------------------------------------------------------------------------
(* The log and its tail as sets of blobs *)

ExtentOf(m) == [off |-> m.off, blob |-> m.blob]

\* The blobs below the committed lengths.
CommittedItems ==
    {m \in Metadata : ExtentOf(m) \in data[m.key] /\ m.off < Committed(m.key)}

\* Those between the committed length and the write offset of the current file.
Pending ==
    {m \in Metadata : /\ Running /\ m.key = cur /\ ExtentOf(m) \in data[cur]
                      /\ Committed(cur) <= m.off /\ m.off < wo}

Everything == CommittedItems \cup Pending

\* An extent is its offset and its blob.
LEMMA ItemOfExtent ==
  ASSUME NEW k \in FileKeys, NEW e \in Extent
  PROVE  /\ [key |-> k, off |-> e.off, blob |-> e.blob] \in Metadata
         /\ ExtentOf([key |-> k, off |-> e.off, blob |-> e.blob]) = e
  BY DEF Metadata, Extent, ExtentOf

LEMMA ExtentOfItem ==
  ASSUME NEW m \in Metadata
  PROVE  /\ ExtentOf(m) \in Extent /\ ExtentOf(m).off = m.off /\ ExtentOf(m).blob = m.blob
         /\ m = [key |-> m.key, off |-> m.off, blob |-> m.blob]
         /\ m.key \in FileKeys /\ m.off \in Nat
  BY SizeAssumption DEF Metadata, Extent, ExtentOf

\* A reload lists just the committed blobs.
LEMMA ReloadListed == LayoutInv => Lists(Reload, CommittedItems)
<1> SUFFICES ASSUME LayoutInv PROVE Lists(Reload, CommittedItems)
  OBVIOUS
<1> DEFINE C == [k \in FileKeys |-> Committed(k)]
           n == MaxFileKey + 1
<1>1. data \in [FileKeys -> SUBSET Extent] /\ C \in [FileKeys -> 0..MaxDataFileSize]
  BY CommittedTyped DEF LayoutInv, ControlInv, TypeOK, FilesTyped
<1>2. \A k \in FileKeys : C[k] = Committed(k)
  OBVIOUS
<1> HIDE DEF C
<1>3. \A k \in FileKeys : Tiles(data[k], C[k])
  BY <1>2 DEF LayoutInv, Layout, CommittedTiled
<1>4. Lists(FlattenSeq([i \in 1..n |-> WalkOf(data[i - 1], i - 1, 0, C[i - 1])]),
            AllItems(data, C))
  BY <1>1, <1>3, ReloadOf
<1>5. [i \in 1..n |-> WalkOf(data[i - 1], i - 1, 0, C[i - 1])]
         = [i \in 1..n |-> Walk(i - 1, 0, Committed(i - 1))]
  <2>1. ASSUME NEW i \in 1..n
        PROVE  WalkOf(data[i - 1], i - 1, 0, C[i - 1]) = Walk(i - 1, 0, Committed(i - 1))
    <3>1. C[i - 1] = Committed(i - 1)
      BY <1>2, BoundAssumption DEF FileKeys
    <3>2. \A k, m : WalkOf(data[k], k, 0, m) = Walk(k, 0, m)
      BY DEF WalkOf, Walk
    <3> QED
      BY <3>1, <3>2
  <2> QED
    BY <2>1
<1>6. AllItems(data, C) = CommittedItems
  <2>1. ASSUME NEW m \in AllItems(data, C) PROVE m \in CommittedItems
    <3>1. PICK k \in FileKeys : m \in Items(k, data[k], 0, C[k])
      BY DEF AllItems
    <3>2. PICK e \in data[k] : m = [key |-> k, off |-> e.off, blob |-> e.blob] /\ e.off < C[k]
      BY <3>1 DEF Items
    <3>3. e \in Extent
      BY <1>1
    <3>4. m \in Metadata /\ ExtentOf(m) = e /\ m.key = k /\ m.off = e.off
      BY <3>2, <3>3, ItemOfExtent
    <3> QED
      BY <1>2, <3>2, <3>4 DEF CommittedItems
  <2>2. ASSUME NEW m \in CommittedItems PROVE m \in AllItems(data, C)
    <3>1. m \in Metadata /\ ExtentOf(m) \in data[m.key] /\ m.off < Committed(m.key)
      BY DEF CommittedItems
    <3>2. /\ ExtentOf(m).off = m.off /\ ExtentOf(m).blob = m.blob /\ m.key \in FileKeys
          /\ m = [key |-> m.key, off |-> m.off, blob |-> m.blob] /\ m.off \in Nat
      BY <3>1, ExtentOfItem
    <3>3. 0 <= m.off /\ m.off < C[m.key]
      BY <1>2, <3>1, <3>2
    <3>4. m \in Items(m.key, data[m.key], 0, C[m.key])
      BY <3>1, <3>2, <3>3 DEF Items
    <3> QED
      BY <3>2, <3>4 DEF AllItems
  <2> QED
    BY <2>1, <2>2
<1> QED
  BY <1>4, <1>5, <1>6 DEF Reload

\* What is not committed is listed by a walk on from the committed length.
LEMMA UncommittedListed == LayoutInv => Lists(Uncommitted, Pending)
<1> SUFFICES ASSUME LayoutInv PROVE Lists(Uncommitted, Pending)
  OBVIOUS
<1>1. CASE ~Running
  <2>1. Uncommitted = <<>> /\ Pending = {}
    BY <1>1 DEF Uncommitted, Pending, Running
  <2> QED
    BY <2>1, ListedNothing
<1>2. CASE Running
  <2>1. /\ cur \in FileKeys /\ data[cur] \in SUBSET Extent /\ wo \in 0..MaxDataFileSize
        /\ Committed(cur) \in 0..wo
    <3>1. /\ cur \in FileKeys /\ data[cur] \in SUBSET Extent /\ wo \in 0..MaxDataFileSize
      BY DEF LayoutInv, ControlInv, TypeOK, FilesTyped, ProcessTyped
    <3>2. Committed(cur) <= wo /\ Committed(cur) \in 0..MaxDataFileSize
      BY <1>2, <3>1, CommittedTyped DEF LayoutInv, ControlInv, Control
    <3> QED
      BY <3>1, <3>2, SizeAssumption
  <2>2. Tiles(data[cur], wo) /\ Tiles(data[cur], Committed(cur))
    BY <1>2, <2>1 DEF LayoutInv, Layout, CommittedTiled
  <2>3. Lists(WalkOf(data[cur], cur, Committed(cur), wo),
              Items(cur, data[cur], Committed(cur), wo))
    BY <2>1, <2>2, WalkLists
  <2>4. Uncommitted = WalkOf(data[cur], cur, Committed(cur), wo)
    BY <1>2 DEF Uncommitted, Running, Walk, WalkOf
  <2>5. Items(cur, data[cur], Committed(cur), wo) = Pending
    <3>1. ASSUME NEW m \in Items(cur, data[cur], Committed(cur), wo) PROVE m \in Pending
      <4>1. PICK e \in data[cur] : /\ m = [key |-> cur, off |-> e.off, blob |-> e.blob]
                                   /\ Committed(cur) <= e.off /\ e.off < wo
        BY DEF Items
      <4>2. m \in Metadata /\ ExtentOf(m) = e /\ m.key = cur /\ m.off = e.off
        BY <2>1, <4>1, ItemOfExtent
      <4> QED
        BY <1>2, <4>1, <4>2 DEF Pending
    <3>2. ASSUME NEW m \in Pending PROVE m \in Items(cur, data[cur], Committed(cur), wo)
      <4>1. /\ m \in Metadata /\ m.key = cur /\ ExtentOf(m) \in data[cur]
            /\ Committed(cur) <= m.off /\ m.off < wo
        BY DEF Pending
      <4>2. /\ ExtentOf(m).off = m.off /\ ExtentOf(m).blob = m.blob
            /\ m = [key |-> m.key, off |-> m.off, blob |-> m.blob]
        BY <4>1, ExtentOfItem
      <4> QED
        BY <4>1, <4>2 DEF Items
    <3> QED
      BY <3>1, <3>2
  <2> QED
    BY <2>3, <2>4, <2>5
<1> QED
  BY <1>1, <1>2

LEMMA ListedAfter ==
  LayoutInv' => Lists(Reload, CommittedItems)' /\ Lists(Uncommitted, Pending)'
<1>1. LayoutInv => Lists(Reload, CommittedItems) /\ Lists(Uncommitted, Pending)
  BY ReloadListed, UncommittedListed
<1> QED
  BY <1>1, PTL

\* What is below a committed length stays where it is, and nothing is added there.
LEMMA PrefixKept ==
  ASSUME LayoutInv, [Next]_vars, NEW k \in FileKeys, NEW e \in Extent, e.off < Committed(k)
  PROVE  e \in data'[k] <=> e \in data[k]
<1>t. /\ data \in [FileKeys -> SUBSET Extent] /\ wo \in Nat /\ cur \in FileKeys
      /\ Committed(k) \in Nat /\ End(e) \in Nat /\ e.off \in Nat
  BY CommittedTyped, EndTyped, SizeAssumption
  DEF LayoutInv, ControlInv, TypeOK, FilesTyped, ProcessTyped
<1>1. PutInternal => Committed(cur) <= wo
  BY DEF PutInternal, LayoutInv, ControlInv, Control, Running
<1>2. ASSUME e \in data[k] PROVE e \in data'[k]
  <2>1. e \in disk[k] /\ End(e) <= Committed(k)
    BY <1>2 DEF LayoutInv, Layout, CommittedFlushed, CommittedTiled, Tiles
  <2>2. ~(PutInternal /\ k = cur /\ wo < End(e))
    BY <1>t, <1>1, <2>1
  <2> QED
    BY <1>2, <2>1, <2>2, ExtentsKept DEF LayoutInv
<1>3. ASSUME e \in data'[k], e \notin data[k] PROVE FALSE
  <2>1. CASE PutInternal
    <3>1. k = cur /\ e = [off |-> wo, blob |-> NextBlob]
      BY <1>t, <1>3, <2>1 DEF PutInternal, Overwrite
    <3> QED
      BY <1>t, <1>1, <2>1, <3>1
  <2>2. CASE PowerLoss
    BY <1>3, <2>2 DEF PowerLoss
  <2> QED
    BY <1>3, <2>1, <2>2, FilesKept DEF LayoutInv
<1> QED
  BY <1>2, <1>3

Commits == SetOldLength \/ SetLength

\* Only the steps that record a length change what is committed ...
LEMMA CommittedStays ==
  ASSUME LayoutInv, [Next]_vars, ~Commits
  PROVE  CommittedItems' = CommittedItems
<1>1. \A k \in FileKeys : Committed(k)' = Committed(k)
  BY CommittedMoves DEF LayoutInv, Commits
<1>2. ASSUME NEW m \in Metadata
      PROVE  ExtentOf(m) \in data'[m.key] /\ m.off < Committed(m.key)'
                <=> ExtentOf(m) \in data[m.key] /\ m.off < Committed(m.key)
  <2>1. m.key \in FileKeys /\ ExtentOf(m) \in Extent /\ ExtentOf(m).off = m.off
    BY ExtentOfItem
  <2>2. m.off < Committed(m.key) => (ExtentOf(m) \in data'[m.key] <=> ExtentOf(m) \in data[m.key])
    BY <2>1, PrefixKept
  <2> QED
    BY <1>1, <2>1, <2>2
<1>3. CommittedItems' = {m \in Metadata : ExtentOf(m) \in data'[m.key] /\ m.off < Committed(m.key)'}
  BY DEF CommittedItems, ExtentOf, Committed
<1> QED
  BY <1>2, <1>3 DEF CommittedItems

\* ... and they commit all that was not.
LEMMA CommitsAll ==
  ASSUME LayoutInv, [Next]_vars, Commits
  PROVE  CommittedItems' = Everything /\ Pending' = {}
<1>t. cur \in FileKeys /\ wo \in Nat /\ \A k \in FileKeys : Committed(k) \in Nat
  BY CommittedTyped, SizeAssumption DEF LayoutInv, ControlInv, TypeOK, ProcessTyped
<1>1. /\ UNCHANGED data /\ Running /\ cur' = cur /\ wo' = wo
      /\ Committed(cur) <= wo
  BY DEF Commits, SetOldLength, SetLength, Finish, LayoutInv, ControlInv, Control, Running
<1>2. \A k \in FileKeys : Committed(k)' = IF k = cur THEN wo ELSE Committed(k)
  <2>1. rec' = [rec EXCEPT ![cur] = wo]
    BY DEF Commits, SetOldLength, SetLength
  <2>2. rec \in [FileKeys -> {NoRecord, Unset} \cup 0..MaxDataFileSize]
    BY DEF LayoutInv, ControlInv, TypeOK, FilesTyped
  <2> QED
    BY <1>t, <2>1, <2>2 DEF Committed
<1>3. CommittedItems' = {m \in Metadata : ExtentOf(m) \in data[m.key] /\ m.off < Committed(m.key)'}
  BY <1>1 DEF CommittedItems, ExtentOf, Committed
<1>4. ASSUME NEW m \in Metadata
      PROVE  m \in CommittedItems' <=> m \in Everything
  <2>1. m.key \in FileKeys /\ m.off \in Nat
    BY ExtentOfItem
  <2>2. CASE m.key = cur
    <3>1. m \in CommittedItems' <=> ExtentOf(m) \in data[cur] /\ m.off < wo
      BY <1>2, <1>3, <2>1, <2>2
    <3>2. m \in Everything <=> /\ ExtentOf(m) \in data[cur]
                               /\ m.off < Committed(cur) \/ (Committed(cur) <= m.off /\ m.off < wo)
      BY <1>1, <2>2 DEF Everything, CommittedItems, Pending
    <3> QED
      BY <1>t, <1>1, <2>1, <3>1, <3>2
  <2>3. CASE m.key # cur
    BY <1>2, <1>3, <2>1, <2>3 DEF Everything, CommittedItems, Pending
  <2> QED
    BY <2>2, <2>3
<1>5. CommittedItems' \subseteq Metadata /\ Everything \subseteq Metadata
  BY <1>3 DEF Everything, CommittedItems, Pending
<1>6. Pending' = {}
  <2>1. Committed(cur)' = wo' /\ wo' \in Nat /\ cur' = cur
    BY <1>t, <1>1, <1>2
  <2>2. Pending' \subseteq {m \in Metadata : wo <= m.off /\ m.off < wo}
    BY <1>1, <2>1 DEF Pending, Committed
  <2>3. \A m \in Metadata : m.off \in Nat
    BY ExtentOfItem
  <2> QED
    BY <1>t, <2>2, <2>3
<1> QED
  BY <1>4, <1>5, <1>6

\* PutInternal adds a blob behind all that is written.
LEMMA PutAdds ==
  ASSUME LayoutInv, PutInternal
  PROVE  LET new == [key |-> cur, off |-> wo, blob |-> NextBlob]
         IN  /\ new \in Metadata /\ Pending' = Pending \cup {new}
             /\ metas' = Append(metas, new) /\ Running' /\ cur' = cur
<1> DEFINE new == [key |-> cur, off |-> wo, blob |-> NextBlob]
           e1 == [off |-> wo, blob |-> NextBlob]
<1>t. /\ cur \in FileKeys /\ wo \in 0..MaxDataFileSize /\ wo \in Nat
      /\ Committed(cur) \in Nat /\ data \in [FileKeys -> SUBSET Extent]
  BY CommittedTyped, SizeAssumption DEF LayoutInv, ControlInv, TypeOK, ProcessTyped, FilesTyped
<1>1. /\ Len(metas) < Len(batch)
      /\ NextBlob \in Blobs /\ Size[NextBlob] \in Nat \ {0}
  BY NextBlobInBlobs DEF PutInternal, LayoutInv, ControlInv, Control
<1>2. /\ Running /\ Running' /\ Committed(cur) <= wo /\ cur' = cur
      /\ wo' = wo + Size[NextBlob] /\ rec' = rec
      /\ metas' = Append(metas, new)
      /\ data' = [data EXCEPT ![cur] = Overwrite(@, wo, NextBlob) \cup {e1}]
  BY DEF PutInternal, LayoutInv, ControlInv, Control, Running
<1>3. new \in Metadata /\ ExtentOf(new) = e1 /\ e1 \in Extent /\ new.key = cur /\ new.off = wo
  BY <1>t, <1>1 DEF Metadata, ExtentOf, Extent
<1>4. Tiles(data[cur], wo)
  BY <1>2 DEF LayoutInv, Layout
<1>5. Pending' = {m \in Metadata : /\ m.key = cur /\ ExtentOf(m) \in data'[cur]
                                   /\ Committed(cur) <= m.off /\ m.off < wo + Size[NextBlob]}
  BY <1>2 DEF Pending, ExtentOf, Committed
<1>6. ASSUME NEW m \in Metadata, m.key = cur
      PROVE  ExtentOf(m) \in data'[cur] /\ m.off < wo + Size[NextBlob]
                <=> m = new \/ (ExtentOf(m) \in data[cur] /\ m.off < wo)
  <2>1. PICK e \in Extent : e = ExtentOf(m) /\ e.off = m.off /\ e.blob = m.blob
    BY ExtentOfItem
  <2>2. e.off \in Nat /\ End(e) \in Nat /\ e.off < End(e)
    BY EndTyped
  <2>3. e \in data'[cur] <=> e = e1 \/ (e \in data[cur] /\ (End(e) <= wo \/ wo + Size[NextBlob] <= e.off))
    BY <1>t, <1>2 DEF Overwrite
  <2>4. e = e1 <=> m = new
    BY <1>3, <1>6, <2>1, ExtentOfItem
  <2>5. e \in data[cur] /\ e.off < wo => End(e) <= wo
    BY <1>4 DEF Tiles
  <2>6. m = new => m.off < wo + Size[NextBlob]
    BY <1>t, <1>1, <1>3
  <2>7. e.off < wo => e.off < wo + Size[NextBlob]
    BY <1>t, <1>1, <2>2
  <2>8. End(e) <= wo => e.off < wo
    BY <1>t, <2>2
  <2>9. ~(e.off < wo + Size[NextBlob] /\ wo + Size[NextBlob] <= e.off)
    BY <1>t, <1>1, <2>2
  <2> HIDE DEF e1, new
  <2> QED
    BY <2>1, <2>3, <2>4, <2>5, <2>6, <2>7, <2>8, <2>9
<1>7. Pending = {m \in Metadata : /\ m.key = cur /\ ExtentOf(m) \in data[cur]
                                  /\ Committed(cur) <= m.off /\ m.off < wo}
  BY <1>2 DEF Pending
<1>8. ASSUME NEW m \in Metadata
      PROVE  m \in Pending' <=> m \in Pending \/ m = new
  <2> HIDE DEF new
  <2> QED
    BY <1>2, <1>3, <1>5, <1>6, <1>7
<1>9. Pending' = Pending \cup {new}
  <2>1. Pending' \subseteq Metadata /\ Pending \subseteq Metadata
    BY <1>5, <1>7
  <2> HIDE DEF new
  <2> QED
    BY <1>3, <1>8, <2>1
<1> QED
  BY <1>2, <1>3, <1>9

\* Every other step leaves the beginning of what was pending.
LEMMA OthersDrop ==
  ASSUME LayoutInv, [Next]_vars, ~Commits, ~PutInternal
  PROVE  /\ Pending' \subseteq Pending
         /\ \A x \in Pending', y \in Pending \ Pending' : Before(x, y)
<1>t. /\ cur \in FileKeys /\ wo \in Nat /\ base \in Nat /\ Committed(cur) \in Nat
      /\ rec \in [FileKeys -> {NoRecord, Unset} \cup 0..MaxDataFileSize]
      /\ target \in FileKeys
  BY CommittedTyped, SizeAssumption DEF LayoutInv, ControlInv, TypeOK, ProcessTyped, FilesTyped
<1>m. \A m \in Metadata : m.off \in Nat
  BY ExtentOfItem
<1>1. CASE ~Running'
  BY <1>1 DEF Pending
<1>2. CASE Running' /\ wo' = Committed(cur)' /\ wo' \in Nat
  <2>1. Pending' \subseteq {m \in Metadata : wo' <= m.off /\ m.off < wo'}
    BY <1>2 DEF Pending
  <2>2. Pending' = {}
    BY <1>m, <1>2, <2>1
  <2> QED
    BY <2>2
<1>3. CASE /\ Running /\ Running' /\ cur' = cur /\ UNCHANGED <<data, rec>>
           /\ wo' \in Nat /\ wo' <= wo
  <2>1. Pending = {m \in Metadata : /\ m.key = cur /\ ExtentOf(m) \in data[cur]
                                    /\ Committed(cur) <= m.off /\ m.off < wo}
    BY <1>3 DEF Pending
  <2>2. Pending' = {m \in Metadata : /\ m.key = cur /\ ExtentOf(m) \in data[cur]
                                     /\ Committed(cur) <= m.off /\ m.off < wo'}
    BY <1>3 DEF Pending, ExtentOf, Committed
  <2>3. ASSUME NEW x \in Pending', NEW y \in Pending \ Pending' PROVE Before(x, y)
    <3>1. x \in Metadata /\ y \in Metadata /\ x.key = cur /\ y.key = cur /\ x.off < wo' /\ ~(y.off < wo')
      BY <2>1, <2>2
    <3>2. x.off < y.off
      BY <1>m, <1>3, <3>1
    <3> QED
      BY <3>1, <3>2 DEF Before
  <2>4. \A m \in Metadata : m.off < wo' => m.off < wo
    BY <1>t, <1>m, <1>3
  <2> QED
    BY <2>1, <2>2, <2>3, <2>4
<1>4. CASE Load
  <2>1. wo' = wo /\ wo = Committed(cur) /\ rec' = rec /\ cur' = cur
    BY <1>4 DEF Load, durable, LayoutInv, ControlInv, Control
  <2>2. Committed(cur)' = Committed(cur)
    BY <2>1 DEF Committed
  <2> QED
    BY <1>t, <1>1, <1>2, <2>1, <2>2
<1>5. CASE SwapFile
  <2>1. rec[target] = Unset /\ wo' = 0 /\ cur' = target /\ rec' = rec
    BY <1>5 DEF SwapFile, durable, LayoutInv, ControlInv, Control, Switching
  <2>2. Committed(cur)' = 0
    BY <2>1 DEF Committed, Unset
  <2> QED
    BY <1>1, <1>2, <2>1, <2>2
<1>6. CASE GetNextDataFileInfo
  <2>1. /\ Running /\ Running' /\ cur' = cur /\ UNCHANGED data /\ wo' = wo
        /\ Committed(cur) <= wo /\ rec[cur] # NoRecord
    BY <1>6 DEF GetNextDataFileInfo, LayoutInv, ControlInv, Control, Running
  <2>2. PICK k \in FileKeys : rec[k] = NoRecord /\ rec' = [rec EXCEPT ![k] = Unset]
    BY <1>6 DEF GetNextDataFileInfo
  <2>3. rec'[cur] = rec[cur]
    BY <1>t, <2>1, <2>2
  <2>4. Pending' = Pending
    BY <2>1, <2>3 DEF Pending, Committed, ExtentOf
  <2> QED
    BY <2>4
<1>7. CASE WriteFails
  <2>1. /\ pc \in {"flushFull", "write", "flush"} /\ Finish(base) /\ UNCHANGED durable
    BY <1>7 DEF WriteFails
  <2>2. Running /\ base <= wo
    BY <2>1 DEF LayoutInv, ControlInv, Control, Running
  <2>3. Running' /\ wo' = base /\ cur' = cur /\ UNCHANGED <<data, rec>>
    BY <2>1, <2>2 DEF Finish, Running, durable
  <2> QED
    BY <1>t, <1>3, <2>2, <2>3
<1>8. CASE Open \/ MapCurrent \/ OpenThrows \/ OpenFails \/ Close \/ ProcessCrash \/ PowerLoss
  <2>1. ~Running'
    BY <1>8 DEF Open, MapCurrent, OpenThrows, OpenFails, Close, ProcessCrash, PowerLoss,
       Forget, Running
  <2> QED
    BY <1>1, <2>1
<1>9. CASE \/ CreateFile \/ TruncateFile \/ Put \/ MultiPut \/ CompressedSizeThrows
           \/ CheckFit \/ FlushFullFile \/ MapNew \/ SwitchFails \/ FlushBatch
           \/ SetLengthFails \/ UNCHANGED vars
  <2>1. UNCHANGED <<data, rec, cur, wo, opening>>
    BY <1>9 DEF CreateFile, TruncateFile, Put, MultiPut, Begin, CompressedSizeThrows,
       CheckFit, FlushFullFile, MapNew, SwitchFails, FlushBatch, SetLengthFails, Finish,
       vars, durable, process
  <2>2. (pc # "down" /\ pc' # "down") \/ pc' = pc
    BY <1>9 DEF CreateFile, TruncateFile, Put, MultiPut, Begin, CompressedSizeThrows,
       CheckFit, FlushFullFile, MapNew, SwitchFails, FlushBatch, SetLengthFails, Finish,
       vars, process
  <2>3. Running' <=> Running
    BY <2>1, <2>2 DEF Running
  <2> QED
    BY <1>t, <1>1, <1>3, <2>1, <2>3
<1> QED
  BY <1>4, <1>5, <1>6, <1>7, <1>8, <1>9 DEF Next, Commits

-----------------------------------------------------------------------------
(* The order of the log *)

\* Nothing is committed behind the current file.
CurrentIsLast ==
    /\ Running \/ pc = "load" => \A k \in FileKeys : k > cur => Committed(k) = 0
    /\ opening => IsLastFileKey(target)
    /\ Switching => cur < target

\* The batch under way has written the last blobs of all.
WrittenLast ==
    /\ InOrder(metas)
    /\ \A i \in DOMAIN metas : metas[i] \in Everything
    /\ \A i \in DOMAIN metas : \A y \in Everything :
          Before(metas[i], y) => \E j \in DOMAIN metas : metas[j] = y
    /\ pc \in {"flush", "length"} => metas # <<>>

\* Blobs are acknowledged in the order of their places.
AckedInOrder ==
    /\ InOrder(acked)
    /\ \A i \in DOMAIN acked, j \in DOMAIN metas : Before(acked[i], metas[j])

Ordered == CurrentIsLast /\ WrittenLast /\ AckedInOrder

OrderInv == LayoutInv /\ Acknowledged /\ Ordered

LEMMA OrderInit == Init => Ordered
<1> SUFFICES ASSUME Init PROVE Ordered
  OBVIOUS
<1>1. CurrentIsLast
  BY DEF Init, CurrentIsLast, Running, Switching
<1>2. WrittenLast
  BY DEF Init, WrittenLast, InOrder
<1>3. AckedInOrder
  BY DEF Init, AckedInOrder, InOrder
<1> QED
  BY <1>1, <1>2, <1>3 DEF Ordered

\* A step that starts, ends or leaves alone an operation moves no committed length; a
\* switch goes on to a file behind the current one.
LEMMA CurrentStaysLast ==
  ASSUME ControlInv, ControlInv', CurrentIsLast, [Next]_vars
  PROVE  CurrentIsLast'
<1>t. /\ cur \in FileKeys /\ target \in FileKeys /\ FileKeys \subseteq Nat
      /\ rec \in [FileKeys -> {NoRecord, Unset} \cup 0..MaxDataFileSize]
      /\ cur' \in FileKeys /\ target' \in FileKeys
  BY BoundAssumption DEF ControlInv, TypeOK, ProcessTyped, FilesTyped, FileKeys
<1>1. ASSUME Running' \/ pc' = "load", NEW k \in FileKeys, k > cur'
      PROVE  Committed(k)' = 0
  <2>1. CASE Running \/ pc = "load"
    <3>1. cur' = cur \/ (cur' = target /\ SwapFile)
      BY <1>1, <2>1 DEF Next, vars, process, durable, Open, MapCurrent, Load, OpenThrows,
         OpenFails, Forget, CreateFile, TruncateFile, Put, MultiPut, Begin,
         CompressedSizeThrows, CheckFit, FlushFullFile, GetNextDataFileInfo, MapNew,
         SetOldLength, SwapFile, SwitchFails, PutInternal, FlushBatch, WriteFails, SetLength,
         SetLengthFails, Finish, Close, ProcessCrash, PowerLoss, Running
    <3>2. SwapFile => cur < target
      BY DEF SwapFile, CurrentIsLast, Switching, ControlInv, Control
    <3>3. k > cur
      BY <1>t, <1>1, <3>1, <3>2
    <3>4. Committed(k) = 0
      BY <2>1, <3>3 DEF CurrentIsLast
    <3>5. k # cur
      BY <1>t, <3>3
    <3> QED
      BY <3>4, <3>5, CommittedMoves
  <2>2. CASE ~Running /\ pc # "load"
    <3>1. MapCurrent
      BY <1>1, <2>2 DEF Next, vars, process, durable, Open, Load, OpenThrows, OpenFails, Forget,
         CreateFile, TruncateFile, Put, MultiPut, Begin, CompressedSizeThrows, CheckFit,
         FlushFullFile, GetNextDataFileInfo, MapNew, SetOldLength, SwapFile, SwitchFails,
         PutInternal, FlushBatch, WriteFails, SetLength, SetLengthFails, Finish, Close,
         ProcessCrash, PowerLoss, Running
    <3>2. opening /\ cur' = target /\ rec' = rec
      BY <3>1 DEF MapCurrent, durable
    <3>3. rec[k] = NoRecord
      BY <1>t, <1>1, <3>2 DEF CurrentIsLast, IsLastFileKey
    <3> QED
      BY <3>2, <3>3 DEF Committed, NoRecord
  <2> QED
    BY <2>1, <2>2
<1>2. ASSUME opening' PROVE IsLastFileKey(target)'
  <2>1. CASE Open
    <3>1. CASE \A k \in FileKeys : rec[k] = NoRecord
      <4>1. rec' = [rec EXCEPT ![0] = Unset] /\ target' = 0
        BY <2>1, <3>1 DEF Open, IsLastFileKey
      <4> QED
        BY <1>t, <3>1, <4>1 DEF IsLastFileKey, Unset, NoRecord
    <3>2. CASE ~\A k \in FileKeys : rec[k] = NoRecord
      <4>1. UNCHANGED rec /\ IsLastFileKey(target')
        BY <2>1, <3>2 DEF Open
      <4> QED
        BY <4>1 DEF IsLastFileKey
    <3> QED
      BY <3>1, <3>2
  <2>2. CASE ~Open
    <3>1. opening /\ target' = target /\ rec' = rec
      BY <1>2, <2>2 DEF Next, vars, process, durable, MapCurrent, Load, OpenThrows, OpenFails,
         Forget, CreateFile, TruncateFile, Put, MultiPut, Begin, CompressedSizeThrows,
         CheckFit, FlushFullFile, GetNextDataFileInfo, MapNew, SetOldLength, SwapFile,
         SwitchFails, PutInternal, FlushBatch, WriteFails, SetLength, SetLengthFails, Finish,
         Close, ProcessCrash, PowerLoss, ControlInv, Control
    <3> QED
      BY <3>1 DEF CurrentIsLast, IsLastFileKey
  <2> QED
    BY <2>1, <2>2
<1>3. ASSUME Switching' PROVE cur' < target'
  <2>1. CASE GetNextDataFileInfo
    <3>1. cur' = cur /\ rec[cur] # NoRecord
      BY <2>1 DEF GetNextDataFileInfo, ControlInv, Control, Running
    <3>2. PICK k \in FileKeys : IsLastFileKey(k) /\ target' = k + 1
      BY <2>1 DEF GetNextDataFileInfo
    <3>3. cur <= k
      BY <1>t, <3>1, <3>2 DEF IsLastFileKey
    <3> QED
      BY <1>t, <3>1, <3>2, <3>3
  <2>2. CASE ~GetNextDataFileInfo
    <3>1. Switching /\ cur' = cur /\ target' = target
      BY <1>3, <2>2 DEF Next, vars, process, durable, Open, MapCurrent, Load, OpenThrows,
         OpenFails, Forget, CreateFile, TruncateFile, Put, MultiPut, Begin,
         CompressedSizeThrows, CheckFit, FlushFullFile, MapNew, SetOldLength, SwapFile,
         SwitchFails, PutInternal, FlushBatch, WriteFails, SetLength, SetLengthFails, Finish,
         Close, ProcessCrash, PowerLoss, Switching, ControlInv, Control
    <3> QED
      BY <3>1 DEF CurrentIsLast
  <2> QED
    BY <2>1, <2>2
<1> QED
  BY <1>1, <1>2, <1>3 DEF CurrentIsLast

\* What is committed lies before what is pending, and a new blob behind both.
LEMMA CommittedBeforePending ==
  ASSUME LayoutInv, CurrentIsLast
  PROVE  \A x \in CommittedItems, y \in Pending : Before(x, y)
<1> SUFFICES ASSUME NEW x \in CommittedItems, NEW y \in Pending PROVE Before(x, y)
  OBVIOUS
<1>1. /\ x \in Metadata /\ x.off < Committed(x.key) /\ x.key \in FileKeys /\ x.off \in Nat
      /\ y \in Metadata /\ y.key = cur /\ Running /\ Committed(cur) <= y.off /\ y.off \in Nat
  BY ExtentOfItem DEF CommittedItems, Pending
<1>2. Committed(x.key) \in Nat /\ Committed(x.key) # 0 /\ cur \in FileKeys /\ FileKeys \subseteq Nat
  BY <1>1, CommittedTyped, BoundAssumption
  DEF LayoutInv, ControlInv, TypeOK, ProcessTyped, FileKeys
<1>3. ~(x.key > cur)
  BY <1>1, <1>2 DEF CurrentIsLast
<1>n. x.key \in Nat /\ cur \in Nat
  BY <1>1, <1>2
<1>4. x.key < cur \/ x.key = cur
  BY <1>n, <1>3
<1>5. x.key = cur => x.off < y.off
  BY <1>1, <1>2
<1> QED
  BY <1>1, <1>4, <1>5 DEF Before

LEMMA NewIsLast ==
  ASSUME LayoutInv, CurrentIsLast, Running, Committed(cur) <= wo,
         NEW new \in Metadata, new.key = cur, new.off = wo
  PROVE  \A x \in Everything : Before(x, new)
<1> SUFFICES ASSUME NEW x \in Everything PROVE Before(x, new)
  OBVIOUS
<1>t. /\ cur \in FileKeys /\ FileKeys \subseteq Nat /\ wo \in Nat
      /\ \A k \in FileKeys : Committed(k) \in Nat
      /\ x \in Metadata /\ x.key \in FileKeys /\ x.off \in Nat
  <2>1. x \in Metadata
    BY DEF Everything, CommittedItems, Pending
  <2> QED
    BY <2>1, ExtentOfItem, CommittedTyped, SizeAssumption, BoundAssumption
    DEF LayoutInv, ControlInv, TypeOK, ProcessTyped, FileKeys
<1>1. CASE x \in CommittedItems
  <2>1. x.off < Committed(x.key)
    BY <1>1 DEF CommittedItems
  <2>n. /\ x.key \in Nat /\ cur \in Nat /\ Committed(x.key) \in Nat
        /\ Committed(cur) \in Nat
    BY <1>t
  <2>z. Committed(x.key) # 0
    BY <1>t, <2>1, <2>n
  <2>2. ~(x.key > cur)
    BY <1>t, <2>z DEF CurrentIsLast
  <2>k. x.key < cur \/ x.key = cur
    BY <2>n, <2>2
  <2>3. x.key = cur => x.off < wo
    BY <1>t, <2>1, <2>n
  <2> QED
    BY <2>k, <2>3 DEF Before
<1>2. CASE x \in Pending
  BY <1>2 DEF Pending, Before
<1> QED
  BY <1>1, <1>2 DEF Everything

\* The acknowledged blobs are committed.
LEMMA AckedCommitted ==
  ASSUME LayoutInv, AckedDurable, NEW i \in DOMAIN acked
  PROVE  acked[i] \in CommittedItems
<1>1. PICK m \in Metadata : m = acked[i] /\ Stored(m)
  BY DEF LayoutInv, ControlInv, TypeOK, HistoryTyped, AckedDurable
<1>2. /\ ExtentOf(m) \in data[m.key] /\ End(ExtentOf(m)) <= Committed(m.key)
      /\ ExtentOf(m) \in Extent /\ ExtentOf(m).off = m.off /\ m.key \in FileKeys
  BY <1>1, ExtentOfItem DEF Stored, ExtentOf
<1>3. m.off < Committed(m.key)
  BY <1>2, EndTyped, CommittedTyped DEF LayoutInv, ControlInv
<1> QED
  BY <1>1, <1>2, <1>3 DEF CommittedItems

\* Every step keeps the order of what the batch has written.
LEMMA WrittenStaysLast ==
  ASSUME OrderInv, [Next]_vars
  PROVE  WrittenLast'
<1>t. metas \in Seq(Metadata)
  BY DEF OrderInv, LayoutInv, ControlInv, TypeOK, ProcessTyped
<1>1. CASE metas' = <<>> /\ pc' \notin {"flush", "length"}
  BY <1>1 DEF WrittenLast, InOrder
<1>2. CASE PutInternal
  <2>1. PICK new \in Metadata :
            /\ new = [key |-> cur, off |-> wo, blob |-> NextBlob]
            /\ Pending' = Pending \cup {new} /\ metas' = Append(metas, new)
    BY <1>2, PutAdds DEF OrderInv
  <2>2. CommittedItems' = CommittedItems
    BY <1>2, CommittedStays DEF OrderInv, Commits, PutInternal, SetOldLength, SetLength
  <2>3. Everything' = Everything \cup {new}
    BY <2>1, <2>2 DEF Everything
  <2>4. \A x \in Everything : Before(x, new)
    <3>1. Running /\ Committed(cur) <= wo /\ new.key = cur /\ new.off = wo
      BY <1>2, <2>1 DEF PutInternal, OrderInv, LayoutInv, ControlInv, Control, Running
    <3> QED
      BY <3>1, NewIsLast DEF OrderInv, Ordered
  <2>5. PICK u \in Seq(Metadata) : u = metas'
    BY <1>t, <2>1
  <2>6. /\ Len(metas) \in Nat /\ Len(u) = Len(metas) + 1 /\ DOMAIN metas = 1..Len(metas)
        /\ u[Len(u)] = new /\ \A i \in DOMAIN metas : u[i] = metas[i]
        /\ DOMAIN u = 1..Len(u)
    BY <1>t, <2>1, <2>5
  <2>7. \A i \in DOMAIN u : i = Len(u) \/ i \in DOMAIN metas
    BY <2>6
  <2>w. /\ InOrder(metas) /\ \A i \in DOMAIN metas : metas[i] \in Everything
        /\ \A i \in DOMAIN metas : \A y \in Everything :
              Before(metas[i], y) => \E j \in DOMAIN metas : metas[j] = y
    BY DEF OrderInv, Ordered, WrittenLast
  <2>8. InOrder(u)
    <3> SUFFICES ASSUME NEW i \in DOMAIN u, NEW j \in DOMAIN u, i < j
                 PROVE  Before(u[i], u[j])
      BY DEF InOrder
    <3>1. i \in DOMAIN metas
      BY <2>6
    <3>2. CASE j = Len(u)
      BY <2>4, <2>6, <2>w, <3>1, <3>2
    <3>3. CASE j \in DOMAIN metas
      BY <2>6, <2>w, <3>1, <3>3 DEF InOrder
    <3> QED
      BY <2>7, <3>2, <3>3
  <2>9. \A i \in DOMAIN u : u[i] \in Everything'
    BY <2>3, <2>6, <2>7, <2>w
  <2>10. ASSUME NEW i \in DOMAIN u, NEW y \in Everything', Before(u[i], y)
         PROVE  \E j \in DOMAIN u : u[j] = y
    <3>0. Len(u) \in DOMAIN u /\ \A j \in DOMAIN metas : j \in DOMAIN u
      BY <2>6
    <3>1. CASE y = new
      BY <2>6, <3>0, <3>1
    <3>2. CASE y \in Everything
      <4>1. y \in Metadata
        BY <3>2 DEF Everything, CommittedItems, Pending
      <4>2. i # Len(u)
        BY <2>4, <2>6, <2>10, <3>2, <4>1, BeforeIsAnOrder
      <4>3. PICK j \in DOMAIN metas : metas[j] = y
        BY <2>6, <2>7, <2>10, <2>w, <3>2, <4>2
      <4> QED
        BY <2>6, <3>0, <4>3
    <3> QED
      BY <2>3, <3>1, <3>2
  <2>11. u # <<>>
    BY <2>6
  <2> QED
    BY <2>5, <2>8, <2>9, <2>10, <2>11 DEF WrittenLast
<1>3. CASE UNCHANGED metas /\ Everything' = Everything
           /\ (pc' \in {"flush", "length"} => pc \in {"flush", "length"})
  BY <1>3 DEF OrderInv, Ordered, WrittenLast, InOrder
<1>4. CASE InnerStep \/ SwapFile \/ UNCHANGED vars
  <2>1. UNCHANGED metas
    BY <1>4 DEF InnerStep, CheckFit, FlushFullFile, GetNextDataFileInfo, CreateFile,
       TruncateFile, MapNew, SetOldLength, FlushBatch, SwapFile, vars, process
  <2>2. pc' \in {"flush", "length"} => pc \in {"flush", "length"}
    BY <1>4 DEF InnerStep, CheckFit, FlushFullFile, GetNextDataFileInfo, CreateFile,
       TruncateFile, MapNew, SetOldLength, FlushBatch, SwapFile, vars, process
  <2>3. Everything' = Everything
    <3>1. CASE SetOldLength
      BY <3>1, CommitsAll DEF Commits, Everything, OrderInv
    <3>2. CASE SwapFile
      <4>1. CommittedItems' = CommittedItems
        BY <3>2, CommittedStays DEF OrderInv, Commits, SwapFile, SetOldLength, SetLength
      <4>2. rec[cur] = wo /\ wo \in Nat
        BY <3>2, SizeAssumption
        DEF SwapFile, OrderInv, LayoutInv, ControlInv, Control, TypeOK, ProcessTyped
      <4>3. Committed(cur) = wo
        BY <4>2 DEF Committed
      <4>4. \A m \in Metadata : m.off \in Nat
        BY ExtentOfItem
      <4>5. Pending = {}
        BY <4>2, <4>3, <4>4 DEF Pending
      <4>6. Pending' \subseteq Pending
        BY <3>2, OthersDrop DEF OrderInv, Commits, SwapFile, SetOldLength, SetLength, PutInternal
      <4> QED
        BY <4>1, <4>5, <4>6 DEF Everything
    <3>3. CASE ~SetOldLength /\ ~SwapFile
      <4>1. ~Commits /\ UNCHANGED <<data, cur, wo, opening>> /\ (Running' <=> Running)
        BY <1>4, <3>3 DEF InnerStep, CheckFit, FlushFullFile, GetNextDataFileInfo, CreateFile,
           TruncateFile, MapNew, FlushBatch, vars, process, durable, Running, Commits,
           SetLength, Finish
      <4>2. CommittedItems' = CommittedItems
        BY <4>1, CommittedStays DEF OrderInv
      <4>3. cur \in FileKeys
        BY DEF OrderInv, LayoutInv, ControlInv, TypeOK, ProcessTyped
      <4>4. Committed(cur)' = Committed(cur)
        BY <4>1, <4>3, CommittedMoves DEF OrderInv, LayoutInv, Commits, Committed
      <4>5. Pending' = Pending
        BY <4>1, <4>4 DEF Pending, ExtentOf, Committed
      <4> QED
        BY <4>2, <4>5 DEF Everything
    <3> QED
      BY <3>1, <3>2, <3>3
  <2> QED
    BY <1>3, <2>1, <2>2, <2>3
<1>5. CASE Open \/ MapCurrent \/ Load
  <2>1. metas = <<>> /\ UNCHANGED metas /\ pc' \notin {"flush", "length"}
    BY <1>5 DEF Open, MapCurrent, Load, OrderInv, Acknowledged, Running, LayoutInv, ControlInv,
       Control
  <2> QED
    BY <1>1, <2>1
<1>6. CASE \/ OpenThrows \/ OpenFails \/ Put \/ MultiPut \/ CompressedSizeThrows
           \/ SwitchFails \/ WriteFails \/ SetLength \/ SetLengthFails \/ Close
           \/ ProcessCrash \/ PowerLoss
  BY <1>1, <1>6 DEF OpenThrows, OpenFails, Forget, Put, MultiPut, Begin,
     CompressedSizeThrows, SwitchFails, WriteFails, SetLength, SetLengthFails, Finish, Close,
     ProcessCrash, PowerLoss
<1> QED
  BY <1>2, <1>4, <1>5, <1>6 DEF Next, InnerStep

\* The list of the members of a sequence in order is the sequence.
LEMMA ListsItself ==
  ASSUME NEW s \in Seq(Metadata), InOrder(s)
  PROVE  Lists(s, {s[i] : i \in DOMAIN s})
  BY DEF Lists

\* Every step keeps the order of the acknowledged blobs.
LEMMA AckedStayInOrder ==
  ASSUME OrderInv, [Next]_vars
  PROVE  AckedInOrder'
<1>t. metas \in Seq(Metadata) /\ acked \in Seq(Metadata)
  BY DEF OrderInv, LayoutInv, ControlInv, TypeOK, ProcessTyped, HistoryTyped
<1>a. /\ InOrder(acked) /\ InOrder(metas)
      /\ \A i \in DOMAIN acked, j \in DOMAIN metas : Before(acked[i], metas[j])
  BY DEF OrderInv, Ordered, AckedInOrder, WrittenLast
<1>1. CASE UNCHANGED acked /\ (metas' = metas \/ metas' = <<>>)
  BY <1>1, <1>a DEF AckedInOrder, InOrder
<1>2. CASE PutInternal
  <2>1. PICK new \in Metadata :
            /\ new = [key |-> cur, off |-> wo, blob |-> NextBlob]
            /\ metas' = Append(metas, new)
    BY <1>2, PutAdds DEF OrderInv
  <2>2. \A x \in Everything : Before(x, new)
    <3>1. Running /\ Committed(cur) <= wo /\ new.key = cur /\ new.off = wo
      BY <1>2, <2>1 DEF PutInternal, OrderInv, LayoutInv, ControlInv, Control, Running
    <3> QED
      BY <3>1, NewIsLast DEF OrderInv, Ordered
  <2>3. \A i \in DOMAIN acked : acked[i] \in Everything
    BY AckedCommitted DEF OrderInv, Acknowledged, Everything
  <2>w. Append(metas, new) \in Seq(Metadata)
    BY <1>t, <2>1, AppendProperties
  <2>4. PICK u \in Seq(Metadata) : u = metas'
    BY <2>1, <2>w
  <2>5. \A j \in DOMAIN u : u[j] = new \/ (j \in DOMAIN metas /\ u[j] = metas[j])
    BY <1>t, <2>1, <2>4, AppendProperties
  <2>6. acked' = acked
    BY <1>2 DEF PutInternal
  <2>7. \A i \in DOMAIN acked, j \in DOMAIN u : Before(acked[i], u[j])
    BY <1>a, <2>2, <2>3, <2>5
  <2> QED
    BY <1>a, <2>4, <2>6, <2>7 DEF AckedInOrder, InOrder
<1>3. CASE SetLength
  <2>1. acked' = acked \o metas /\ metas' = <<>>
    BY <1>3 DEF SetLength, Finish
  <2> DEFINE A == {acked[i] : i \in DOMAIN acked}
             B == {metas[i] : i \in DOMAIN metas}
  <2>2. Lists(acked, A) /\ Lists(metas, B)
    BY <1>t, <1>a, ListsItself
  <2>3. \A x \in A, y \in B : Before(x, y)
    BY <1>a
  <2>4. Lists(acked \o metas, A \cup B)
    <3> HIDE DEF A, B
    <3> QED
      BY <2>2, <2>3, ListedConcat
  <2>5. InOrder(acked \o metas)
    BY <2>4 DEF Lists
  <2> QED
    BY <2>1, <2>5 DEF AckedInOrder, InOrder
<1> QED
  BY <1>1, <1>2, <1>3 DEF Next, vars, process, Open, MapCurrent, Load, OpenThrows, OpenFails,
     Forget, CreateFile, TruncateFile, Put, MultiPut, Begin, CompressedSizeThrows, CheckFit,
     FlushFullFile, GetNextDataFileInfo, MapNew, SetOldLength, SwapFile, SwitchFails,
     FlushBatch, WriteFails, SetLengthFails, Finish, Close, ProcessCrash, PowerLoss

LEMMA OrderInvariant ==
  ASSUME Oversized = {}
  PROVE  Spec => []OrderInv
<1>1. Init => OrderInv
  BY ControlInit, LayoutInit, AcknowledgedInit, OrderInit DEF OrderInv, LayoutInv
<1>2. OrderInv /\ [Next]_vars => OrderInv'
  <2> SUFFICES ASSUME OrderInv, [Next]_vars PROVE OrderInv'
    OBVIOUS
  <2>1. ControlInv /\ ControlInv'
    BY TypeStep, ControlStep DEF OrderInv, LayoutInv, ControlInv
  <2>2. Layout'
    BY <2>1, LayoutStep DEF OrderInv, LayoutInv
  <2>3. Acknowledged'
    BY <2>1, AcknowledgedStep DEF OrderInv, AcknowledgedInv
  <2>4. CurrentIsLast'
    BY <2>1, CurrentStaysLast DEF OrderInv, Ordered
  <2>5. Ordered'
    BY <2>4, WrittenStaysLast, AckedStayInOrder DEF Ordered
  <2> QED
    BY <2>1, <2>2, <2>3, <2>5 DEF OrderInv, LayoutInv
<1> QED
  BY <1>1, <1>2, PTL DEF Spec

-----------------------------------------------------------------------------
(* The theorems *)

LEMMA OrderedReload == OrderInv => ReloadKeepsOrder
<1> SUFFICES ASSUME OrderInv PROVE ReloadKeepsOrder
  OBVIOUS
<1>0. PICK r : r = Reload
  OBVIOUS
<1>1. Lists(r, CommittedItems)
  BY <1>0, ReloadListed DEF OrderInv
<1>2. /\ r \in Seq(Metadata) /\ InOrder(r) /\ CommittedItems = {r[i] : i \in DOMAIN r}
      /\ DOMAIN r = 1..Len(r) /\ Len(r) \in Nat
  BY <1>1 DEF Lists
<1>3. /\ acked \in Seq(Metadata) /\ InOrder(acked)
      /\ DOMAIN acked = 1..Len(acked) /\ Len(acked) \in Nat
  BY DEF OrderInv, LayoutInv, ControlInv, TypeOK, HistoryTyped, Ordered, AckedInOrder
<1>4. ASSUME NEW i \in DOMAIN r, NEW j \in DOMAIN r, ~(i < j), i # j
      PROVE  Before(r[j], r[i])
  <2>1. j < i
    BY <1>2, <1>4
  <2> QED
    BY <1>2, <2>1 DEF InOrder
<1>5. IsInjective(r)
  <2> SUFFICES ASSUME NEW i \in DOMAIN r, NEW j \in DOMAIN r, r[i] = r[j] PROVE i = j
    BY DEF IsInjective
  <2>1. r[i] \in Metadata
    BY <1>2
  <2>2. i < j => Before(r[i], r[j])
    BY <1>2 DEF InOrder
  <2> QED
    BY <1>4, <2>1, <2>2, BeforeIsAnOrder
<1> DEFINE place == [i \in DOMAIN acked |-> CHOOSE p \in DOMAIN r : r[p] = acked[i]]
<1>6. ASSUME NEW i \in DOMAIN acked
      PROVE  place[i] \in DOMAIN r /\ r[place[i]] = acked[i]
  <2>1. acked[i] \in CommittedItems
    BY AckedCommitted DEF OrderInv, Acknowledged
  <2>2. \E p \in DOMAIN r : r[p] = acked[i]
    BY <1>2, <2>1
  <2> QED
    BY <2>2
<1>7. place \in [DOMAIN acked -> DOMAIN r]
  BY <1>6
<1>8. ASSUME NEW i \in DOMAIN acked, NEW j \in DOMAIN acked, i < j
      PROVE  place[i] < place[j]
  <2>1. acked[i] \in Metadata /\ acked[j] \in Metadata /\ Before(acked[i], acked[j])
    BY <1>3, <1>8 DEF InOrder
  <2> HIDE DEF place
  <2>2. place[i] # place[j]
    BY <1>6, <2>1, BeforeIsAnOrder
  <2> QED
    BY <1>4, <1>6, <2>1, <2>2, BeforeIsAnOrder
<1> HIDE DEF place
<1> QED
  BY <1>0, <1>5, <1>6, <1>7, <1>8 DEF ReloadKeepsOrder

\* With blobs that are always accepted, a reload gives the acknowledged blobs in the
\* order in which they were acknowledged and no blob twice, after any file switches,
\* failures, crashes and reopenings.
THEOREM ReloadInOrder == ASSUME Oversized = {} PROVE Spec => []ReloadKeepsOrder
<1>1. Spec => []OrderInv
  BY OrderInvariant
<1>2. OrderInv => ReloadKeepsOrder
  BY OrderedReload
<1> QED
  BY <1>1, <1>2, PTL

\* The steps of BlobManager as steps of the log.
LEMMA ListedNow ==
  ASSUME OrderInv
  PROVE  /\ Lists(Reload, CommittedItems) /\ Lists(Uncommitted, Pending)
         /\ Lists(Reload \o Uncommitted, Everything)
<1>1. Lists(Reload, CommittedItems) /\ Lists(Uncommitted, Pending)
  BY ReloadListed, UncommittedListed DEF OrderInv
<1>2. \A x \in CommittedItems, y \in Pending : Before(x, y)
  BY CommittedBeforePending DEF OrderInv, Ordered
<1>3. Lists(Reload \o Uncommitted, CommittedItems \cup Pending)
  BY <1>1, <1>2, ListedConcat
<1> QED
  BY <1>1, <1>3 DEF Everything

LEMMA CommitsTheLog ==
  ASSUME OrderInv, LayoutInv', [Next]_vars, Commits
  PROVE  Log!CommitQuietly \/ Log!Acknowledge
<1> DEFINE A == CommittedItems'
           P == Pending'
<1>1. A = Everything /\ P = {}
  BY CommitsAll DEF OrderInv
<1>2. Lists(Reload', A) /\ Lists(Uncommitted', P)
  BY ListedAfter DEF Lists, InOrder
<1> HIDE DEF A, P
<1>3. Reload' = Reload \o Uncommitted
  BY <1>1, <1>2, ListedNow, ListedOnce
<1>4. Uncommitted' = <<>>
  BY <1>1, <1>2, ListedNothing, ListedOnce
<1>5. Log!Commit
  BY <1>3, <1>4 DEF Log!Commit
<1>6. CASE SetOldLength
  <2>1. acked' = acked
    BY <1>6 DEF SetOldLength
  <2> QED
    BY <1>5, <2>1 DEF Log!CommitQuietly
<1>7. CASE SetLength
  <2>1. acked' = acked \o metas /\ pc = "length"
    BY <1>7 DEF SetLength
  <2>2. /\ metas \in Seq(Metadata) /\ InOrder(metas) /\ metas # <<>>
        /\ \A i \in DOMAIN metas : metas[i] \in Everything
        /\ \A i \in DOMAIN metas : \A y \in Everything :
              Before(metas[i], y) => \E j \in DOMAIN metas : metas[j] = y
    BY <2>1 DEF OrderInv, LayoutInv, ControlInv, TypeOK, ProcessTyped, Ordered, WrittenLast
  <2>3. PICK B : B = {metas[i] : i \in DOMAIN metas}
    OBVIOUS
  <2>4. Lists(metas, B)
    BY <2>2, <2>3, ListsItself
  <2>5. B \in SUBSET Everything /\ \A x \in B, y \in Everything : Before(x, y) => y \in B
    BY <2>2, <2>3
  <2>6. PICK l : l = Reload'
    OBVIOUS
  <2>7. Lists(l, Everything)
    BY <1>1, <1>2, <2>6
  <2>8. Len(metas) <= Len(l) /\ metas = SubSeq(l, Len(l) - Len(metas) + 1, Len(l))
    <3>1. EndOf(metas, l)
      BY <2>4, <2>5, <2>7, ListedBack
    <3> QED
      BY <3>1 DEF EndOf
  <2>9. Len(metas) \in 1..Len(l)
    <3>1. Len(metas) \in Nat /\ Len(metas) # 0
      BY <2>2, EmptySeq
    <3>2. Len(l) \in Nat
      BY <2>7 DEF Lists
    <3> QED
      BY <2>8, <3>1, <3>2
  <2>10. \E n \in 1..Len(l) : acked' = acked \o SubSeq(l, Len(l) - n + 1, Len(l))
    BY <2>1, <2>8, <2>9
  <2> QED
    BY <1>5, <2>6, <2>10 DEF Log!Acknowledge
<1> QED
  BY <1>6, <1>7 DEF Commits

LEMMA WritesTheTail ==
  ASSUME OrderInv, LayoutInv', [Next]_vars, PutInternal
  PROVE  Log!Write
<1> DEFINE A == CommittedItems'
           P == Pending'
<1>1. PICK new \in Metadata :
          new = [key |-> cur, off |-> wo, blob |-> NextBlob] /\ P = Pending \cup {new}
  BY PutAdds DEF OrderInv
<1>2. A = CommittedItems
  BY CommittedStays DEF OrderInv, Commits, PutInternal, SetOldLength, SetLength
<1>3. Lists(Reload', A) /\ Lists(Uncommitted', P)
  BY ListedAfter DEF Lists, InOrder
<1> HIDE DEF A, P
<1>4. Reload' = Reload
  BY <1>2, <1>3, ListedNow, ListedOnce
<1>5. \A x \in Pending : Before(x, new)
  <2>1. Running /\ Committed(cur) <= wo /\ new.key = cur /\ new.off = wo
    BY <1>1 DEF PutInternal, OrderInv, LayoutInv, ControlInv, Control, Running
  <2>2. \A x \in Everything : Before(x, new)
    BY <2>1, NewIsLast DEF OrderInv, Ordered
  <2> QED
    BY <2>2 DEF Everything
<1>6. Lists(Uncommitted, Pending) /\ Lists(<<new>>, {new})
  BY ListedNow, ListedOne
<1>7. Lists(Uncommitted \o <<new>>, Pending \cup {new})
  BY <1>5, <1>6, ListedConcat
<1>8. Uncommitted' = Uncommitted \o <<new>>
  BY <1>1, <1>3, <1>7, ListedOnce
<1>9. Uncommitted \in Seq(Metadata)
  BY <1>6 DEF Lists
<1>10. Uncommitted' = Append(Uncommitted, new)
  BY <1>8, <1>9, AppendIsConcat
<1>11. acked' = acked
  BY DEF PutInternal
<1> QED
  BY <1>4, <1>10, <1>11 DEF Log!Write

LEMMA DropsOfTheTail ==
  ASSUME OrderInv, LayoutInv', [Next]_vars, ~Commits, ~PutInternal
  PROVE  Log!Drop
<1> DEFINE A == CommittedItems'
           P == Pending'
<1>1. A = CommittedItems
  BY CommittedStays DEF OrderInv
<1>2. P \in SUBSET Pending /\ \A x \in P, y \in Pending \ P : Before(x, y)
  BY OthersDrop DEF OrderInv
<1>3. Lists(Reload', A) /\ Lists(Uncommitted', P)
  BY ListedAfter DEF Lists, InOrder
<1> HIDE DEF A, P
<1>4. Reload' = Reload
  BY <1>1, <1>3, ListedNow, ListedOnce
<1>5. PICK n \in 0..Len(Uncommitted) : Lists(SubSeq(Uncommitted, 1, n), P)
  BY <1>2, ListedNow, ListedFront
<1>6. Uncommitted' = SubSeq(Uncommitted, 1, n)
  BY <1>3, <1>5, ListedOnce
<1>7. acked' = acked
  BY DEF Commits, Next, vars, process, Open, MapCurrent, Load, OpenThrows, OpenFails,
     Forget, CreateFile, TruncateFile, Put, MultiPut, Begin, CompressedSizeThrows, CheckFit,
     FlushFullFile, GetNextDataFileInfo, MapNew, SetOldLength, SwapFile, SwitchFails,
     FlushBatch, WriteFails, SetLengthFails, Finish, Close, ProcessCrash, PowerLoss
<1> QED
  BY <1>4, <1>6, <1>7 DEF Log!Drop

LEMMA LogInit == Init => Log!Init
<1> SUFFICES ASSUME Init PROVE Log!Init
  OBVIOUS
<1>1. LayoutInv
  BY ControlInit, LayoutInit DEF LayoutInv
<1>2. Lists(Reload, CommittedItems) /\ Lists(Uncommitted, Pending)
  BY <1>1, ReloadListed, UncommittedListed
<1>3. CommittedItems = {}
  <2>1. \A m \in Metadata : data[m.key] = {}
    BY ExtentOfItem DEF Init
  <2> QED
    BY <2>1 DEF CommittedItems
<1>4. Pending = {}
  BY DEF Init, Pending, Running
<1>5. Reload = <<>> /\ Uncommitted = <<>>
  BY <1>2, <1>3, <1>4, ListedNothing, ListedOnce
<1> QED
  BY <1>5 DEF Init, Log!Init

\* With blobs that are always accepted, BlobManager is an append-only log: what a reload
\* reads changes only by a commit of all that was written, which a switch of files and a
\* length make, and what is acknowledged is its end at that moment.
THEOREM LogIsImplemented == ASSUME Oversized = {} PROVE Spec => ImplementsBlobLog
<1>1. Spec => []OrderInv
  BY OrderInvariant
<1>2. Init => Log!Init
  BY LogInit
<1>3. OrderInv /\ OrderInv' /\ [Next]_vars => [Log!Next]_(Log!logVars)
  <2> SUFFICES ASSUME OrderInv, OrderInv', [Next]_vars PROVE Log!Next
    OBVIOUS
  <2>1. LayoutInv'
    BY DEF OrderInv
  <2> QED
    BY <2>1, CommitsTheLog, WritesTheTail, DropsOfTheTail DEF Log!Next
<1> QED
  BY <1>1, <1>2, <1>3, PTL DEF Spec, ImplementsBlobLog, Log!Spec
=============================================================================
