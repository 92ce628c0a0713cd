------------------------- MODULE DocumentCollection -------------------------
(***************************************************************************)
(* A collection: DocumentCollection with the parts that have to agree on   *)
(* what a document id means.  The IndexManager reserves ids and indexes    *)
(* documents under them; m_documentIDMap finds a document's blob by its    *)
(* id; the DeleteVector stores ids; and a reload hands the ids out again,  *)
(* by position in the data files.                                          *)
(*                                                                         *)
(* The data files are the append-only log of BlobLog, which BlobManager is *)
(* shown to implement: log is what a reload would deliver, tail what lies  *)
(* behind the committed length of the current file.  A document stands for *)
(* one attempt to insert it, its blob and its metadata alike.  Ids count   *)
(* from 0, as the code's do, and sequences from 1.                         *)
(*                                                                         *)
(* Queries and DELETE statements run while no insert does: the readers of  *)
(* the indexes, the map and the bitmap take no lock, so the callers have   *)
(* to keep them apart.  Inserts take IndexManager::m_mutex and             *)
(* BlobManager::m_writeMutex, and may overlap.                             *)
(***************************************************************************)
EXTENDS Integers, Sequences

CONSTANTS
    Docs,        \* attempts to insert a document
    Inserters,   \* threads that call MultiInsert
    Asserts,     \* TRUE in a build that keeps assert(), FALSE with NDEBUG
    MaxBatch,    \* bound: documents in one MultiInsert
    MaxFaults,   \* bound: calls of the stores that fail
    MaxCrashes   \* bound: crashes

ASSUME CollectionAssumption ==
    /\ Asserts \in BOOLEAN
    /\ MaxBatch \in Nat /\ MaxFaults \in Nat /\ MaxCrashes \in Nat

VARIABLES
    log,      \* documents in the data files, in the order of a reload
    row,      \* DeleteVectorData of the collection's row, or NoRow
    up,       \* the collection is open
    tail,     \* documents written behind the committed length
    index,    \* documents in the order of the ids they are indexed under
    idMap,    \* m_documentIDMap
    nextId,   \* m_nextDocumentId
    deleted,  \* m_deletedDocIds, and m_deleteVecSerializationBitmap
    bitmap,   \* m_deleteVecBitmap
    dirty,    \* m_isDirty
    pc,       \* where each inserter is
    batch,    \* documents of its MultiInsert
    startID,  \* first id reserved for them
    todo,     \* rows the DELETE statement under way has still to delete
    tried,    \* history: documents whose insert has begun
    acked,    \* history: documents whose insert returned
    gone,     \* history: documents whose delete was stored
    faults, crashes

durable == <<log, row>>
memory  == <<up, tail, index, idMap, nextId, deleted, bitmap, dirty>>
calls   == <<pc, batch, startID, todo>>
history == <<tried, acked, gone>>
vars    == <<durable, memory, calls, history, faults, crashes>>

NoRow  == {-1}
Ids(s) == 0..(Len(s) - 1)
Doc(s, id) == s[id + 1]

\* A bitmap of size 0 is Empty().
EmptyBitmap == [size |-> 0, bits |-> {}]

Batches == UNION {[1..n -> Docs] : n \in 1..MaxBatch}
CanFail == faults < MaxFaults /\ faults' = faults + 1
Serial  == up /\ todo = {} /\ \A t \in Inserters : pc[t] = "idle"

-----------------------------------------------------------------------------
\* Nothing in memory survives the end of the process.
Forget ==
    /\ up' = FALSE
    /\ tail' = <<>> /\ index' = <<>> /\ idMap' = <<>>
    /\ nextId' = 0 /\ deleted' = {} /\ bitmap' = EmptyBitmap /\ dirty' = FALSE
    /\ pc' = [t \in Inserters |-> "idle"]
    /\ batch' = [t \in Inserters |-> <<>>]
    /\ startID' = [t \in Inserters |-> 0]
    /\ todo' = {}

Init ==
    /\ log = <<>> /\ row = NoRow
    /\ up = FALSE /\ tail = <<>> /\ index = <<>> /\ idMap = <<>>
    /\ nextId = 0 /\ deleted = {} /\ bitmap = EmptyBitmap /\ dirty = FALSE
    /\ pc = [t \in Inserters |-> "idle"]
    /\ batch = [t \in Inserters |-> <<>>]
    /\ startID = [t \in Inserters |-> 0]
    /\ todo = {}
    /\ tried = {} /\ acked = {} /\ gone = {}
    /\ faults = 0 /\ crashes = 0

\* The constructor indexes the log again, then makes the DeleteVector: the
\* ids it reads from its row, or an empty row.
Open ==
    /\ ~up
    /\ up' = TRUE
    /\ index' = log /\ idMap' = log
    /\ nextId' = Len(log) /\ dirty' = (Len(log) > 0)
    /\ row' = IF row = NoRow THEN {} ELSE row
    /\ deleted' = row'
    /\ UNCHANGED <<log, tail, bitmap, calls, history, faults, crashes>>

Close ==
    /\ Serial
    /\ Forget
    /\ UNCHANGED <<durable, history, faults, crashes>>

\* The process dies, or a failing assert() aborts it.
Crash ==
    /\ up
    /\ crashes < MaxCrashes /\ crashes' = crashes + 1
    /\ Forget
    /\ UNCHANGED <<durable, history, faults>>

Abort ==
    /\ Asserts
    /\ Forget
    /\ UNCHANGED <<durable, history, faults, crashes>>

-----------------------------------------------------------------------------
(* MultiInsert, of thread t.  Insert is a MultiInsert of one document. *)

\* IndexManager::IndexDocuments, under its mutex.
IndexDocuments(t) ==
    /\ up /\ todo = {} /\ pc[t] = "idle"
    /\ \E bs \in Batches :
          /\ \A i, j \in DOMAIN bs : bs[i] \notin tried /\ (bs[i] = bs[j] => i = j)
          /\ batch' = [batch EXCEPT ![t] = bs]
          /\ tried' = tried \cup {bs[i] : i \in DOMAIN bs}
          /\ index' = index \o bs
    /\ startID' = [startID EXCEPT ![t] = Len(index)]
    /\ pc' = [pc EXCEPT ![t] = "indexed"]
    /\ UNCHANGED <<durable, up, tail, idMap, nextId, deleted, bitmap, dirty,
                   todo, acked, gone, faults, crashes>>

\* Mutant: the map is allowed to lag behind.
StartIDNotInMap(t) == startID[t] >= Len(idMap)

StartIDFollowsMap(t) == startID[t] = Len(idMap)

\* assert(startID == m_documentIDMap.size())
CheckStartID(t) ==
    /\ pc[t] = "indexed"
    /\ \/ Asserts /\ ~StartIDFollowsMap(t) /\ Abort
       \/ /\ Asserts => StartIDFollowsMap(t)
          /\ pc' = [pc EXCEPT ![t] = "put"]
          /\ UNCHANGED <<durable, memory, batch, startID, todo, history,
                         faults, crashes>>

\* BlobManager::MultiPut returns: the batch is at the end of the log, behind
\* what earlier failures had left in the file.
MultiPut(t) ==
    /\ pc[t] = "put"
    /\ log' = log \o tail \o batch[t]
    /\ tail' = <<>>
    /\ pc' = [pc EXCEPT ![t] = "stored"]
    /\ UNCHANGED <<row, up, index, idMap, nextId, deleted, bitmap, dirty,
                   batch, startID, todo, history, faults, crashes>>

\* It throws.  Up to blob j it has written the batch and not rolled it back;
\* if it had switched files before blob k + 1, the first k are committed.  The
\* catch block rethrows and leaves index and ids as they are.
MultiPutFails(t) ==
    /\ pc[t] = "put"
    /\ CanFail
    /\ \E j \in 0..Len(batch[t]) :
          \/ /\ tail' = tail \o SubSeq(batch[t], 1, j)
             /\ UNCHANGED log
          \/ \E k \in 0..j :
                /\ k < Len(batch[t])
                /\ log' = log \o tail \o SubSeq(batch[t], 1, k)
                /\ tail' = SubSeq(batch[t], k + 1, j)
    /\ pc' = [pc EXCEPT ![t] = "idle"]
    /\ batch' = [batch EXCEPT ![t] = <<>>]
    /\ startID' = [startID EXCEPT ![t] = 0]
    /\ UNCHANGED <<row, up, index, idMap, nextId, deleted, bitmap, dirty,
                   todo, history, crashes>>

\* m_documentIDMap.insert
MapDocuments(t) ==
    /\ pc[t] = "stored"
    /\ idMap' = idMap \o batch[t]
    /\ pc' = [pc EXCEPT ![t] = "mapped"]
    /\ UNCHANGED <<durable, up, tail, index, nextId, deleted, bitmap, dirty,
                   batch, startID, todo, history, faults, crashes>>

NextDocId(t) == startID[t] + Len(batch[t])

\* DeleteVector::OnDocumentsInserted, assert(nextDocId > m_nextDocumentId); the
\* insert returns.
OnDocumentsInserted(t) ==
    /\ pc[t] = "mapped"
    /\ \/ Asserts /\ NextDocId(t) <= nextId /\ Abort
       \/ /\ Asserts => NextDocId(t) > nextId
          /\ nextId' = NextDocId(t) /\ dirty' = TRUE
          /\ acked' = acked \cup {batch[t][i] : i \in DOMAIN batch[t]}
          /\ pc' = [pc EXCEPT ![t] = "idle"]
          /\ batch' = [batch EXCEPT ![t] = <<>>]
          /\ startID' = [startID EXCEPT ![t] = 0]
          /\ UNCHANGED <<durable, up, tail, index, idMap, deleted, bitmap,
                         todo, tried, gone, faults, crashes>>

-----------------------------------------------------------------------------
(* Filter, and the bitmap of live documents it masks its result with. *)

\* Mutant: without Add(nextId) the bitmap ends at the last deleted id.
RebuiltTooShort ==
    LET last == CHOOSE id \in deleted : \A other \in deleted : other <= id
    IN  IF deleted = {} THEN EmptyBitmap
        ELSE [size |-> last + 1, bits |-> 0..last \ deleted]

\* What MaybeReconstructBitmap makes of the deleted ids: the complement of
\* their set and of nextId, over nextId + 1 bits.
Rebuilt == [size |-> nextId + 1, bits |-> 0..(nextId - 1) \ deleted]

\* Add refuses an id that does not follow the one before it.
CanRebuild == \A id \in deleted : id < nextId

\* Mutant: the bitmap is built once.
LiveBitmapOnce == IF bitmap.size = 0 THEN Rebuilt ELSE bitmap

\* Mutant: the deleted ids are masked out, in place of all but the live ones.
MaskedByDeletes(ids) == ids \ deleted

LiveBitmap == IF dirty THEN Rebuilt ELSE bitmap
Masked(ids) == IF LiveBitmap.size = 0 THEN ids ELSE ids \cap LiveBitmap.bits

\* The rows of a full scan, and all the rows an index can name.
ScanRows  == Masked(Ids(idMap))
IndexRows == Masked(Ids(index))

\* A query; it changes nothing but the cached bitmap.
Filter ==
    /\ Serial
    /\ dirty /\ CanRebuild
    /\ bitmap' = Rebuilt /\ dirty' = FALSE
    /\ UNCHANGED <<durable, up, tail, index, idMap, nextId, deleted, calls,
                   history, faults, crashes>>

-----------------------------------------------------------------------------
(* A DELETE statement: SQLite collects the rows, then deletes one by one. *)

Delete ==
    /\ Serial
    /\ dirty => CanRebuild
    /\ bitmap' = LiveBitmap /\ dirty' = FALSE
    /\ \E rows \in ((SUBSET ScanRows) \cup (SUBSET IndexRows)) \ {{}} : todo' = rows
    /\ UNCHANGED <<durable, up, tail, index, idMap, nextId, deleted, pc, batch,
                   startID, history, faults, crashes>>

NextRow == CHOOSE id \in todo : \A other \in todo : id <= other

\* DeleteVector::OnDocumentDeleted, assert(docId < m_nextDocumentId).  The
\* document gone is the one the index found.
OnDocumentDeleted ==
    /\ todo # {}
    /\ \/ Asserts /\ NextRow >= nextId /\ Abort
       \/ /\ Asserts => NextRow < nextId
          /\ deleted' = deleted \cup {NextRow}
          /\ row' = deleted' /\ dirty' = TRUE
          /\ gone' = gone \cup {Doc(index, NextRow)}
          /\ todo' = todo \ {NextRow}
          /\ UNCHANGED <<log, up, tail, index, idMap, nextId, bitmap, pc, batch,
                         startID, tried, acked, faults, crashes>>

\* Mutant: the id is not taken back.
StoreBitmapFailsKept ==
    /\ todo # {}
    /\ Asserts => NextRow < nextId
    /\ CanFail
    /\ deleted' = deleted \cup {NextRow}
    /\ todo' = {}
    /\ UNCHANGED <<durable, up, tail, index, idMap, nextId, bitmap, dirty, pc,
                   batch, startID, history, crashes>>

\* StoreBitmap throws: the id is taken back and the statement fails, with the
\* rows before this one deleted.
StoreBitmapFails ==
    /\ todo # {}
    /\ Asserts => NextRow < nextId
    /\ CanFail
    /\ todo' = {}
    /\ UNCHANGED <<durable, memory, pc, batch, startID, history, crashes>>

-----------------------------------------------------------------------------
Next ==
    \/ Open \/ Close \/ Crash
    \/ \E t \in Inserters :
          \/ IndexDocuments(t) \/ CheckStartID(t)
          \/ MultiPut(t) \/ MultiPutFails(t)
          \/ MapDocuments(t) \/ OnDocumentsInserted(t)
    \/ Filter \/ Delete \/ OnDocumentDeleted \/ StoreBitmapFails

Spec == Init /\ [][Next]_vars

-----------------------------------------------------------------------------
\* Every variable has its type; no id is stored that the data files lack.
TypeOK ==
    /\ log \in Seq(Docs) /\ tail \in Seq(Docs)
    /\ index \in Seq(Docs) /\ idMap \in Seq(Docs)
    /\ row = NoRow \/ row \subseteq Ids(log)
    /\ up \in BOOLEAN /\ dirty \in BOOLEAN
    /\ nextId \in Nat /\ deleted \subseteq Nat /\ todo \subseteq Nat
    /\ bitmap \in [size : Nat, bits : SUBSET Nat]
    /\ pc \in [Inserters -> {"idle", "indexed", "put", "stored", "mapped"}]
    /\ batch \in [Inserters -> Seq(Docs)]
    /\ startID \in [Inserters -> Nat]
    /\ tried \subseteq Docs /\ acked \subseteq tried /\ gone \subseteq tried
    /\ faults \in Nat /\ crashes \in Nat

\* The map gives every id the document that is indexed under it, also after an
\* insert has failed halfway and left ids behind that have no blob.
IndexedAsMapped ==
    \A id \in Ids(idMap) : id \in Ids(index) /\ Doc(index, id) = Doc(idMap, id)

\* The stored ids, read against the positions the documents have in the data
\* files, name the documents that were deleted and no other: a reload after any
\* crash or failed insert hides just those.
StoredIdsNameTheDeleted ==
    \A id \in Ids(log) :
        (Doc(log, id) \in gone) <=> (row # NoRow /\ id \in row)

\* A document whose insert returned is found by a scan and by its index until
\* it is deleted: across reopenings, crashes, failed inserts and failed
\* deletes, and whatever the cached bitmap was last built from.
InsertedAreFound ==
    Serial => \A d \in acked \ gone : \E id \in ScanRows \cap IndexRows :
                 Doc(idMap, id) = d /\ Doc(index, id) = d

\* A document whose delete was stored is never found again.
DeletedStayDeleted ==
    up => \A id \in ScanRows \cup (IndexRows \cap Ids(idMap)) :
             Doc(idMap, id) \notin gone /\ Doc(index, id) \notin gone

\* The mask of live documents hides the ids a failed insert left in the
\* indexes: each row a query returns can be fetched.  A collection that never
\* had a document has no mask (delete_vector.cc:35) and does not have this.
RowsCanBeFetched == Serial /\ nextId > 0 => IndexRows \subseteq Ids(idMap)

\* The documents a reload would show.
Visible == {Doc(log, id) : id \in IF row = NoRow THEN Ids(log) ELSE Ids(log) \ row}

Store == INSTANCE DocumentStore
             WITH visible <- Visible, promised <- acked \ gone

\* The collection implements the store: documents come in whole, go out one by
\* one and for good, and those whose insert has returned stay until then.
ImplementsDocumentStore == Store!Spec

\* "assert(docId < m_nextDocumentId)", delete_vector.cc:39.
DeletedIdsAreKnown == todo # {} => NextRow < nextId

\* "assert(nextDocId > m_nextDocumentId)", delete_vector.cc:73.
NextIdGrows ==
    \A t \in Inserters : pc[t] = "mapped" => NextDocId(t) > nextId
=============================================================================
