---------------------- MODULE DocumentCollectionProofs ----------------------
(***************************************************************************)
(* Ids keep their meaning in a build that keeps assert(), for any number   *)
(* of documents, threads, batches, failures and crashes.                   *)
(*                                                                         *)
(* While a collection is open, the map is a prefix of what the data files  *)
(* hold, and that a prefix of what is indexed (Chain).  An insert extends  *)
(* the three from the same place, since the assertion on its first id lets *)
(* only one thread through at a time, and none once an insert has failed   *)
(* and left ids behind (Synced).  Documents are indexed once (Distinct),   *)
(* so that an id that is deleted stands for one document.                  *)
(***************************************************************************)
EXTENDS DocumentCollection, SequenceTheorems, WellFoundedInduction, TLAPS

Busy(t)   == pc[t] # "idle"
Prefix(s, t) == Len(s) <= Len(t) /\ \A i \in 1..Len(s) : s[i] = t[i]
Unique(s) == \A i, j \in 1..Len(s) : s[i] = s[j] => i = j
DocsOf(s) == {s[i] : i \in 1..Len(s)}

\* A collection that is not open has nothing in memory; a statement that
\* deletes is alone.
Alone ==
    /\ ~up => /\ \A t \in Inserters : ~Busy(t)
              /\ tail = <<>> /\ index = <<>> /\ idMap = <<>>
              /\ nextId = 0 /\ deleted = {} /\ todo = {}
              /\ bitmap = EmptyBitmap /\ dirty = FALSE
    /\ todo # {} => \A t \in Inserters : ~Busy(t)

Chain == up => Prefix(idMap, log) /\ Prefix(log, index)

\* The ids of an insert under way: reserved for it and for no other, behind the
\* map until they are in it.
Reserved ==
    /\ \A t \in Inserters : Busy(t) =>
          /\ Len(batch[t]) > 0
          /\ startID[t] + Len(batch[t]) <= Len(index)
          /\ \A i \in 1..Len(batch[t]) : index[startID[t] + i] = batch[t][i]
          /\ IF pc[t] = "mapped" THEN startID[t] + Len(batch[t]) <= Len(idMap)
             ELSE startID[t] >= Len(idMap)
          /\ pc[t] \in {"put", "stored"} => startID[t] = Len(idMap)
    /\ \A t, u \in Inserters : Busy(t) /\ Busy(u) /\ t # u =>
          \/ startID[t] + Len(batch[t]) <= startID[u]
          \/ startID[u] + Len(batch[u]) <= startID[t]

\* The ids that a failed insert has left cannot be mapped any more.
Broken ==
    /\ Len(idMap) < Len(index)
    /\ \A t \in Inserters : Busy(t) => startID[t] # Len(idMap)

Synced ==
    up => \/ tail = <<>> /\ log = idMap /\ \A t \in Inserters : pc[t] # "stored"
          \/ \E t \in Inserters :
                pc[t] = "stored" /\ tail = <<>> /\ log = idMap \o batch[t]
          \/ Broken

Distinct ==
    /\ Unique(log) /\ Unique(index)
    /\ DocsOf(log) \subseteq tried /\ DocsOf(index) \subseteq tried

Deletes ==
    /\ StoredIdsNameTheDeleted
    /\ gone \subseteq DocsOf(log)
    /\ up => row = deleted /\ deleted \subseteq 0..(nextId - 1)

Live ==
    up => /\ nextId <= Len(idMap)
          /\ \/ dirty
             \/ bitmap = Rebuilt
             \/ bitmap = EmptyBitmap /\ nextId = 0 /\ deleted = {}

Acknowledged ==
    \A d \in acked : \E i \in 1..Len(log) : log[i] = d /\ (up => i <= nextId)

IInv == /\ TypeOK /\ Alone /\ Chain /\ Reserved /\ Synced /\ Distinct
        /\ Deletes /\ Live /\ Acknowledged

-----------------------------------------------------------------------------
(* Sequences. *)

LEMMA PrefixOfUnique ==
  ASSUME NEW s \in Seq(Docs), NEW t \in Seq(Docs), Prefix(s, t), Unique(t)
  PROVE  Unique(s) /\ DocsOf(s) \subseteq DocsOf(t)
BY DEF Prefix, Unique, DocsOf

\* A prefix is extended by what follows it.
LEMMA ExtendPrefix ==
  ASSUME NEW s \in Seq(Docs), NEW t \in Seq(Docs), NEW bs \in Seq(Docs),
         Prefix(s, t), Len(s) + Len(bs) <= Len(t),
         \A i \in 1..Len(bs) : t[Len(s) + i] = bs[i]
  PROVE  Prefix(s \o bs, t)
<1>1. /\ Len(s \o bs) = Len(s) + Len(bs)
      /\ \A i \in 1..(Len(s) + Len(bs)) :
            (s \o bs)[i] = IF i <= Len(s) THEN s[i] ELSE bs[i - Len(s)]
  BY ConcatProperties
<1>2. Len(s) \in Nat /\ Len(bs) \in Nat
  BY LenProperties
<1>3. ASSUME NEW i \in 1..(Len(s) + Len(bs)), i > Len(s)
      PROVE  bs[i - Len(s)] = t[i]
  <2>1. i - Len(s) \in 1..Len(bs) /\ Len(s) + (i - Len(s)) = i
    BY <1>2, <1>3
  <2> QED
    BY <2>1
<1> QED
  BY <1>1, <1>2, <1>3 DEF Prefix

LEMMA PrefixOfConcat ==
  ASSUME NEW s \in Seq(Docs), NEW bs \in Seq(Docs)
  PROVE  Prefix(s, s \o bs)
BY ConcatProperties, LenProperties DEF Prefix

LEMMA PrefixTransitive ==
  ASSUME NEW s \in Seq(Docs), NEW t \in Seq(Docs), NEW u \in Seq(Docs),
         Prefix(s, t), Prefix(t, u)
  PROVE  Prefix(s, u)
BY LenProperties DEF Prefix

\* Batches are sequences.
LEMMA BatchesAreSequences ==
  ASSUME NEW bs \in Batches
  PROVE  bs \in Seq(Docs) /\ Len(bs) > 0 /\ DOMAIN bs = 1..Len(bs)
<1>1. PICK n \in 1..MaxBatch : bs \in [1..n -> Docs]
  BY DEF Batches
<1> QED
  BY <1>1, CollectionAssumption

-----------------------------------------------------------------------------
LEMMA InitEstablishes == Init => IInv
<1> SUFFICES ASSUME Init PROVE IInv
  OBVIOUS
<1>0. <<>> \in Seq(Docs)
  OBVIOUS
<1>1. TypeOK
  BY <1>0 DEF Init, TypeOK, EmptyBitmap
<1>2. Alone /\ Chain /\ Reserved /\ Synced
  BY DEF Init, Alone, Chain, Reserved, Synced, Busy
<1>3. Len(log) = 0 /\ Len(index) = 0
  BY DEF Init
<1>4. Distinct /\ Deletes /\ Live /\ Acknowledged
  BY <1>3 DEF Init, Distinct, Unique, DocsOf, Deletes, StoredIdsNameTheDeleted,
              Ids, Live, Acknowledged
<1> QED
  BY <1>1, <1>2, <1>4 DEF IInv

\* Nothing that is stored depends on what a process forgets.
LEMMA ForgetKeeps ==
  ASSUME IInv, Forget, UNCHANGED <<durable, history>>,
         faults' \in Nat, crashes' \in Nat
  PROVE  IInv'
<1> USE DEF Forget, durable, history
<1>0. <<>> \in Seq(Docs)
  OBVIOUS
<1>1. TypeOK'
  BY <1>0 DEF IInv, TypeOK, EmptyBitmap, Ids
<1>2. Alone' /\ Chain' /\ Reserved' /\ Synced'
  BY DEF Alone, Chain, Reserved, Synced, Busy
<1>3. Distinct'
  <2>1. Len(index') = 0
    OBVIOUS
  <2> QED
    BY <2>1 DEF IInv, Distinct, Unique, DocsOf
<1>4. Deletes' /\ Live' /\ Acknowledged'
  BY DEF IInv, Deletes, StoredIdsNameTheDeleted, Ids, Doc, DocsOf, Live, Acknowledged
<1> QED
  BY <1>1, <1>2, <1>3, <1>4 DEF IInv

LEMMA CloseKeeps == IInv /\ (Close \/ Crash \/ Abort) => IInv'
<1> SUFFICES ASSUME IInv, Close \/ Crash \/ Abort PROVE IInv'
  OBVIOUS
<1>1. Forget /\ UNCHANGED <<durable, history>> /\ faults' = faults
  BY DEF Close, Crash, Abort
<1>2. faults' \in Nat /\ crashes' \in Nat
  BY <1>1 DEF IInv, TypeOK, Close, Crash, Abort
<1> QED
  BY <1>1, <1>2, ForgetKeeps

LEMMA OpenKeeps == IInv /\ Open => IInv'
<1> SUFFICES ASSUME IInv, Open PROVE IInv'
  OBVIOUS
<1> USE DEF Open, calls, history
<1>0. /\ log \in Seq(Docs) /\ Len(log) \in Nat
      /\ ~up /\ \A t \in Inserters : ~Busy(t)
      /\ tail = <<>> /\ todo = {} /\ bitmap = EmptyBitmap
  BY LenProperties DEF IInv, TypeOK, Alone
<1>1. /\ row' \subseteq Ids(log) /\ row' # NoRow
      /\ \A id \in Ids(log) : Doc(log, id) \in gone <=> id \in row'
  BY <1>0 DEF IInv, TypeOK, Deletes, StoredIdsNameTheDeleted, NoRow, Ids
<1>2. TypeOK'
  BY <1>0, <1>1 DEF IInv, TypeOK, Ids
<1>3. Alone' /\ Reserved'
  BY <1>0 DEF Alone, Reserved, Busy
<1>4. Chain' /\ Synced'
  BY <1>0 DEF Chain, Prefix, Synced, Busy
<1>5. Distinct'
  BY DEF IInv, Distinct
<1>6. Deletes'
  BY <1>0, <1>1 DEF IInv, Deletes, StoredIdsNameTheDeleted, Ids, Doc
<1>7. Live'
  <2>1. nextId' <= Len(idMap')
    BY <1>0
  <2>2. CASE Len(log) > 0
    <3>1. dirty'
      BY <2>2
    <3> QED
      BY <2>1, <3>1 DEF Live
  <2>3. CASE ~(Len(log) > 0)
    <3>1. nextId' = 0 /\ deleted' = {}
      BY <1>0, <1>1, <2>3 DEF Ids
    <3> QED
      BY <1>0, <2>1, <3>1 DEF Live, EmptyBitmap
  <2> QED
    BY <2>2, <2>3
<1>8. Acknowledged'
  BY <1>0 DEF IInv, Acknowledged
<1> QED
  BY <1>2, <1>3, <1>4, <1>5, <1>6, <1>7, <1>8 DEF IInv

-----------------------------------------------------------------------------
(* An insert. *)

LEMMA Types ==
  ASSUME IInv
  PROVE  /\ log \in Seq(Docs) /\ Len(log) \in Nat
         /\ index \in Seq(Docs) /\ Len(index) \in Nat
         /\ idMap \in Seq(Docs) /\ Len(idMap) \in Nat
         /\ nextId \in Nat
         /\ \A t \in Inserters : /\ batch[t] \in Seq(Docs) /\ Len(batch[t]) \in Nat
                                /\ startID[t] \in Nat
BY LenProperties DEF IInv, TypeOK

\* What an insert under way knows of the collection.
LEMMA BusyIsOpen ==
  ASSUME IInv, NEW t \in Inserters, pc[t] # "idle"
  PROVE  up /\ todo = {} /\ Prefix(idMap, log) /\ Prefix(log, index)
BY DEF IInv, Alone, Chain, Busy

\* No two inserts have reserved the same first id.
LEMMA StartsDiffer ==
  ASSUME IInv, NEW t \in Inserters, NEW u \in Inserters, t # u,
         pc[t] # "idle", pc[u] # "idle"
  PROVE  startID[t] # startID[u]
<1>1. /\ Len(batch[t]) > 0 /\ Len(batch[u]) > 0
      /\ \/ startID[t] + Len(batch[t]) <= startID[u]
         \/ startID[u] + Len(batch[u]) <= startID[t]
  BY DEF IInv, Reserved, Busy
<1> QED
  BY <1>1, Types

\* An insert that may write finds the data files and the map alike.
LEMMA WriterFindsNothingPending ==
  ASSUME IInv, NEW t \in Inserters, pc[t] = "put"
  PROVE  /\ tail = <<>> /\ log = idMap
         /\ \A u \in Inserters : pc[u] # "stored"
         /\ startID[t] = Len(idMap)
<1>1. startID[t] = Len(idMap)
  BY DEF IInv, Reserved, Busy
<1>2. ASSUME NEW u \in Inserters, pc[u] = "stored" PROVE FALSE
  <2>1. startID[u] = Len(idMap) /\ t # u
    BY <1>2 DEF IInv, Reserved, Busy
  <2> QED
    BY <1>1, <1>2, <2>1, StartsDiffer
<1> QED
  BY <1>1, <1>2, BusyIsOpen DEF IInv, Synced, Broken, Busy

\* An insert that has written finds its batch behind what the map holds.
LEMMA StoredIsBehindTheMap ==
  ASSUME IInv, NEW t \in Inserters, pc[t] = "stored"
  PROVE  /\ tail = <<>> /\ log = idMap \o batch[t]
         /\ startID[t] = Len(idMap)
<1>1. startID[t] = Len(idMap)
  BY DEF IInv, Reserved, Busy
<1>2. ~Broken
  BY <1>1 DEF Broken, Busy
<1>3. PICK u \in Inserters : pc[u] = "stored" /\ tail = <<>> /\ log = idMap \o batch[u]
  BY <1>2, BusyIsOpen DEF IInv, Synced
<1>4. startID[u] = Len(idMap)
  BY <1>3 DEF IInv, Reserved, Busy
<1>5. t = u
  BY <1>1, <1>3, <1>4, StartsDiffer
<1> QED
  BY <1>1, <1>3, <1>5

LEMMA CheckStartIDKeeps ==
  ASSUME IInv, Asserts, NEW t \in Inserters, CheckStartID(t)
  PROVE  IInv'
<1>1. CASE Abort
  BY <1>1, CloseKeeps
<1>2. CASE /\ pc[t] = "indexed" /\ startID[t] = Len(idMap)
           /\ pc' = [pc EXCEPT ![t] = "put"]
           /\ UNCHANGED <<durable, memory, batch, startID, todo, history, faults, crashes>>
  <2> USE <1>2 DEF durable, memory, history
  <2>0. /\ pc'[t] = "put"
        /\ \A u \in Inserters : u # t => pc'[u] = pc[u]
        /\ \A u \in Inserters : Busy(u)' <=> Busy(u)
    BY DEF IInv, TypeOK, Busy
  <2>1. TypeOK'
    <3>1. pc' \in [Inserters -> {"idle", "indexed", "put", "stored", "mapped"}]
      BY DEF IInv, TypeOK
    <3> QED
      BY <3>1, Zenon DEF IInv, TypeOK, Ids
  <2>2. Alone'
    BY <2>0, Zenon DEF IInv, Alone, Busy
  <2>3. Reserved'
    <3>1. startID[t] >= Len(idMap)
      BY Types
    <3> QED
      BY <2>0, <3>1 DEF IInv, Reserved
  <2>4. Synced'
    BY <2>0 DEF IInv, Synced, Broken
  <2>5. Live' /\ Acknowledged' /\ Chain' /\ Distinct' /\ Deletes'
    BY DEF IInv, Chain, Distinct, Deletes, StoredIdsNameTheDeleted, Live, Rebuilt,
           Acknowledged
  <2> QED
    BY <2>1, <2>2, <2>3, <2>4, <2>5 DEF IInv
<1> QED
  BY <1>1, <1>2 DEF CheckStartID, StartIDFollowsMap

LEMMA IndexDocumentsKeeps ==
  ASSUME IInv, NEW t \in Inserters, IndexDocuments(t)
  PROVE  IInv'
<1> PICK bs \in Batches :
       /\ \A i, j \in DOMAIN bs : bs[i] \notin tried /\ (bs[i] = bs[j] => i = j)
       /\ batch' = [batch EXCEPT ![t] = bs]
       /\ tried' = tried \cup {bs[i] : i \in DOMAIN bs}
       /\ index' = index \o bs
  BY DEF IndexDocuments
<1>a. /\ up /\ todo = {} /\ pc[t] = "idle"
      /\ startID' = [startID EXCEPT ![t] = Len(index)]
      /\ pc' = [pc EXCEPT ![t] = "indexed"]
      /\ UNCHANGED <<log, row, up, tail, idMap, nextId, deleted, bitmap, dirty,
                     todo, acked, gone, faults, crashes>>
  BY DEF IndexDocuments, durable
<1>b. /\ bs \in Seq(Docs) /\ Len(bs) \in Nat /\ Len(bs) > 0
      /\ DOMAIN bs = 1..Len(bs)
  BY BatchesAreSequences, LenProperties
<1>c. /\ index' \in Seq(Docs) /\ Len(index') = Len(index) + Len(bs)
      /\ \A i \in 1..Len(index) : index'[i] = index[i]
      /\ \A i \in 1..Len(bs) : index'[Len(index) + i] = bs[i]
  <2>1. /\ index \o bs \in Seq(Docs) /\ Len(index \o bs) = Len(index) + Len(bs)
        /\ \A i \in 1..(Len(index) + Len(bs)) :
             (index \o bs)[i] = IF i <= Len(index) THEN index[i] ELSE bs[i - Len(index)]
    BY <1>b, Types, ConcatProperties
  <2>2. \A i \in 1..Len(index) : index'[i] = index[i]
    BY <2>1, <1>b, Types
  <2>3. ASSUME NEW i \in 1..Len(bs) PROVE index'[Len(index) + i] = bs[i]
    <3>1. /\ Len(index) + i \in 1..(Len(index) + Len(bs))
          /\ ~(Len(index) + i <= Len(index)) /\ (Len(index) + i) - Len(index) = i
      BY <1>b, Types
    <3> QED
      BY <2>1, <3>1
  <2> QED
    BY <2>1, <2>2, <2>3
<1>d. /\ pc'[t] = "indexed" /\ batch'[t] = bs /\ startID'[t] = Len(index)
      /\ \A u \in Inserters : u # t => /\ pc'[u] = pc[u] /\ batch'[u] = batch[u]
                                      /\ startID'[u] = startID[u]
  BY <1>a DEF IInv, TypeOK
<1>e. Prefix(idMap, log) /\ Prefix(log, index)
  BY <1>a DEF IInv, Chain
<1>1. TypeOK'
  <2>1. /\ pc' \in [Inserters -> {"idle", "indexed", "put", "stored", "mapped"}]
        /\ batch' \in [Inserters -> Seq(Docs)]
        /\ startID' \in [Inserters -> Nat]
    BY <1>a, <1>b, Types DEF IInv, TypeOK
  <2>2. \A i \in DOMAIN bs : bs[i] \in Docs
    BY <1>b, ElementOfSeq
  <2>3. tried' \subseteq Docs /\ acked' \subseteq tried' /\ gone' \subseteq tried'
    BY <1>a, <2>2 DEF IInv, TypeOK
  <2> QED
    BY <1>a, <1>c, <2>1, <2>3, Zenon DEF IInv, TypeOK, Ids
<1>2. Alone'
  BY <1>a, Zenon DEF Alone
<1>3. Chain'
  <2>1. Prefix(log, index')
    BY <1>b, <1>c, <1>e, Types DEF Prefix
  <2> QED
    BY <1>a, <1>e, <2>1 DEF Chain, Prefix
<1>4. Reserved'
  <2>1. Len(idMap) <= Len(index)
    BY <1>e, Types DEF Prefix
  <2>2. ASSUME NEW u \in Inserters, Busy(u)'
        PROVE  /\ Len(batch'[u]) > 0
               /\ startID'[u] + Len(batch'[u]) <= Len(index')
               /\ \A i \in 1..Len(batch'[u]) : index'[startID'[u] + i] = batch'[u][i]
               /\ IF pc'[u] = "mapped" THEN startID'[u] + Len(batch'[u]) <= Len(idMap')
                  ELSE startID'[u] >= Len(idMap')
               /\ pc'[u] \in {"put", "stored"} => startID'[u] = Len(idMap')
    <3>1. CASE u = t
      <4>1. pc'[u] = "indexed" /\ batch'[u] = bs /\ startID'[u] = Len(index)
        BY <1>d, <3>1
      <4>2. Len(index) >= Len(idMap)
        BY <2>1, Types
      <4>3. /\ Len(batch'[u]) > 0 /\ startID'[u] + Len(batch'[u]) <= Len(index')
        BY <1>b, <1>c, <4>1, Types
      <4>4. \A i \in 1..Len(batch'[u]) : index'[startID'[u] + i] = batch'[u][i]
        BY <1>c, <4>1
      <4>5. pc'[u] # "mapped" /\ pc'[u] \notin {"put", "stored"} /\ startID'[u] >= Len(idMap')
        BY <1>a, <4>1, <4>2
      <4> QED
        BY <4>3, <4>4, <4>5
    <3>2. CASE u # t
      <4>0. /\ pc'[u] = pc[u] /\ batch'[u] = batch[u] /\ startID'[u] = startID[u]
            /\ Busy(u)
        BY <1>d, <2>2, <3>2 DEF Busy
      <4>1. /\ Len(batch[u]) > 0 /\ startID[u] + Len(batch[u]) <= Len(index)
            /\ \A i \in 1..Len(batch[u]) : index[startID[u] + i] = batch[u][i]
        BY <4>0 DEF IInv, Reserved
      <4>2. ASSUME NEW i \in 1..Len(batch[u])
            PROVE  index'[startID[u] + i] = batch[u][i]
        <5>1. startID[u] + i \in 1..Len(index)
          BY <4>1, Types
        <5> QED
          BY <1>c, <4>1, <5>1
      <4>3. /\ IF pc[u] = "mapped" THEN startID[u] + Len(batch[u]) <= Len(idMap)
               ELSE startID[u] >= Len(idMap)
            /\ pc[u] \in {"put", "stored"} => startID[u] = Len(idMap)
        BY <4>0 DEF IInv, Reserved
      <4>4. startID[u] + Len(batch[u]) <= Len(index')
        BY <1>b, <1>c, <4>1, Types
      <4> QED
        BY <1>a, <4>0, <4>1, <4>2, <4>3, <4>4
    <3> QED
      BY <3>1, <3>2
  <2>3. ASSUME NEW u \in Inserters, NEW v \in Inserters, Busy(u)', Busy(v)', u # v
        PROVE  \/ startID'[u] + Len(batch'[u]) <= startID'[v]
               \/ startID'[v] + Len(batch'[v]) <= startID'[u]
    <3>1. CASE u = t
      <4>1. /\ Busy(v) /\ startID'[u] = Len(index)
            /\ batch'[v] = batch[v] /\ startID'[v] = startID[v]
        BY <1>d, <2>3, <3>1 DEF Busy
      <4>2. startID[v] + Len(batch[v]) <= Len(index)
        BY <4>1 DEF IInv, Reserved
      <4> QED
        BY <4>1, <4>2
    <3>2. CASE v = t
      <4>1. /\ Busy(u) /\ startID'[v] = Len(index)
            /\ batch'[u] = batch[u] /\ startID'[u] = startID[u]
        BY <1>d, <2>3, <3>2 DEF Busy
      <4>2. startID[u] + Len(batch[u]) <= Len(index)
        BY <4>1 DEF IInv, Reserved
      <4> QED
        BY <4>1, <4>2
    <3>3. CASE u # t /\ v # t
      <4>1. /\ Busy(u) /\ batch'[u] = batch[u] /\ startID'[u] = startID[u]
            /\ Busy(v) /\ batch'[v] = batch[v] /\ startID'[v] = startID[v]
        BY <1>d, <2>3, <3>3 DEF Busy
      <4>2. \/ startID[u] + Len(batch[u]) <= startID[v]
            \/ startID[v] + Len(batch[v]) <= startID[u]
        BY <2>3, <4>1 DEF IInv, Reserved
      <4> QED
        BY <4>1, <4>2
    <3> QED
      BY <3>1, <3>2, <3>3
  <2> QED
    BY <2>2, <2>3 DEF Reserved
<1>5. Synced'
  <2>1. CASE tail = <<>> /\ log = idMap /\ \A u \in Inserters : pc[u] # "stored"
    BY <1>a, <1>d, <2>1 DEF Synced
  <2>2. CASE \E u \in Inserters :
                pc[u] = "stored" /\ tail = <<>> /\ log = idMap \o batch[u]
    <3>1. PICK u \in Inserters :
                pc[u] = "stored" /\ tail = <<>> /\ log = idMap \o batch[u]
      BY <2>2
    <3>2. u # t
      BY <1>a, <3>1
    <3>3. pc'[u] = "stored" /\ tail' = <<>> /\ log' = idMap' \o batch'[u]
      BY <1>a, <1>d, <3>1, <3>2
    <3> QED
      BY <3>3 DEF Synced
  <2>3. CASE Broken
    <3>1. Len(idMap') < Len(index')
      BY <1>a, <1>b, <1>c, <2>3, Types DEF Broken
    <3>2. ASSUME NEW u \in Inserters, Busy(u)' PROVE startID'[u] # Len(idMap')
      <4>1. CASE u = t
        BY <1>a, <1>d, <2>3, <4>1, Types DEF Broken
      <4>2. CASE u # t
        <5>1. pc[u] # "idle" /\ startID'[u] = startID[u]
          BY <1>d, <3>2, <4>2 DEF Busy
        <5> QED
          BY <1>a, <2>3, <5>1 DEF Broken, Busy
      <4> QED
        BY <4>1, <4>2
    <3> QED
      BY <3>1, <3>2 DEF Synced, Broken
  <2> QED
    BY <1>a, <2>1, <2>2, <2>3 DEF IInv, Synced
<1>6. Distinct'
  <2>1. \A i \in 1..Len(index) : index[i] \in tried
    BY DEF IInv, Distinct, DocsOf
  <2>2. ASSUME NEW i \in 1..Len(index')
        PROVE  \/ i \in 1..Len(index) /\ index'[i] = index[i]
               \/ \E k \in 1..Len(bs) : i = Len(index) + k /\ index'[i] = bs[k]
    <3>1. CASE i <= Len(index)
      BY <1>c, <3>1, Types
    <3>2. CASE ~(i <= Len(index))
      <4>1. i - Len(index) \in 1..Len(bs) /\ i = Len(index) + (i - Len(index))
        BY <1>b, <1>c, <3>2, Types
      <4> QED
        BY <1>c, <4>1
    <3> QED
      BY <3>1, <3>2
  <2>3. Unique(index')
    <3> SUFFICES ASSUME NEW i \in 1..Len(index'), NEW j \in 1..Len(index'),
                        index'[i] = index'[j]
                 PROVE  i = j
      BY DEF Unique
    <3>1. CASE i \in 1..Len(index) /\ j \in 1..Len(index)
      BY <1>c, <3>1 DEF IInv, Distinct, Unique
    <3>2. CASE ~(i \in 1..Len(index)) /\ ~(j \in 1..Len(index))
      <4>1. PICK k \in 1..Len(bs) : i = Len(index) + k /\ index'[i] = bs[k]
        BY <2>2, <3>2
      <4>2. PICK l \in 1..Len(bs) : j = Len(index) + l /\ index'[j] = bs[l]
        BY <2>2, <3>2
      <4>3. k = l
        BY <1>b, <4>1, <4>2
      <4> QED
        BY <4>1, <4>2, <4>3
    <3>3. CASE ~(i \in 1..Len(index)) /\ j \in 1..Len(index)
      <4>1. PICK k \in 1..Len(bs) : index'[i] = bs[k]
        BY <2>2, <3>3
      <4>2. bs[k] \notin tried /\ index'[j] \in tried
        BY <1>b, <1>c, <2>1, <3>3
      <4> QED
        BY <4>1, <4>2
    <3>4. CASE i \in 1..Len(index) /\ ~(j \in 1..Len(index))
      <4>1. PICK k \in 1..Len(bs) : index'[j] = bs[k]
        BY <2>2, <3>4
      <4>2. bs[k] \notin tried /\ index'[i] \in tried
        BY <1>b, <1>c, <2>1, <3>4
      <4> QED
        BY <4>1, <4>2
    <3> QED
      BY <3>1, <3>2, <3>3, <3>4
  <2>4. DocsOf(index') \subseteq tried'
    <3> SUFFICES ASSUME NEW i \in 1..Len(index') PROVE index'[i] \in tried'
      BY DEF DocsOf
    <3> QED
      BY <1>b, <2>1, <2>2
  <2>5. Unique(log)' /\ DocsOf(log)' \subseteq tried'
    BY <1>a DEF IInv, Distinct, Unique, DocsOf
  <2> QED
    BY <2>3, <2>4, <2>5 DEF Distinct
<1>7. Deletes' /\ Live' /\ Acknowledged'
  BY <1>a DEF IInv, Deletes, StoredIdsNameTheDeleted, DocsOf, Live, Rebuilt, Acknowledged
<1> QED
  BY <1>1, <1>2, <1>3, <1>4, <1>5, <1>6, <1>7 DEF IInv

\* What an insert writes of its batch goes behind what the map holds, and is
\* what is indexed there: no id changes its document, and no deleted document
\* comes back.
LEMMA LogGrows ==
  ASSUME IInv, NEW t \in Inserters, pc[t] = "put",
         NEW bs \in Seq(Docs), Len(bs) <= Len(batch[t]),
         \A i \in 1..Len(bs) : bs[i] = batch[t][i],
         log' = log \o bs,
         UNCHANGED <<row, up, index, idMap, nextId, deleted, bitmap, dirty, history>>
  PROVE  /\ log' \in Seq(Docs) /\ (row = NoRow \/ row \subseteq Ids(log))'
         /\ Chain' /\ Distinct' /\ Deletes' /\ Live' /\ Acknowledged'
<1> USE DEF history
<1>a. /\ up /\ Prefix(idMap, log) /\ Prefix(log, index)
      /\ log = idMap /\ startID[t] = Len(log)
  BY BusyIsOpen, WriterFindsNothingPending
<1>b. /\ Len(log) + Len(batch[t]) <= Len(index)
      /\ \A i \in 1..Len(batch[t]) : index[Len(log) + i] = batch[t][i]
  <2>1. Busy(t) /\ Reserved
    BY DEF Busy, IInv
  <2> QED
    BY <1>a, <2>1 DEF Reserved
<1>c. Len(bs) \in Nat
  BY LenProperties
<1>d. Prefix(log \o bs, index)
  <2>1. Len(log) + Len(bs) <= Len(index)
    BY <1>b, <1>c, Types
  <2>2. \A i \in 1..Len(bs) : index[Len(log) + i] = bs[i]
    BY <1>b, <1>c, Types
  <2> QED
    BY <1>a, <2>1, <2>2, Types, ExtendPrefix
<1>e. /\ log \o bs \in Seq(Docs) /\ Len(log \o bs) = Len(log) + Len(bs)
      /\ Prefix(log, log \o bs)
  BY Types, ConcatProperties, PrefixOfConcat
<1>1. Chain'
  BY <1>a, <1>d, <1>e DEF Chain
<1>2. Distinct'
  <2>1. Unique(index) /\ DocsOf(index) \subseteq tried
    BY DEF IInv, Distinct
  <2>2. Unique(log \o bs) /\ DocsOf(log \o bs) \subseteq DocsOf(index)
    BY <1>d, <1>e, <2>1, Types, PrefixOfUnique
  <2> QED
    BY <2>1, <2>2 DEF Distinct
<1>3. \A i \in 1..Len(log) : i \in 1..Len(log') /\ log'[i] = log[i]
  BY <1>c, <1>e, Types DEF Prefix
<1>4. (row = NoRow \/ row \subseteq Ids(log))'
  BY <1>c, <1>e, Types DEF IInv, TypeOK, Ids
<1>5. row = deleted /\ deleted \subseteq 0..(nextId - 1) /\ nextId <= Len(idMap)
  BY <1>a DEF IInv, Deletes, Live
<1>6. row # NoRow
  BY <1>5 DEF NoRow
<1>7. gone \subseteq DocsOf(log')
  BY <1>3 DEF IInv, Deletes, DocsOf
<1>8. Deletes'
  <2>1. ASSUME NEW id \in Ids(log')
        PROVE  Doc(log', id) \in gone <=> id \in row
    <3>1. CASE id < Len(log)
      <4>1. id \in Ids(log) /\ Doc(log', id) = Doc(log, id)
        BY <1>3, <3>1, Types DEF Ids, Doc
      <4> QED
        BY <1>6, <4>1 DEF IInv, Deletes, StoredIdsNameTheDeleted
    <3>2. CASE ~(id < Len(log))
      <4>1. id \notin row
        BY <1>5, <1>a, <3>2, Types DEF Ids
      <4>2. ASSUME Doc(log', id) \in gone PROVE FALSE
        <5>1. PICK i \in 1..Len(log) : log[i] = log'[id + 1]
          BY <4>2 DEF IInv, Deletes, DocsOf, Doc
        <5>2. id + 1 \in 1..Len(log') /\ i \in 1..Len(log') /\ log'[i] = log'[id + 1]
          BY <1>3, <1>c, <1>e, <5>1, Types DEF Ids
        <5>3. i = id + 1
          BY <1>2, <5>2 DEF Distinct, Unique
        <5> QED
          BY <3>2, <5>1, <5>3, Types DEF Ids
      <4> QED
        BY <4>1, <4>2
    <3> QED
      BY <3>1, <3>2
  <2> QED
    BY <1>5, <1>6, <1>7, <2>1 DEF Deletes, StoredIdsNameTheDeleted
<1>9. Live'
  BY DEF IInv, Live, Rebuilt
<1>10. Acknowledged'
  BY <1>3 DEF IInv, Acknowledged
<1> QED
  BY <1>1, <1>2, <1>4, <1>8, <1>9, <1>10, <1>e

LEMMA MultiPutKeeps ==
  ASSUME IInv, NEW t \in Inserters, MultiPut(t)
  PROVE  IInv'
<1>a. /\ pc[t] = "put" /\ tail' = <<>>
      /\ pc' = [pc EXCEPT ![t] = "stored"]
      /\ UNCHANGED <<row, up, index, idMap, nextId, deleted, bitmap, dirty, batch,
                     startID, todo, history, faults, crashes>>
  BY DEF MultiPut
<1>b. /\ tail = <<>> /\ log = idMap /\ startID[t] = Len(idMap)
      /\ \A u \in Inserters : pc[u] # "stored"
  BY <1>a, WriterFindsNothingPending
<1>c. log' = log \o batch[t]
  BY <1>b, Types, ConcatEmptySeq DEF MultiPut
<1>d. /\ pc'[t] = "stored"
      /\ \A u \in Inserters : u # t => pc'[u] = pc[u]
      /\ \A u \in Inserters : Busy(u)' <=> Busy(u)
  BY <1>a DEF IInv, TypeOK, Busy
<1>1. /\ log' \in Seq(Docs) /\ (row = NoRow \/ row \subseteq Ids(log))'
      /\ Chain' /\ Distinct' /\ Deletes' /\ Live' /\ Acknowledged'
  <2>1. batch[t] \in Seq(Docs) /\ Len(batch[t]) <= Len(batch[t])
    BY Types
  <2> QED
    BY <1>a, <1>c, <2>1, LogGrows
<1>2. TypeOK'
  <2>1. /\ <<>> \in Seq(Docs)
        /\ pc' \in [Inserters -> {"idle", "indexed", "put", "stored", "mapped"}]
    BY <1>a DEF IInv, TypeOK
  <2> QED
    BY <1>a, <1>1, <2>1, Zenon DEF IInv, TypeOK, history
<1>3. Alone'
  BY <1>a, <1>d, BusyIsOpen, Zenon DEF Alone
<1>4. Reserved'
  BY <1>a, <1>b, <1>d DEF IInv, Reserved
<1>5. Synced'
  BY <1>a, <1>b, <1>c, <1>d DEF Synced
<1> QED
  BY <1>1, <1>2, <1>3, <1>4, <1>5 DEF IInv

\* Part of a batch.
LEMMA PartOfBatch ==
  ASSUME NEW s \in Seq(Docs), NEW m \in 1..(Len(s) + 1), NEW n \in 0..Len(s)
  PROVE  /\ SubSeq(s, m, n) \in Seq(Docs)
         /\ Len(SubSeq(s, m, n)) = IF m <= n THEN n - m + 1 ELSE 0
         /\ \A i \in 1..Len(SubSeq(s, m, n)) : SubSeq(s, m, n)[i] = s[m + i - 1]
<1>1. m \in Int /\ n \in Int /\ \A i \in m..n : s[i] \in Docs
  BY LenProperties
<1>2. /\ SubSeq(s, m, n) \in Seq(Docs)
      /\ Len(SubSeq(s, m, n)) = IF m <= n THEN n - m + 1 ELSE 0
      /\ \A i \in 1..(n - m + 1) : SubSeq(s, m, n)[i] = s[m + i - 1]
  BY <1>1, SubSeqProperties
<1> QED
  BY <1>1, <1>2

LEMMA MultiPutFailsKeeps ==
  ASSUME IInv, NEW t \in Inserters, MultiPutFails(t)
  PROVE  IInv'
<1>a. /\ pc[t] = "put" /\ faults' = faults + 1
      /\ pc' = [pc EXCEPT ![t] = "idle"]
      /\ batch' = [batch EXCEPT ![t] = <<>>]
      /\ startID' = [startID EXCEPT ![t] = 0]
      /\ UNCHANGED <<row, up, index, idMap, nextId, deleted, bitmap, dirty, todo,
                     history, crashes>>
  BY DEF MultiPutFails, CanFail
<1>b. tail = <<>> /\ log = idMap /\ startID[t] = Len(idMap)
  BY <1>a, WriterFindsNothingPending
<1>c. /\ ~Busy(t)'
      /\ \A u \in Inserters : u # t => /\ pc'[u] = pc[u] /\ batch'[u] = batch[u]
                                     /\ startID'[u] = startID[u]
                                     /\ Busy(u)' <=> Busy(u)
  BY <1>a DEF IInv, TypeOK, Busy
<1>d. \E bs \in Seq(Docs) :
         /\ Len(bs) <= Len(batch[t]) /\ \A i \in 1..Len(bs) : bs[i] = batch[t][i]
         /\ log' = log \o bs /\ tail' \in Seq(Docs)
  <2> PICK j \in 0..Len(batch[t]) :
          \/ /\ tail' = tail \o SubSeq(batch[t], 1, j)
             /\ UNCHANGED log
          \/ \E k \in 0..j :
                /\ k < Len(batch[t])
                /\ log' = log \o tail \o SubSeq(batch[t], 1, k)
                /\ tail' = SubSeq(batch[t], k + 1, j)
    BY DEF MultiPutFails
  <2>0. batch[t] \in Seq(Docs) /\ Len(batch[t]) \in Nat /\ log \in Seq(Docs)
    BY Types
  <2>1. CASE tail' = tail \o SubSeq(batch[t], 1, j) /\ log' = log
    <3>1. tail' \in Seq(Docs)
      <4>1. SubSeq(batch[t], 1, j) \in Seq(Docs) /\ tail \in Seq(Docs)
        BY <2>0, PartOfBatch DEF IInv, TypeOK
      <4> QED
        BY <2>1, <4>1, ConcatProperties
    <3>2. log' = log \o <<>>
      BY <2>0, <2>1, ConcatEmptySeq
    <3>3. <<>> \in Seq(Docs) /\ Len(<<>>) = 0
      OBVIOUS
    <3>4. Len(<<>>) <= Len(batch[t]) /\ \A i \in 1..Len(<<>>) : <<>>[i] = batch[t][i]
      BY <2>0, <3>3
    <3> QED
      BY <3>1, <3>2, <3>3, <3>4
  <2>2. ASSUME NEW k \in 0..j, k < Len(batch[t]),
               log' = log \o tail \o SubSeq(batch[t], 1, k),
               tail' = SubSeq(batch[t], k + 1, j)
        PROVE  \E bs \in Seq(Docs) :
                  /\ Len(bs) <= Len(batch[t]) /\ \A i \in 1..Len(bs) : bs[i] = batch[t][i]
                  /\ log' = log \o bs /\ tail' \in Seq(Docs)
    <3> DEFINE part == SubSeq(batch[t], 1, k)
    <3>1. /\ part \in Seq(Docs) /\ Len(part) <= Len(batch[t])
          /\ \A i \in 1..Len(part) : part[i] = batch[t][i]
      <4>1. /\ part \in Seq(Docs) /\ Len(part) = IF 1 <= k THEN k - 1 + 1 ELSE 0
            /\ \A i \in 1..Len(part) : part[i] = batch[t][1 + i - 1]
        BY <2>0, <2>2, PartOfBatch
      <4> HIDE DEF part
      <4> QED
        BY <2>0, <2>2, <4>1
    <3>2. tail' \in Seq(Docs)
      <4>1. k + 1 \in 1..(Len(batch[t]) + 1)
        BY <2>0, <2>2
      <4> QED
        BY <2>0, <2>2, <4>1, PartOfBatch
    <3>3. log' = log \o part
      BY <1>b, <2>0, <2>2, ConcatEmptySeq
    <3> HIDE DEF part
    <3> QED
      BY <3>1, <3>2, <3>3
  <2> QED
    BY <2>1, <2>2
<1> PICK bs \in Seq(Docs) :
         /\ Len(bs) <= Len(batch[t]) /\ \A i \in 1..Len(bs) : bs[i] = batch[t][i]
         /\ log' = log \o bs /\ tail' \in Seq(Docs)
  BY <1>d
<1>1. /\ log' \in Seq(Docs) /\ (row = NoRow \/ row \subseteq Ids(log))'
      /\ Chain' /\ Distinct' /\ Deletes' /\ Live' /\ Acknowledged'
  BY <1>a, LogGrows
<1>2. TypeOK'
  <2>1. /\ pc' \in [Inserters -> {"idle", "indexed", "put", "stored", "mapped"}]
        /\ batch' \in [Inserters -> Seq(Docs)]
        /\ startID' \in [Inserters -> Nat]
    <3>1. <<>> \in Seq(Docs)
      OBVIOUS
    <3> QED
      BY <1>a, <3>1 DEF IInv, TypeOK
  <2>2. faults' \in Nat
    BY <1>a DEF IInv, TypeOK
  <2> QED
    BY <1>a, <1>1, <2>1, <2>2, Zenon DEF IInv, TypeOK, history
<1>3. Alone'
  BY <1>a, BusyIsOpen, Zenon DEF Alone
<1>4. Reserved'
  BY <1>a, <1>c DEF IInv, Reserved
<1>5. Synced'
  <2>1. Len(idMap) < Len(index)
    <3>1. Len(batch[t]) > 0 /\ startID[t] + Len(batch[t]) <= Len(index)
      BY <1>a DEF IInv, Reserved, Busy
    <3> QED
      BY <1>b, <3>1, Types
  <2>2. ASSUME NEW u \in Inserters, Busy(u)' PROVE startID'[u] # Len(idMap)
    BY <1>a, <1>b, <1>c, <2>2, StartsDiffer DEF Busy
  <2> QED
    BY <1>a, <2>1, <2>2 DEF Synced, Broken
<1> QED
  BY <1>1, <1>2, <1>3, <1>4, <1>5 DEF IInv

LEMMA MapDocumentsKeeps ==
  ASSUME IInv, NEW t \in Inserters, MapDocuments(t)
  PROVE  IInv'
<1>a. /\ pc[t] = "stored" /\ idMap' = idMap \o batch[t]
      /\ pc' = [pc EXCEPT ![t] = "mapped"]
      /\ UNCHANGED <<log, row, up, tail, index, nextId, deleted, bitmap, dirty,
                     batch, startID, todo, history, faults, crashes>>
  BY DEF MapDocuments, durable
<1>b. tail = <<>> /\ log = idMap \o batch[t] /\ startID[t] = Len(idMap)
  BY <1>a, StoredIsBehindTheMap
<1>c. /\ pc'[t] = "mapped" /\ Busy(t) /\ Busy(t)'
      /\ \A u \in Inserters : u # t => pc'[u] = pc[u]
      /\ \A u \in Inserters : Busy(u)' <=> Busy(u)
  BY <1>a DEF IInv, TypeOK, Busy
<1>d. /\ idMap' = log /\ Len(idMap') = Len(idMap) + Len(batch[t])
      /\ up /\ Prefix(log, index) /\ Len(batch[t]) > 0
  <2>1. Len(batch[t]) > 0
    BY <1>c DEF IInv, Reserved
  <2> QED
    BY <1>a, <1>b, <2>1, Types, BusyIsOpen, ConcatProperties
<1>e. \A u \in Inserters : pc'[u] # "stored"
  <2> SUFFICES ASSUME NEW u \in Inserters, u # t, pc[u] = "stored" PROVE FALSE
    BY <1>c
  <2> QED
    BY <1>a, <1>b, StoredIsBehindTheMap, StartsDiffer
<1>1. TypeOK'
  <2>1. pc' \in [Inserters -> {"idle", "indexed", "put", "stored", "mapped"}]
    BY <1>a DEF IInv, TypeOK
  <2>2. idMap' \in Seq(Docs)
    BY <1>d, Types
  <2> QED
    BY <1>a, <2>1, <2>2, Zenon DEF IInv, TypeOK, Ids, history
<1>2. Alone'
  BY <1>a, <1>c, <1>d, BusyIsOpen, Zenon DEF Alone
<1>3. Chain'
  BY <1>a, <1>d, Types DEF Chain, Prefix
<1>4. Reserved'
  <2>1. ASSUME NEW u \in Inserters, Busy(u)'
        PROVE  /\ Len(batch'[u]) > 0
               /\ startID'[u] + Len(batch'[u]) <= Len(index')
               /\ \A i \in 1..Len(batch'[u]) : index'[startID'[u] + i] = batch'[u][i]
               /\ IF pc'[u] = "mapped" THEN startID'[u] + Len(batch'[u]) <= Len(idMap')
                  ELSE startID'[u] >= Len(idMap')
               /\ pc'[u] \in {"put", "stored"} => startID'[u] = Len(idMap')
    <3>1. /\ Len(batch[u]) > 0 /\ startID[u] + Len(batch[u]) <= Len(index)
          /\ \A i \in 1..Len(batch[u]) : index[startID[u] + i] = batch[u][i]
          /\ IF pc[u] = "mapped" THEN startID[u] + Len(batch[u]) <= Len(idMap)
             ELSE startID[u] >= Len(idMap)
          /\ pc[u] \in {"put", "stored"} => startID[u] = Len(idMap)
      BY <1>c, <2>1 DEF IInv, Reserved
    <3>2. CASE u = t
      BY <1>a, <1>b, <1>c, <1>d, <3>1, <3>2
    <3>3. CASE u # t
      <4>1. \/ startID[t] + Len(batch[t]) <= startID[u]
            \/ startID[u] + Len(batch[u]) <= startID[t]
        BY <1>c, <2>1, <3>3 DEF IInv, Reserved
      <4>2. pc[u] \notin {"put", "stored"}
        BY <1>b, <1>d, <3>1, <4>1, Types
      <4>3. IF pc[u] = "mapped" THEN startID[u] + Len(batch[u]) <= Len(idMap')
            ELSE startID[u] >= Len(idMap')
        BY <1>b, <1>d, <3>1, <4>1, Types
      <4> QED
        BY <1>a, <1>c, <3>1, <3>3, <4>2, <4>3
    <3> QED
      BY <3>2, <3>3
  <2>2. ASSUME NEW u \in Inserters, NEW v \in Inserters, Busy(u)', Busy(v)', u # v
        PROVE  \/ startID'[u] + Len(batch'[u]) <= startID'[v]
               \/ startID'[v] + Len(batch'[v]) <= startID'[u]
    BY <1>a, <1>c, <2>2 DEF IInv, Reserved
  <2> QED
    BY <2>1, <2>2 DEF Reserved
<1>5. Synced'
  BY <1>a, <1>b, <1>d, <1>e DEF Synced
<1>6. Distinct' /\ Deletes' /\ Acknowledged'
  BY <1>a DEF IInv, Distinct, Deletes, StoredIdsNameTheDeleted, Acknowledged, history
<1>7. Live'
  <2>1. nextId <= Len(idMap')
    BY <1>d, Types DEF IInv, Live
  <2> QED
    BY <1>a, <1>d, <2>1 DEF IInv, Live, Rebuilt
<1> QED
  BY <1>1, <1>2, <1>3, <1>4, <1>5, <1>6, <1>7 DEF IInv

LEMMA OnDocumentsInsertedKeeps ==
  ASSUME IInv, Asserts, NEW t \in Inserters, OnDocumentsInserted(t)
  PROVE  IInv'
<1>1. CASE Abort
  BY <1>1, CloseKeeps
<1>2. CASE ~Abort
  <2>a. /\ pc[t] = "mapped" /\ NextDocId(t) > nextId
        /\ nextId' = NextDocId(t) /\ dirty' = TRUE
        /\ acked' = acked \cup {batch[t][i] : i \in DOMAIN batch[t]}
        /\ pc' = [pc EXCEPT ![t] = "idle"]
        /\ batch' = [batch EXCEPT ![t] = <<>>]
        /\ startID' = [startID EXCEPT ![t] = 0]
        /\ UNCHANGED <<log, row, up, tail, index, idMap, deleted, bitmap, todo, tried,
                       gone, faults, crashes>>
    BY <1>2 DEF OnDocumentsInserted, durable
  <2>b. /\ ~Busy(t)'
        /\ \A u \in Inserters : u # t => /\ pc'[u] = pc[u] /\ batch'[u] = batch[u]
                                       /\ startID'[u] = startID[u]
                                       /\ Busy(u)' <=> Busy(u)
    BY <2>a DEF IInv, TypeOK, Busy
  <2>c. up /\ Prefix(idMap, log) /\ Prefix(log, index)
    BY <2>a, BusyIsOpen
  <2>d. /\ nextId' \in Nat /\ nextId' = startID[t] + Len(batch[t])
        /\ nextId' > nextId /\ nextId' <= Len(idMap)
    BY <2>a, Types DEF IInv, Reserved, Busy, NextDocId
  <2>e. ASSUME NEW i \in 1..Len(batch[t])
        PROVE  /\ startID[t] + i \in 1..Len(log) /\ startID[t] + i <= nextId'
               /\ log[startID[t] + i] = batch[t][i]
               /\ batch[t][i] \in tried
    <3>1. startID[t] + i \in 1..Len(log) /\ startID[t] + i \in 1..Len(index)
      BY <2>c, <2>d, Types DEF Prefix
    <3>2. index[startID[t] + i] = batch[t][i]
      BY <2>a DEF IInv, Reserved, Busy
    <3>3. log[startID[t] + i] = index[startID[t] + i]
      BY <2>c, <3>1 DEF Prefix
    <3>4. index[startID[t] + i] \in tried
      BY <3>1 DEF IInv, Distinct, DocsOf
    <3> QED
      BY <2>d, <3>1, <3>2, <3>3, <3>4, Types
  <2>f. DOMAIN batch[t] = 1..Len(batch[t])
    BY Types, LenProperties
  <2>1. TypeOK'
    <3>1. /\ pc' \in [Inserters -> {"idle", "indexed", "put", "stored", "mapped"}]
          /\ batch' \in [Inserters -> Seq(Docs)]
          /\ startID' \in [Inserters -> Nat]
      <4>1. <<>> \in Seq(Docs)
        OBVIOUS
      <4> QED
        BY <2>a, <4>1 DEF IInv, TypeOK
    <3>2. acked' \subseteq tried
      BY <2>a, <2>e, <2>f DEF IInv, TypeOK
    <3>3. dirty' \in BOOLEAN
      BY <2>a
    <3> QED
      BY <2>a, <2>d, <3>1, <3>2, <3>3, Zenon DEF IInv, TypeOK, Ids
  <2>2. Alone'
    BY <2>a, <2>c, BusyIsOpen, Zenon DEF Alone
  <2>3. Chain' /\ Distinct'
    BY <2>a DEF IInv, Chain, Distinct
  <2>4. Reserved'
    BY <2>a, <2>b DEF IInv, Reserved
  <2>5. Synced'
    <3>1. CASE tail = <<>> /\ log = idMap /\ \A u \in Inserters : pc[u] # "stored"
      <4>1. \A u \in Inserters : pc'[u] # "stored"
        BY <2>a, <2>b, <3>1 DEF Busy
      <4> QED
        BY <2>a, <3>1, <4>1 DEF Synced
    <3>2. CASE \E u \in Inserters :
                  pc[u] = "stored" /\ tail = <<>> /\ log = idMap \o batch[u]
      <4>1. PICK u \in Inserters :
                  pc[u] = "stored" /\ tail = <<>> /\ log = idMap \o batch[u]
        BY <3>2
      <4>2. u # t /\ pc'[u] = "stored" /\ tail' = <<>> /\ log' = idMap' \o batch'[u]
        BY <2>a, <2>b, <4>1
      <4> QED
        BY <4>2 DEF Synced
    <3>3. CASE Broken
      BY <2>a, <2>b, <3>3 DEF Synced, Broken
    <3> QED
      BY <2>c, <3>1, <3>2, <3>3 DEF IInv, Synced
  <2>6. Deletes'
    <3>1. row = deleted /\ deleted \subseteq 0..(nextId - 1)
      BY <2>c DEF IInv, Deletes
    <3>2. deleted \subseteq 0..(nextId' - 1)
      BY <2>d, <3>1, Types
    <3> QED
      BY <2>a, <3>1, <3>2 DEF IInv, Deletes, StoredIdsNameTheDeleted
  <2>7. Live'
    BY <2>a, <2>d DEF Live
  <2>8. Acknowledged'
    <3> SUFFICES ASSUME NEW d \in acked'
                 PROVE  \E i \in 1..Len(log) : log[i] = d /\ i <= nextId'
      BY <2>a DEF Acknowledged
    <3>1. CASE d \in acked
      <4>1. PICK i \in 1..Len(log) : log[i] = d /\ i <= nextId
        BY <2>c, <3>1 DEF IInv, Acknowledged
      <4> QED
        BY <2>d, <4>1, Types
    <3>2. CASE d \notin acked
      BY <2>a, <2>e, <2>f, <3>2
    <3> QED
      BY <3>1, <3>2
  <2> QED
    BY <2>1, <2>2, <2>3, <2>4, <2>5, <2>6, <2>7, <2>8 DEF IInv
<1> QED
  BY <1>1, <1>2

-----------------------------------------------------------------------------
(* Queries and DELETE. *)

\* What only inserts change.
LEMMA InsertsKept ==
  ASSUME IInv,
         UNCHANGED <<log, tail, index, idMap, up, pc, batch, startID, tried>>
  PROVE  Chain' /\ Reserved' /\ Synced' /\ Distinct'
<1>1. Chain' /\ Distinct'
  BY DEF IInv, Chain, Distinct
<1>2. Reserved'
  BY DEF IInv, Reserved, Busy
<1>3. Synced'
  BY DEF IInv, Synced, Broken, Busy
<1> QED
  BY <1>1, <1>2, <1>3

\* What only deletes and the end of an insert change.
LEMMA DeletesKept ==
  ASSUME IInv, UNCHANGED <<log, row, up, nextId, deleted, acked, gone>>
  PROVE  Deletes' /\ Acknowledged'
BY DEF IInv, Deletes, StoredIdsNameTheDeleted, Acknowledged

LEMMA RebuiltIsABitmap == IInv => Rebuilt \in [size : Nat, bits : SUBSET Nat]
<1> SUFFICES ASSUME IInv PROVE Rebuilt \in [size : Nat, bits : SUBSET Nat]
  OBVIOUS
<1>1. nextId + 1 \in Nat /\ 0..(nextId - 1) \ deleted \subseteq Nat
  BY Types
<1> QED
  BY <1>1 DEF Rebuilt

LEMMA FilterKeeps == IInv /\ Filter => IInv'
<1> SUFFICES ASSUME IInv, Filter PROVE IInv'
  OBVIOUS
<1> USE DEF calls, history
<1>a. /\ up /\ bitmap' = Rebuilt /\ dirty' = FALSE
      /\ UNCHANGED <<log, row, up, tail, index, idMap, nextId, deleted, calls,
                     history, faults, crashes>>
  BY DEF Filter, Serial, durable
<1>1. TypeOK'
  <2>1. bitmap' \in [size : Nat, bits : SUBSET Nat] /\ dirty' \in BOOLEAN
    BY <1>a, RebuiltIsABitmap
  <2> QED
    BY <1>a, <2>1, Zenon DEF IInv, TypeOK, Ids
<1>2. Alone'
  BY <1>a DEF IInv, Alone, Busy
<1>3. Chain' /\ Reserved' /\ Synced' /\ Distinct' /\ Deletes' /\ Acknowledged'
  BY <1>a, InsertsKept, DeletesKept
<1>4. Live'
  BY <1>a DEF IInv, Live, Rebuilt
<1> QED
  BY <1>1, <1>2, <1>3, <1>4 DEF IInv

LEMMA DeleteKeeps == IInv /\ Delete => IInv'
<1> SUFFICES ASSUME IInv, Delete PROVE IInv'
  OBVIOUS
<1> USE DEF history
<1>a. /\ Serial /\ bitmap' = LiveBitmap /\ dirty' = FALSE
      /\ UNCHANGED <<log, row, up, tail, index, idMap, nextId, deleted, pc, batch,
                     startID, history, faults, crashes>>
  BY DEF Delete, durable
<1>b. todo' \subseteq Nat
  <2>1. ScanRows \subseteq Nat /\ IndexRows \subseteq Nat
    BY Types DEF ScanRows, IndexRows, Masked, Ids
  <2>2. PICK rows \in (SUBSET ScanRows) \cup (SUBSET IndexRows) : todo' = rows
    BY DEF Delete
  <2> QED
    BY <2>1, <2>2
<1>c. bitmap' = Rebuilt \/ (~dirty /\ bitmap' = bitmap)
  BY <1>a, Zenon DEF LiveBitmap
<1>1. TypeOK'
  <2>1. bitmap' \in [size : Nat, bits : SUBSET Nat] /\ dirty' \in BOOLEAN
    BY <1>a, <1>c, RebuiltIsABitmap DEF IInv, TypeOK
  <2> QED
    BY <1>a, <1>b, <2>1, Zenon DEF IInv, TypeOK, Ids
<1>2. Alone'
  BY <1>a, Zenon DEF Alone, Serial, Busy
<1>3. Chain' /\ Reserved' /\ Synced' /\ Distinct' /\ Deletes' /\ Acknowledged'
  BY <1>a, InsertsKept, DeletesKept
<1>4. Live'
  BY <1>a, <1>c DEF IInv, Live, Rebuilt
<1> QED
  BY <1>1, <1>2, <1>3, <1>4 DEF IInv

LEMMA StoreBitmapFailsKeeps == IInv /\ StoreBitmapFails => IInv'
<1> SUFFICES ASSUME IInv, StoreBitmapFails PROVE IInv'
  OBVIOUS
<1> USE DEF history
<1>a. /\ todo' = {} /\ faults' = faults + 1
      /\ UNCHANGED <<log, row, up, tail, index, idMap, nextId, deleted, bitmap, dirty,
                     pc, batch, startID, history, crashes>>
  BY DEF StoreBitmapFails, CanFail, durable, memory
<1>1. TypeOK'
  <2>1. faults' \in Nat /\ todo' \subseteq Nat
    BY <1>a DEF IInv, TypeOK
  <2> QED
    BY <1>a, <2>1, Zenon DEF IInv, TypeOK, Ids
<1>2. Alone'
  BY <1>a, Zenon DEF IInv, Alone, Busy
<1>3. Chain' /\ Reserved' /\ Synced' /\ Distinct' /\ Deletes' /\ Acknowledged'
  BY <1>a, InsertsKept, DeletesKept
<1>4. Live'
  BY <1>a DEF IInv, Live, Rebuilt
<1> QED
  BY <1>1, <1>2, <1>3, <1>4 DEF IInv

\* A set of ids has a least one.
LEMMA LeastId ==
  ASSUME NEW T, T \subseteq Nat, T # {}
  PROVE  \E x \in T : \A y \in T : x <= y
<1> DEFINE R == {ss \in Nat \X Nat : ss[1] < ss[2]}
<1>1. IsWellFoundedOn(R, Nat)
  BY NatLessThanWellFounded DEF OpToRel
<1>2. PICK x \in T : \A y \in T : ~(<<y, x>> \in R)
  <2> HIDE DEF R
  <2> QED
    BY <1>1, WFMin
<1>3. ASSUME NEW y \in T PROVE x <= y
  <2>1. ~(y < x)
    BY <1>2
  <2> QED
    BY <2>1
<1> QED
  BY <1>3

LEMMA OnDocumentDeletedKeeps == IInv /\ Asserts /\ OnDocumentDeleted => IInv'
<1> SUFFICES ASSUME IInv, Asserts, OnDocumentDeleted PROVE IInv'
  OBVIOUS
<1>1. CASE Abort
  BY <1>1, CloseKeeps
<1>2. CASE ~Abort
  <2> DEFINE id == NextRow
             d  == Doc(index, id)
  <2>a. /\ todo # {} /\ id < nextId
        /\ deleted' = deleted \cup {id} /\ row' = deleted' /\ dirty' = TRUE
        /\ gone' = gone \cup {d}
        /\ todo' = todo \ {id}
        /\ UNCHANGED <<log, up, tail, index, idMap, nextId, bitmap, pc, batch, startID,
                       tried, acked, faults, crashes>>
    BY <1>2 DEF OnDocumentDeleted
  <2>b. id \in todo /\ id \in Nat
    <3>1. \E x \in todo : \A y \in todo : x <= y
      BY <2>a, LeastId DEF IInv, TypeOK
    <3> QED
      BY <3>1 DEF NextRow, IInv, TypeOK
  <2>c. /\ up /\ \A t \in Inserters : ~Busy(t)
        /\ Prefix(idMap, log) /\ Prefix(log, index)
    BY <2>a DEF IInv, Alone, Chain
  <2> HIDE DEF id, d
  <2>d. /\ nextId <= Len(idMap) /\ id \in Ids(log) /\ id \in 0..(nextId - 1)
        /\ d = Doc(log, id) /\ d \in DocsOf(log) /\ d \in tried
    <3>1. nextId <= Len(idMap) /\ Len(idMap) <= Len(log)
      BY <2>c DEF IInv, Live, Prefix
    <3>2. id + 1 \in 1..Len(log) /\ id \in Ids(log) /\ id \in 0..(nextId - 1)
      BY <2>a, <2>b, <3>1, Types DEF Ids
    <3>3. index[id + 1] = log[id + 1]
      BY <2>c, <3>2 DEF Prefix
    <3>4. d = log[id + 1] /\ d \in DocsOf(log)
      BY <3>2, <3>3 DEF d, Doc, DocsOf
    <3> QED
      BY <3>1, <3>2, <3>4 DEF IInv, Distinct, Doc
  <2>e. row = deleted /\ deleted \subseteq 0..(nextId - 1)
    BY <2>c DEF IInv, Deletes
  <2>1. TypeOK'
    <3>1. row' \subseteq Ids(log) /\ deleted' \subseteq Nat
      <4>1. row \subseteq Ids(log)
        <5>1. nextId <= Len(log)
          BY <2>c, <2>d, Types DEF Prefix
        <5> QED
          BY <2>e, <5>1, Types DEF Ids
      <4> QED
        BY <2>a, <2>b, <2>d, <2>e, <4>1 DEF IInv, TypeOK
    <3>2. gone' \subseteq tried /\ dirty' \in BOOLEAN /\ todo' \subseteq Nat
      BY <2>a, <2>d DEF IInv, TypeOK
    <3> QED
      BY <2>a, <3>1, <3>2, Zenon DEF IInv, TypeOK, Ids
  <2>2. Alone'
    BY <2>a, <2>c, Zenon DEF Alone, Busy
  <2>3. Chain' /\ Reserved' /\ Synced' /\ Distinct' /\ Acknowledged'
    <3>1. Acknowledged'
      BY <2>a DEF IInv, Acknowledged
    <3> QED
      BY <2>a, <3>1, InsertsKept
  <2>4. Deletes'
    <3>1. row' # NoRow
      BY <2>a, <2>b, <2>e DEF NoRow
    <3>2. ASSUME NEW other \in Ids(log)
          PROVE  Doc(log, other) \in gone' <=> other \in row'
      <4>1. Doc(log, other) \in gone <=> other \in row
        <5>1. row # NoRow
          BY <2>e DEF NoRow
        <5> QED
          BY <5>1 DEF IInv, Deletes, StoredIdsNameTheDeleted
      <4>2. Doc(log, other) = d <=> other = id
        <5>1. other + 1 \in 1..Len(log) /\ id + 1 \in 1..Len(log)
          BY <2>d, Types DEF Ids
        <5>2. log[other + 1] = log[id + 1] => other + 1 = id + 1
          BY <5>1 DEF IInv, Distinct, Unique
        <5> QED
          BY <2>d, <5>1, <5>2 DEF Doc, Ids
      <4> QED
        BY <2>a, <2>e, <4>1, <4>2
    <3>3. gone' \subseteq DocsOf(log)
      BY <2>a, <2>d DEF IInv, Deletes
    <3>4. deleted' \subseteq 0..(nextId - 1)
      BY <2>a, <2>d, <2>e
    <3> QED
      BY <2>a, <3>1, <3>2, <3>3, <3>4 DEF Deletes, StoredIdsNameTheDeleted, Ids, Doc, DocsOf
  <2>5. Live'
    BY <2>a, <2>d DEF Live
  <2> QED
    BY <2>1, <2>2, <2>3, <2>4, <2>5 DEF IInv
<1> QED
  BY <1>1, <1>2

LEMMA StepKeeps == IInv /\ Asserts /\ [Next]_vars => IInv'
<1> SUFFICES ASSUME IInv, Asserts, [Next]_vars PROVE IInv'
  OBVIOUS
<1>1. CASE UNCHANGED vars
  <2> USE <1>1 DEF vars, durable, memory, calls, history
  <2>1. TypeOK'
    BY Zenon DEF IInv, TypeOK, Ids
  <2>2. Alone'
    BY Zenon DEF IInv, Alone, Busy
  <2>3. Live'
    BY DEF IInv, Live, Rebuilt
  <2> QED
    BY <2>1, <2>2, <2>3, InsertsKept, DeletesKept DEF IInv
<1>2. CASE Open
  BY <1>2, OpenKeeps
<1>3. CASE Close \/ Crash
  BY <1>3, CloseKeeps
<1>4. ASSUME NEW t \in Inserters,
             \/ IndexDocuments(t) \/ CheckStartID(t)
             \/ MultiPut(t) \/ MultiPutFails(t)
             \/ MapDocuments(t) \/ OnDocumentsInserted(t)
      PROVE  IInv'
  BY <1>4, IndexDocumentsKeeps, CheckStartIDKeeps, MultiPutKeeps, MultiPutFailsKeeps,
     MapDocumentsKeeps, OnDocumentsInsertedKeeps
<1>5. CASE Filter \/ Delete \/ OnDocumentDeleted \/ StoreBitmapFails
  BY <1>5, FilterKeeps, DeleteKeeps, OnDocumentDeletedKeeps, StoreBitmapFailsKeeps
<1> QED
  BY <1>1, <1>2, <1>3, <1>4, <1>5 DEF Next

LEMMA Invariance == ASSUME Asserts PROVE Spec => []IInv
<1>1. Init => IInv
  BY InitEstablishes
<1>2. IInv /\ [Next]_vars => IInv'
  BY StepKeeps
<1> QED
  BY <1>1, <1>2, PTL DEF Spec

-----------------------------------------------------------------------------
(* What follows from the invariant. *)

\* The row of the delete vector never names an id that the data files lack, and
\* every variable keeps its type.
THEOREM TypeCorrect == ASSUME Asserts PROVE Spec => []TypeOK
<1>1. IInv => TypeOK
  BY DEF IInv
<1> QED
  BY <1>1, Invariance, PTL

\* No insert that fails, wherever it does, makes the map and the indexes disagree
\* on what an id stands for, as long as DocumentCollection::MultiInsert keeps its
\* assertion on the first id.
THEOREM IdsAreIndexedAsMapped == ASSUME Asserts PROVE Spec => []IndexedAsMapped
<1>1. IInv => IndexedAsMapped
  <2> SUFFICES ASSUME IInv, NEW id \in Ids(idMap)
               PROVE  id \in Ids(index) /\ Doc(index, id) = Doc(idMap, id)
    BY DEF IndexedAsMapped
  <2>1. CASE ~up
    BY <2>1 DEF IInv, Alone, Ids
  <2>2. CASE up
    <3>1. Prefix(idMap, log) /\ Prefix(log, index)
      BY <2>2 DEF IInv, Chain
    <3>2. id + 1 \in 1..Len(idMap) /\ id + 1 \in 1..Len(log) /\ id \in Ids(index)
      BY <3>1, Types DEF Ids, Prefix
    <3> QED
      BY <3>1, <3>2 DEF Doc, Prefix
  <2> QED
    BY <2>1, <2>2
<1> QED
  BY <1>1, Invariance, PTL

\* The ids that DeleteVector has stored are, for whoever reads them next to the
\* data files, those of the documents that were deleted.
THEOREM StoredIdsAreOfTheDeleted == ASSUME Asserts PROVE Spec => []StoredIdsNameTheDeleted
<1>1. IInv => StoredIdsNameTheDeleted
  BY DEF IInv, Deletes
<1> QED
  BY <1>1, Invariance, PTL

\* The live documents, as long as the collection is open: the ids below the next
\* one that were not deleted, or all when there is no mask yet.
LEMMA MaskIsOfTheLive ==
  ASSUME IInv, up, NEW ids
  PROVE  \/ /\ Masked(ids) = ids \cap (0..(nextId - 1) \ deleted)
         \/ /\ Masked(ids) = ids /\ nextId = 0 /\ deleted = {}
<1>1. Rebuilt.size # 0 /\ Rebuilt.bits = 0..(nextId - 1) \ deleted
  BY Types DEF Rebuilt
<1>2. CASE LiveBitmap = Rebuilt
  BY <1>1, <1>2 DEF Masked
<1>3. CASE LiveBitmap = EmptyBitmap /\ nextId = 0 /\ deleted = {}
  BY <1>3 DEF Masked, EmptyBitmap
<1>4. CASE dirty
  <2>1. LiveBitmap = Rebuilt
    BY <1>4 DEF LiveBitmap
  <2> QED
    BY <1>2, <2>1
<1>5. CASE ~dirty
  <2>1. LiveBitmap = bitmap
    BY <1>5 DEF LiveBitmap
  <2>2. \/ bitmap = Rebuilt
        \/ bitmap = EmptyBitmap /\ nextId = 0 /\ deleted = {}
    BY <1>5, Zenon DEF IInv, Live
  <2> QED
    BY <1>2, <1>3, <2>1, <2>2
<1> QED
  BY <1>4, <1>5

\* A document whose insert returned is found by a scan and by its index until its
\* delete is stored: DocumentCollection::Filter masks no live row out.
THEOREM AcknowledgedAreFound == ASSUME Asserts PROVE Spec => []InsertedAreFound
<1>1. IInv => InsertedAreFound
  <2> SUFFICES ASSUME IInv, Serial, NEW d \in acked \ gone
               PROVE  \E id \in ScanRows \cap IndexRows :
                         Doc(idMap, id) = d /\ Doc(index, id) = d
    BY DEF InsertedAreFound
  <2>1. up /\ Prefix(idMap, log) /\ Prefix(log, index) /\ nextId <= Len(idMap)
    BY DEF Serial, IInv, Chain, Live
  <2>2. PICK i \in 1..Len(log) : log[i] = d /\ i <= nextId
    BY <2>1 DEF IInv, Acknowledged
  <2> DEFINE id == i - 1
  <2>3. /\ i \in 1..Len(idMap) /\ i \in 1..Len(index)
        /\ idMap[i] = d /\ index[i] = d
    BY <2>1, <2>2, Types DEF Prefix
  <2>4. /\ id \in Ids(idMap) /\ id \in Ids(index) /\ id \in Ids(log)
        /\ id \in 0..(nextId - 1) /\ id + 1 = i
    BY <2>2, <2>3, Types DEF Ids
  <2> HIDE DEF id
  <2>5. Doc(idMap, id) = d /\ Doc(index, id) = d /\ Doc(log, id) = d
    BY <2>2, <2>3, <2>4 DEF Doc
  <2>6. id \notin deleted
    <3>1. row = deleted /\ row # NoRow
      BY <2>1 DEF IInv, Deletes, NoRow
    <3> QED
      BY <2>4, <2>5, <3>1 DEF IInv, Deletes, StoredIdsNameTheDeleted
  <2>7. id \in ScanRows
    BY <2>1, <2>4, <2>6, MaskIsOfTheLive DEF ScanRows
  <2>8. id \in IndexRows
    BY <2>1, <2>4, <2>6, MaskIsOfTheLive DEF IndexRows
  <2> QED
    BY <2>5, <2>7, <2>8
<1> QED
  BY <1>1, Invariance, PTL

\* A document whose delete was stored is never found again, also not after a
\* crash and a reload that hands the ids out anew.
THEOREM DeletedAreNotFound == ASSUME Asserts PROVE Spec => []DeletedStayDeleted
<1>1. IInv => DeletedStayDeleted
  <2> SUFFICES ASSUME IInv, up, NEW id \in ScanRows \cup (IndexRows \cap Ids(idMap))
               PROVE  Doc(idMap, id) \notin gone /\ Doc(index, id) \notin gone
    BY DEF DeletedStayDeleted
  <2>1. Prefix(idMap, log) /\ Prefix(log, index)
    BY DEF IInv, Chain
  <2>2. id \in Ids(idMap) /\ id \notin deleted
    BY MaskIsOfTheLive DEF ScanRows, IndexRows
  <2>3. id \in Ids(log) /\ id + 1 \in 1..Len(idMap) /\ id + 1 \in 1..Len(log)
    BY <2>1, <2>2, Types DEF Prefix, Ids
  <2>4. Doc(idMap, id) = Doc(log, id) /\ Doc(index, id) = Doc(log, id)
    BY <2>1, <2>3 DEF Prefix, Doc
  <2>5. row = deleted /\ row # NoRow
    BY DEF IInv, Deletes, NoRow
  <2> QED
    BY <2>2, <2>3, <2>4, <2>5 DEF IInv, Deletes, StoredIdsNameTheDeleted
<1> QED
  BY <1>1, Invariance, PTL

\* The ids that a failed insert left in the indexes are behind the mask.
THEOREM FoundCanBeFetched == ASSUME Asserts PROVE Spec => []RowsCanBeFetched
<1>1. IInv => RowsCanBeFetched
  <2> SUFFICES ASSUME IInv, Serial, nextId > 0 PROVE IndexRows \subseteq Ids(idMap)
    BY DEF RowsCanBeFetched
  <2>1. up /\ nextId <= Len(idMap)
    BY DEF Serial, IInv, Live
  <2>2. IndexRows \subseteq 0..(nextId - 1)
    BY <2>1, MaskIsOfTheLive DEF IndexRows
  <2> QED
    BY <2>1, <2>2, Types DEF Ids
<1> QED
  BY <1>1, Invariance, PTL

-----------------------------------------------------------------------------
(* The collection implements the store. *)

LEMMA VisibleAreTheLive == IInv => Visible = DocsOf(log) \ gone
<1> SUFFICES ASSUME IInv PROVE Visible = DocsOf(log) \ gone
  OBVIOUS
<1> DEFINE Shown == IF row = NoRow THEN Ids(log) ELSE Ids(log) \ row
<1>1. \A id \in Ids(log) : id \in Shown <=> Doc(log, id) \notin gone
  BY DEF IInv, Deletes, StoredIdsNameTheDeleted
<1>2. ASSUME NEW id \in Shown PROVE Doc(log, id) \in DocsOf(log) \ gone
  <2>1. id \in Ids(log) /\ id + 1 \in 1..Len(log)
    BY Types DEF Ids
  <2> QED
    BY <1>1, <1>2, <2>1 DEF Doc, DocsOf
<1>3. ASSUME NEW i \in 1..Len(log), log[i] \notin gone
      PROVE  \E id \in Shown : log[i] = Doc(log, id)
  <2>1. i - 1 \in Ids(log) /\ (i - 1) + 1 = i
    BY Types DEF Ids
  <2> QED
    BY <1>1, <1>3, <2>1 DEF Doc
<1> HIDE DEF Shown
<1>4. Visible = {Doc(log, id) : id \in Shown}
  BY DEF Visible, Shown
<1> QED
  BY <1>2, <1>3, <1>4 DEF DocsOf

\* Three ways to change the store, and to leave it alone.
LEMMA StoreStep ==
  ASSUME IInv, IInv',
         \/ /\ gone' = gone /\ acked' = acked
            /\ DocsOf(log) \subseteq DocsOf(log')
         \/ log' = log /\ gone' = gone /\ acked \subseteq acked'
         \/ log' = log /\ acked' = acked /\ \E d : gone' = gone \cup {d}
  PROVE  [Store!Next]_(Store!vars)
<1>a. /\ Visible = DocsOf(log) \ gone
      /\ gone \subseteq DocsOf(log) /\ DocsOf(log) \subseteq Docs
      /\ acked \subseteq DocsOf(log)
  BY VisibleAreTheLive DEF IInv, Deletes, Acknowledged, DocsOf, TypeOK, Distinct
<1>b. /\ Visible' = DocsOf(log') \ gone'
      /\ gone' \subseteq DocsOf(log') /\ DocsOf(log') \subseteq Docs
      /\ acked' \subseteq DocsOf(log')
  <2>1. Visible' = (DocsOf(log) \ gone)'
    <3>1. (IInv => Visible = DocsOf(log) \ gone)'
      BY VisibleAreTheLive, PTL
    <3> QED
      BY <3>1
  <2>2. gone' \subseteq DocsOf(log')
    BY DEF IInv, Deletes, DocsOf
  <2>3. acked' \subseteq DocsOf(log')
    BY DEF IInv, Acknowledged, DocsOf
  <2>4. DocsOf(log') \subseteq Docs
    BY DEF IInv, TypeOK, DocsOf
  <2>5. DocsOf(log)' = DocsOf(log')
    BY DEF DocsOf
  <2> QED
    BY <2>1, <2>2, <2>3, <2>4, <2>5
<1>1. CASE gone' = gone /\ acked' = acked /\ DocsOf(log) \subseteq DocsOf(log')
  <2> DEFINE ds == DocsOf(log') \ DocsOf(log)
  <2>1. CASE ds = {}
    <3>1. Visible' = Visible /\ (acked \ gone)' = acked \ gone
      BY <1>a, <1>b, <1>1, <2>1
    <3> QED
      BY <1>1, <3>1 DEF Store!vars
  <2>2. CASE ds # {}
    <3>1. /\ ds \in SUBSET Docs /\ ds \cap (Visible \cup gone) = {}
          /\ Visible' = Visible \cup ds /\ (acked \ gone)' = acked \ gone
      BY <1>a, <1>b, <1>1
    <3>2. Store!Store(ds)
      BY <1>1, <2>2, <3>1 DEF Store!Store
    <3> QED
      BY <3>1, <3>2 DEF Store!Next
  <2> QED
    BY <2>1, <2>2
<1>2. CASE log' = log /\ gone' = gone /\ acked \subseteq acked'
  <2> DEFINE ds == (acked' \ acked) \ gone
  <2>0. Visible' = Visible
    BY <1>a, <1>b, <1>2 DEF DocsOf
  <2>1. CASE ds = {}
    <3>1. (acked \ gone)' = acked \ gone
      BY <1>2, <2>1
    <3> QED
      BY <1>2, <2>0, <3>1 DEF Store!vars
  <2>2. CASE ds # {}
    <3>1. /\ ds \in SUBSET Docs /\ ds \subseteq Visible
          /\ (acked \ gone)' = (acked \ gone) \cup ds
      BY <1>a, <1>b, <1>2 DEF DocsOf
    <3>2. Store!Acknowledge(ds)
      BY <1>2, <2>0, <2>2, <3>1 DEF Store!Acknowledge
    <3> QED
      BY <3>1, <3>2 DEF Store!Next
  <2> QED
    BY <2>1, <2>2
<1>3. ASSUME NEW d, log' = log, acked' = acked, gone' = gone \cup {d}
      PROVE  [Store!Next]_(Store!vars)
  <2>0. DocsOf(log') = DocsOf(log)
    BY <1>3 DEF DocsOf
  <2>1. CASE d \in gone
    <3>1. gone' = gone
      BY <1>3, <2>1
    <3>2. Visible' = Visible /\ (acked \ gone)' = acked \ gone
      BY <1>a, <1>b, <1>3, <2>0, <3>1
    <3> QED
      BY <3>1, <3>2 DEF Store!vars
  <2>2. CASE d \notin gone
    <3>1. /\ d \in Docs /\ d \in Visible /\ Visible' = Visible \ {d}
          /\ (acked \ gone)' = (acked \ gone) \ {d}
      BY <1>a, <1>b, <1>3, <2>0, <2>2
    <3>2. Store!Delete(d)
      BY <1>3, <3>1 DEF Store!Delete
    <3> QED
      BY <3>1, <3>2 DEF Store!Next
  <2> QED
    BY <2>1, <2>2
<1> QED
  BY <1>1, <1>2, <1>3

\* The log only grows.
LEMMA LogKeepsItsDocuments ==
  ASSUME IInv, NEW t \in Inserters, MultiPut(t) \/ MultiPutFails(t)
  PROVE  DocsOf(log) \subseteq DocsOf(log')
<1>1. ASSUME NEW bs \in Seq(Docs), log' = log \o tail \o bs
      PROVE  DocsOf(log) \subseteq DocsOf(log')
  <2>1. log \in Seq(Docs) /\ tail \in Seq(Docs) /\ log \o tail \in Seq(Docs)
        /\ log \o tail \o bs \in Seq(Docs)
    BY ConcatProperties DEF IInv, TypeOK
  <2>2. Prefix(log, log \o tail) /\ Prefix(log \o tail, log \o tail \o bs)
    BY <2>1, PrefixOfConcat
  <2>3. Prefix(log, log')
    BY <1>1, <2>1, <2>2, PrefixTransitive
  <2> QED
    BY <1>1, <2>1, <2>3, LenProperties DEF Prefix, DocsOf
<1>2. batch[t] \in Seq(Docs) /\ Len(batch[t]) \in Nat
  BY Types
<1>3. CASE MultiPut(t)
  BY <1>1, <1>2, <1>3 DEF MultiPut
<1>4. CASE MultiPutFails(t) /\ log' = log
  BY <1>4 DEF DocsOf
<1>5. CASE MultiPutFails(t) /\ log' # log
  <2>0. PICK j \in 0..Len(batch[t]) :
          \E k \in 0..j : log' = log \o tail \o SubSeq(batch[t], 1, k)
    BY <1>5 DEF MultiPutFails
  <2>1. PICK k \in 0..j : log' = log \o tail \o SubSeq(batch[t], 1, k)
    BY <2>0
  <2>2. SubSeq(batch[t], 1, k) \in Seq(Docs)
    <3>1. k \in 0..Len(batch[t]) /\ 1 \in 1..(Len(batch[t]) + 1)
      BY <1>2
    <3> QED
      BY <1>2, <3>1, PartOfBatch
  <2> QED
    BY <1>1, <2>1, <2>2
<1> QED
  BY <1>3, <1>4, <1>5

\* A collection implements DocumentStore: what a reader of a collection could be
\* told of its documents changes as a store's does and in no other way, whatever
\* fails or crashes while documents are inserted and deleted.
THEOREM CollectionIsAStore == ASSUME Asserts PROVE Spec => ImplementsDocumentStore
<1>1. Init => Store!Init
  <2> SUFFICES ASSUME Init PROVE Store!Init
    OBVIOUS
  <2>1. DocsOf(log) = {}
    BY DEF Init, DocsOf
  <2>2. Visible = {}
    BY <2>1, InitEstablishes, VisibleAreTheLive
  <2> QED
    BY <2>2 DEF Init, Store!Init
<1>2. IInv /\ IInv' /\ [Next]_vars => [Store!Next]_(Store!vars)
  <2> SUFFICES ASSUME IInv, IInv', [Next]_vars
               PROVE  \/ /\ gone' = gone /\ acked' = acked
                         /\ DocsOf(log) \subseteq DocsOf(log')
                      \/ log' = log /\ gone' = gone /\ acked \subseteq acked'
                      \/ log' = log /\ acked' = acked /\ \E d : gone' = gone \cup {d}
    BY StoreStep
  <2> USE DEF durable, memory, calls, history
  <2>1. CASE UNCHANGED vars
    BY <2>1 DEF vars
  <2>2. CASE Open \/ Close \/ Crash \/ Filter \/ Delete \/ StoreBitmapFails
    BY <2>2 DEF Open, Close, Crash, Filter, Delete, StoreBitmapFails
  <2>3. CASE OnDocumentDeleted
    BY <2>3 DEF OnDocumentDeleted, Abort
  <2>4. ASSUME NEW t \in Inserters,
               IndexDocuments(t) \/ CheckStartID(t) \/ MapDocuments(t)
        PROVE  log' = log /\ gone' = gone /\ acked' = acked
    BY <2>4 DEF IndexDocuments, CheckStartID, MapDocuments, Abort
  <2>5. ASSUME NEW t \in Inserters, OnDocumentsInserted(t)
        PROVE  log' = log /\ gone' = gone /\ acked \subseteq acked'
    BY <2>5 DEF OnDocumentsInserted, Abort
  <2>6. ASSUME NEW t \in Inserters, MultiPut(t) \/ MultiPutFails(t)
        PROVE  gone' = gone /\ acked' = acked /\ DocsOf(log) \subseteq DocsOf(log')
    BY <2>6, LogKeepsItsDocuments DEF MultiPut, MultiPutFails
  <2> QED
    BY <2>1, <2>2, <2>3, <2>4, <2>5, <2>6 DEF Next
<1> QED
  BY <1>1, <1>2, Invariance, PTL DEF Spec, ImplementsDocumentStore, Store!Spec
=============================================================================
