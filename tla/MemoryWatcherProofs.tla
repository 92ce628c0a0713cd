------------------------ MODULE MemoryWatcherProofs ------------------------
(***************************************************************************)
(* The current file is never evicted, the least recently used others are   *)
(* and no more than have to go, and collections take turns, for any number *)
(* of readers, files and collections.                                      *)
(*                                                                         *)
(* A scan may have begun when another file was current, and a reader may   *)
(* have missed a file that was: Listed and Reading say that what they hold *)
(* is a file left behind, or the one that is being left.                   *)
(*                                                                         *)
(* The scan is a selection: Chosen says that the list is sorted, and that  *)
(* what was visited and is not in it was used no earlier than all that is. *)
(* Counted relates its length to a cache that may grow before the erasing. *)
(*                                                                         *)
(* RoundRobin needs to know which position comes next, and that those not  *)
(* visited in this round are the ones that follow it, going round.         *)
(***************************************************************************)
EXTENDS MemoryWatcher, FiniteSetTheorems, WellFoundedInduction, TLAPS

\* A file that is not current, or is about to be so no more.
Left(k) == \/ k < current
           \/ k = current /\ writer = "switching"

Typed ==
    /\ lastUsed \in Int
    /\ current \in Nat /\ writer \in {"idle", "switching"}
    /\ \A k \in DOMAIN cache : k \in Nat /\ k <= current /\ cache[k] \in Entry

Item == [key : Nat, used : Int]

Listed ==
    /\ evictor = "scan" => todo \subseteq DOMAIN cache
    /\ list \in Seq(Item)
    /\ \A i \in DOMAIN list : list[i].key \in Nat /\ Left(list[i].key)

PCs == {"idle", "found", "ticked", "missed"}

Reading(x) ==
    /\ x \in [pc : PCs, key : Int, tick : Int]
    /\ x.pc = "missed" => x.key \in Nat /\ Left(x.key)

Readable == DOMAIN reader = Readers /\ \A r \in Readers : Reading(reader[r])

Cached == writer = "idle" => current \in DOMAIN cache /\ ~cache[current].evictable

FilesInv == Typed /\ Listed /\ Readable /\ Cached

-----------------------------------------------------------------------------
\* A set of natural numbers has a least one.
LEMMA LeastNatural ==
  ASSUME NEW T, T \subseteq Nat, T # {}
  PROVE  \E x \in T : \A y \in T : x <= y
<1> DEFINE R == {ss \in Nat \X Nat : ss[1] < ss[2]}
<1>1. IsWellFoundedOn(R, Nat)
  BY NatLessThanWellFounded DEF OpToRel
<1>2. PICK x \in T : \A y \in T : ~(<<y, x>> \in R)
  <2> HIDE DEF R
  <2> QED
    BY <1>1, WFMin
<1>3. \A y \in T : x <= y
  <2> SUFFICES ASSUME NEW y \in T PROVE x <= y
    OBVIOUS
  <2>1. ~(y < x)
    BY <1>2
  <2> QED
    BY <2>1
<1> QED
  BY <1>3

\* A part of a sequence.
LEMMA PartOfSequence ==
  ASSUME NEW S, NEW s \in Seq(S), NEW m \in 1..(Len(s) + 1), NEW n \in 0..Len(s)
  PROVE  /\ SubSeq(s, m, n) \in Seq(S)
         /\ Len(SubSeq(s, m, n)) = IF m <= n THEN n - m + 1 ELSE 0
         /\ \A i \in 1..Len(SubSeq(s, m, n)) : SubSeq(s, m, n)[i] = s[m + i - 1]
OBVIOUS

\* What InsertAt returns.
LEMMA InsertAtKeeps ==
  ASSUME NEW S, NEW s \in Seq(S), NEW p \in 1..Len(s), NEW e \in S
  PROVE  /\ InsertAt(s, p, e) \in Seq(S) /\ Len(InsertAt(s, p, e)) = Len(s) + 1
         /\ \A i \in 1..(p - 1) : InsertAt(s, p, e)[i] = s[i]
         /\ InsertAt(s, p, e)[p] = e
         /\ \A i \in (p + 1)..(Len(s) + 1) : InsertAt(s, p, e)[i] = s[i - 1]
<1> DEFINE a == SubSeq(s, 1, p - 1)
           b == SubSeq(s, p, Len(s))
<1>1. /\ a \in Seq(S) /\ Len(a) = p - 1 /\ \A i \in 1..(p - 1) : a[i] = s[i]
  <2>1. 1 \in 1..(Len(s) + 1) /\ p - 1 \in 0..Len(s)
    OBVIOUS
  <2> QED
    BY <2>1, PartOfSequence
<1>2. /\ b \in Seq(S) /\ Len(b) = Len(s) - p + 1
      /\ \A i \in 1..(Len(s) - p + 1) : b[i] = s[p + i - 1]
  <2>1. p \in 1..(Len(s) + 1) /\ Len(s) \in 0..Len(s)
    OBVIOUS
  <2> QED
    BY <2>1, PartOfSequence
<1>3. InsertAt(s, p, e) = (a \o <<e>>) \o b
  BY DEF InsertAt
<1> HIDE DEF a, b
<1> DEFINE c == a \o <<e>>
<1>4. /\ c \in Seq(S) /\ Len(c) = p /\ c[p] = e
      /\ \A i \in 1..(p - 1) : c[i] = s[i]
  BY <1>1
<1> HIDE DEF c
<1>5. c \o b \in Seq(S) /\ Len(c \o b) = Len(s) + 1
  BY <1>2, <1>4
<1>6. \A i \in 1..p : (c \o b)[i] = c[i]
  BY <1>2, <1>4
<1>7. \A i \in (p + 1)..(Len(s) + 1) : (c \o b)[i] = s[i - 1]
  <2> SUFFICES ASSUME NEW i \in (p + 1)..(Len(s) + 1) PROVE (c \o b)[i] = s[i - 1]
    OBVIOUS
  <2>1. i - p \in 1..(Len(s) - p + 1)
    OBVIOUS
  <2>2. (c \o b)[i] = b[i - p]
    BY <1>2, <1>4
  <2> QED
    BY <1>2, <2>1, <2>2
<1> QED
  BY <1>3, <1>4, <1>5, <1>6, <1>7 DEF c

\* The list gets no entry that cannot be evicted, and keeps what it has else.
LEMMA ListOfEvictable ==
  ASSUME NEW k \in Nat, cache[k].used \in Int, list \in Seq(Item)
  PROVE  /\ Kept(Inserted(k)) \in Seq(Item)
         /\ \A i \in DOMAIN Kept(Inserted(k)) :
               \/ \E j \in DOMAIN list : Kept(Inserted(k))[i].key = list[j].key
               \/ Kept(Inserted(k))[i].key = k /\ cache[k].evictable
<1> DEFINE item == [key |-> k, used |-> cache[k].used]
           ins  == Inserted(k)
           From(x) == \/ \E j \in DOMAIN list : x.key = list[j].key
                      \/ x.key = k /\ cache[k].evictable
           OK(s) == s \in Seq(Item) /\ \A i \in 1..Len(s) : From(s[i])
<1>0. item \in Item /\ (cache[k].evictable => From(item))
  BY DEF Item
<1>1. \A i \in 1..Len(list) : From(list[i])
  OBVIOUS
<1>2. OK(ins)
  <2>1. CASE ~cache[k].evictable
    BY <1>1, <2>1 DEF Inserted
  <2>2. CASE cache[k].evictable /\ {i \in DOMAIN list : item.used < list[i].used} # {}
    <3> DEFINE later == {i \in DOMAIN list : item.used < list[i].used}
               p == CHOOSE i \in later : \A j \in later : i <= j
    <3>1. p \in 1..Len(list)
      <4>1. later \subseteq Nat /\ later # {}
        BY <2>2
      <4>2. PICK i \in later : \A j \in later : i <= j
        BY <4>1, LeastNatural
      <4> QED
        BY <4>2
    <3>2. ins = InsertAt(list, p, item)
      BY <2>2 DEF Inserted
    <3> HIDE DEF p, item, ins, From
    <3>3. /\ ins \in Seq(Item) /\ Len(ins) = Len(list) + 1
          /\ \A i \in 1..(p - 1) : ins[i] = list[i]
          /\ ins[p] = item
          /\ \A i \in (p + 1)..(Len(list) + 1) : ins[i] = list[i - 1]
      BY <1>0, <3>1, <3>2, InsertAtKeeps
    <3>4. ASSUME NEW i \in 1..Len(ins) PROVE From(ins[i])
      <4>1. CASE i < p
        <5>1. i \in 1..(p - 1) /\ i \in 1..Len(list)
          BY <3>1, <4>1
        <5> QED
          BY <1>1, <3>3, <5>1
      <4>2. CASE i = p
        BY <1>0, <2>2, <3>3, <4>2
      <4>3. CASE i > p
        <5>1. i \in (p + 1)..(Len(list) + 1) /\ i - 1 \in 1..Len(list)
          BY <3>1, <3>3, <4>3
        <5> QED
          BY <1>1, <3>3, <5>1
      <4> QED
        BY <3>1, <3>3, <4>1, <4>2, <4>3
    <3> QED
      BY <3>3, <3>4
  <2>3. CASE cache[k].evictable /\ ~({i \in DOMAIN list : item.used < list[i].used} # {})
    <3>1. ins = Append(list, item) \/ ins = list
      BY <2>3 DEF Inserted
    <3> HIDE DEF ins, item, From
    <3>2. CASE ins = list
      BY <1>1, <3>2
    <3>3. CASE ins = Append(list, item)
      BY <1>0, <1>1, <2>3, <3>3
    <3> QED
      BY <3>1, <3>2, <3>3
  <2> QED
    BY <2>1, <2>2, <2>3
<1> HIDE DEF ins, From
<1>3. \/ Kept(ins) = ins
      \/ Len(ins) > 0 /\ Kept(ins) = SubSeq(ins, 1, Len(ins) - 1)
  <2>1. CASE Len(ins) = 0
    <3>1. ins = <<>>
      BY <1>2, <2>1
    <3>2. SubSeq(<<>>, 1, -1) = <<>>
      OBVIOUS
    <3> QED
      BY <2>1, <3>1, <3>2 DEF Kept, Front
  <2>2. CASE Len(ins) # 0
    BY <1>2, <2>2 DEF Kept, Front
  <2> QED
    BY <2>1, <2>2
<1>4. OK(Kept(ins))
  <2>1. CASE Kept(ins) = ins
    BY <1>2, <2>1
  <2>2. CASE Len(ins) > 0 /\ Kept(ins) = SubSeq(ins, 1, Len(ins) - 1)
    <3>1. 1 \in 1..(Len(ins) + 1) /\ Len(ins) - 1 \in 0..Len(ins)
      BY <1>2, <2>2
    <3>2. /\ Kept(ins) \in Seq(Item)
          /\ Len(Kept(ins)) = IF 1 <= Len(ins) - 1 THEN Len(ins) - 1 - 1 + 1 ELSE 0
          /\ \A i \in 1..Len(Kept(ins)) : Kept(ins)[i] = ins[1 + i - 1]
      BY <1>2, <2>2, <3>1, PartOfSequence
    <3> QED
      BY <1>2, <2>2, <3>2
  <2> QED
    BY <1>3, <2>1, <2>2
<1> QED
  BY <1>4 DEF ins, From
-----------------------------------------------------------------------------
\* At the start.
LEMMA InitInv == Init => FilesInv
<1> SUFFICES ASSUME Init PROVE FilesInv
  OBVIOUS
<1>1. Typed /\ Cached
  BY ReaderFilesAssumption DEF Init, FilesInit, Typed, Cached, Entry
<1>2. Listed
  BY DEF Init, FilesInit, Listed
<1>3. Readable
  BY DEF Init, FilesInit, Readable, Reading, NotReading, PCs
<1> QED
  BY <1>1, <1>2, <1>3 DEF FilesInv

\* One reader moves, in the same file system.
LEMMA OneReaderMoves ==
  ASSUME Readable, UNCHANGED <<current, writer>>, NEW r \in Readers,
         DOMAIN reader' = Readers, Reading(reader[r])',
         \A q \in Readers \ {r} : reader'[q] = reader[q]
  PROVE  Readable'
<1>1. \A q \in Readers \ {r} : Reading(reader[q])'
  BY DEF Readable, Reading, Left
<1> QED
  BY <1>1 DEF Readable

\* What a reader does.
LEMMA ReadKeepsInv == FilesInv /\ Read => FilesInv'
<1> SUFFICES ASSUME FilesInv, NEW r \in Readers,
                    \/ \E k \in Keys : Find(r, k)
                    \/ ReadTick(r) \/ Use(r) \/ MapFails(r) \/ AddMapped(r)
             PROVE  FilesInv'
  BY DEF Read
<1> USE DEF FilesInv
<1>0. UNCHANGED <<current, writer, evictor, todo, list>>
  BY DEF Find, ReadTick, Use, MapFails, AddMapped
<1>1. /\ DOMAIN reader' = Readers
      /\ \A q \in Readers \ {r} : reader'[q] = reader[q]
  BY DEF Readable, Find, ReadTick, Use, MapFails, AddMapped
<1>2. Reading(reader[r])'
  <2>0. reader[r] \in [pc : PCs, key : Int, tick : Int]
    BY DEF Readable, Reading
  <2>1. ASSUME NEW k \in Keys, Find(r, k) PROVE Reading(reader[r])'
    <3>1. k \in Nat /\ k <= current
      BY <2>1, ReaderFilesAssumption DEF Find, Keys
    <3>2. CASE k \in DOMAIN cache
      <4>1. /\ reader'[r] \in [pc : PCs, key : Int, tick : Int]
            /\ reader'[r].key = k /\ reader'[r].pc = "found"
        BY <2>0, <2>1, <3>1, <3>2 DEF Find, Readable, PCs
      <4> QED
        BY <2>0, <3>1, <4>1 DEF Reading, PCs
    <3>3. CASE k \notin DOMAIN cache
      <4>1. Left(k)
        BY <3>1, <3>3 DEF Cached, Typed, Left
      <4>2. /\ reader'[r] \in [pc : PCs, key : Int, tick : Int]
            /\ reader'[r].key = k /\ reader'[r].pc = "missed"
        BY <2>0, <2>1, <3>1, <3>3 DEF Find, Readable, PCs
      <4> QED
        BY <1>0, <2>0, <3>1, <4>1, <4>2 DEF Reading, Left, PCs
    <3> QED
      BY <3>2, <3>3
  <2>2. CASE ReadTick(r)
    <3>1. reader'[r] = [reader[r] EXCEPT !.pc = "ticked", !.tick = lastUsed]
      BY <2>2 DEF ReadTick, Readable
    <3> QED
      BY <2>0, <3>1 DEF Reading, Typed, PCs
  <2>3. CASE Use(r) \/ MapFails(r) \/ AddMapped(r)
    <3>1. reader' = [reader EXCEPT ![r] = NotReading]
      BY <2>3 DEF Use, MapFails, AddMapped
    <3>2. reader'[r] = NotReading
      BY <3>1 DEF Readable
    <3> QED
      BY <3>2 DEF Reading, NotReading, PCs
  <2> QED
    BY <2>1, <2>2, <2>3
<1>3. Readable'
  BY <1>0, <1>1, <1>2, OneReaderMoves
<1>4. Typed' /\ Listed' /\ Cached'
  <2>1. CASE UNCHANGED cache
    <3>1. lastUsed' \in Int
      BY DEF Typed, Find, ReadTick, Use, MapFails, AddMapped, Add
    <3> QED
      BY <1>0, <2>1, <3>1 DEF Typed, Listed, Cached, Left
  <2>2. CASE Use(r)
    <3>1. reader[r].tick \in Int
      BY <2>2 DEF Use, Readable, Reading
    <3>2. /\ DOMAIN cache' = DOMAIN cache
          /\ \A k \in DOMAIN cache :
                cache'[k] \in Entry /\ cache'[k].evictable = cache[k].evictable
      BY <2>2, <3>1 DEF Use, Entry, Typed
    <3>3. lastUsed' \in Int
      BY <2>2 DEF Use, Typed
    <3> QED
      BY <1>0, <3>2, <3>3 DEF Typed, Listed, Cached, Left
  <2>3. CASE AddMapped(r)
    <3>1. reader[r].key \in Nat /\ Left(reader[r].key)
      BY <2>3 DEF AddMapped, Readable, Reading
    <3>2. evictor # "scan" /\ lastUsed' \in Int
      BY <2>3 DEF AddMapped, Add, Exclusive, Typed
    <3>3. /\ DOMAIN cache' = DOMAIN cache \cup {reader[r].key}
          /\ cache'[reader[r].key] \in Entry
          /\ \A k \in DOMAIN cache \ {reader[r].key} : cache'[k] = cache[k]
      BY <2>3 DEF AddMapped, Add, With, Entry, Typed
    <3> QED
      BY <1>0, <3>1, <3>2, <3>3 DEF Typed, Listed, Cached, Left
  <2> QED
    BY <2>1, <2>2, <2>3 DEF Find, ReadTick, MapFails
<1> QED
  BY <1>3, <1>4

\* What the writer does.
LEMMA WriteKeepsInv == FilesInv /\ Write => FilesInv'
<1> SUFFICES ASSUME FilesInv, Write PROVE FilesInv'
  OBVIOUS
<1> USE DEF FilesInv
<1>1. CASE SetEvictable
  <2>1. /\ DOMAIN cache' = DOMAIN cache
        /\ \A k \in DOMAIN cache : cache'[k] \in Entry
    BY <1>1 DEF SetEvictable, Entry, Typed
  <2> QED
    BY <1>1, <2>1 DEF SetEvictable, Typed, Listed, Cached, Readable, Reading, Left
<1>2. CASE AddNewFile
  <2>1. evictor # "scan" /\ lastUsed' \in Int
    BY <1>2 DEF AddNewFile, Add, Exclusive, Typed
  <2>2. /\ DOMAIN cache' = DOMAIN cache \cup {current + 1}
        /\ cache'[current + 1] \in Entry /\ ~cache'[current + 1].evictable
        /\ \A k \in DOMAIN cache \ {current + 1} : cache'[k] = cache[k]
    BY <1>2 DEF AddNewFile, Add, With, Entry, Typed
  <2>3. current' = current + 1 /\ UNCHANGED <<reader, evictor, list>> /\ writer' = "idle"
    BY <1>2 DEF AddNewFile
  <2>4. Typed' /\ Cached'
    BY <2>1, <2>2, <2>3 DEF Typed, Cached
  <2>5. \A k \in Nat : Left(k) => Left(k)'
    BY <2>3 DEF Left, Typed
  <2>6. Listed'
    BY <2>1, <2>3, <2>5 DEF Listed
  <2>7. Readable'
    BY <2>3, <2>5 DEF Readable, Reading
  <2> QED
    BY <2>4, <2>6, <2>7
<1> QED
  BY <1>1, <1>2 DEF Write

\* An eviction begins with no victim.
LEMMA StartEvictionKeepsInv == FilesInv /\ StartEviction => FilesInv'
BY DEF StartEviction, FilesInv, Typed, Listed, Cached, Readable, Reading, Left

\* Nor does its end change what is cached.
LEMMA EndEvictionKeepsInv == FilesInv /\ EndEviction => FilesInv'
BY DEF EndEviction, FilesInv, Typed, Listed, Cached, Readable, Reading, Left

\* It lists and erases files that were left.
LEMMA EvictKeepsInv == FilesInv /\ Evict => FilesInv'
<1> SUFFICES ASSUME FilesInv, Evict PROVE FilesInv'
  OBVIOUS
<1> USE DEF FilesInv, Typed, Listed, Cached, Readable, Reading
<1>1. ASSUME NEW k \in Keys, Visit(k) PROVE FilesInv'
  <2>1. k \in DOMAIN cache /\ k \in Nat /\ k <= current /\ cache[k].used \in Int
    BY <1>1 DEF Visit, Entry
  <2>2. cache[k].evictable => Left(k)
    BY <2>1 DEF Left
  <2>3. list' \in Seq(Item)
    BY <1>1, <2>1, ListOfEvictable DEF Visit
  <2>4. \A i \in DOMAIN list' : list'[i].key \in Nat /\ Left(list'[i].key)
    BY <1>1, <2>1, <2>2, ListOfEvictable DEF Visit
  <2> QED
    BY <1>1, <2>3, <2>4 DEF Visit, Left
<1>2. CASE EndScan
  BY <1>2 DEF EndScan, Left
<1>3. CASE Erase
  <2>1. writer = "idle" => current \notin Victims
    BY DEF Victims, Left
  <2>2. /\ DOMAIN cache' = DOMAIN cache \ Victims
        /\ \A k \in DOMAIN cache' : cache'[k] = cache[k]
    BY <1>3 DEF Erase
  <2>3. list' \in Seq(Item) /\ DOMAIN list' = {}
    BY <1>3 DEF Erase
  <2> QED
    BY <1>3, <2>1, <2>2, <2>3 DEF Erase, Left
<1> QED
  BY <1>1, <1>2, <1>3 DEF Evict

\* The watcher's other steps leave the files alone.
LEMMA StutterKeepsInv == FilesInv /\ UNCHANGED files => FilesInv'
BY DEF files, FilesInv, Typed, Listed, Cached, Readable, Reading, Left

\* Every step keeps what is said of the files.
LEMMA NextKeepsInv == FilesInv /\ [Next]_vars => FilesInv'
<1> SUFFICES ASSUME FilesInv, [Next]_vars PROVE FilesInv'
  OBVIOUS
<1>1. \/ Read \/ Write \/ StartEviction \/ Evict \/ EndEviction \/ UNCHANGED files
  BY DEF Next, Watch, Call, Lock, Wake, CheckMemory, Skip, UnmapLRUDataFiles, Evicted,
         EndPass, StatFails, Destroy, SetShutdown, Join, Terminated, vars
<1> QED
  BY <1>1, ReadKeepsInv, WriteKeepsInv, StartEvictionKeepsInv, EvictKeepsInv,
     EndEvictionKeepsInv, StutterKeepsInv

\* The file being written is always in the cache, with the writer's own mapping, and
\* never among the victims: SetEvictable's assertion at blob_manager.cc:387 holds, for
\* any number of readers, however finds, adds, switches and evictions overlap.
THEOREM CurrentFileStaysCached == Spec => []CurrentFileIsCached
<1>1. FilesInv => CurrentFileIsCached
  BY DEF FilesInv, Typed, Listed, Cached, Left, Victims, CurrentFileIsCached
<1> QED
  BY <1>1, InitInv, NextKeepsInv, PTL DEF Spec

-----------------------------------------------------------------------------
(* What is evicted *)

\* The victims are counted while the scan holds the mutex, and until they are erased the
\* cache can only grow.
Counted ==
    /\ evictor \notin {"scan", "erase"} => list = <<>>
    /\ evictor # "scan" => DOMAIN seen = {}
    /\ \A i, j \in DOMAIN list : list[i].key = list[j].key => i = j
    /\ evictor \in {"scan", "erase"} => Len(list) <= ItemsToEvictCount

\* What the scan has visited is listed, or was used no earlier than all that is listed.
Chosen ==
    /\ ItemsToEvictCount > 0
    /\ DOMAIN seen \cap todo = {}
    /\ \A k \in DOMAIN seen : seen[k] \in Int
    /\ \A i \in DOMAIN list : list[i].key \in DOMAIN seen /\ list[i].used = seen[list[i].key]
    /\ \A i, j \in DOMAIN list : i < j => list[i].used <= list[j].used
    /\ \A i \in DOMAIN list, k \in DOMAIN seen \ Victims : list[i].used <= seen[k]
    /\ Len(list) < ItemsToEvictCount => DOMAIN seen \subseteq Victims

Choosing == evictor = "scan" => Chosen

VictimsInv == FilesInv /\ Counted /\ Choosing

\* The cache is finite.
LEMMA CacheIsFinite ==
  FilesInv => /\ IsFiniteSet(DOMAIN cache)
              /\ Cardinality(DOMAIN cache) \in Nat /\ ItemsToEvictCount \in Int
<1> SUFFICES ASSUME FilesInv
             PROVE  /\ IsFiniteSet(DOMAIN cache)
                    /\ Cardinality(DOMAIN cache) \in Nat /\ ItemsToEvictCount \in Int
  OBVIOUS
<1>1. DOMAIN cache \in SUBSET Nat /\ current \in Nat /\ \A k \in DOMAIN cache : k <= current
  BY DEF FilesInv, Typed
<1>2. IsFiniteSet(DOMAIN cache)
  BY <1>1, FS_BoundedSetOfNaturals
<1>3. Cardinality(DOMAIN cache) \in Nat
  BY <1>2, FS_CardinalityType
<1> QED
  BY <1>2, <1>3, ReaderFilesAssumption DEF ItemsToEvictCount

LEMMA NextCacheIsFinite ==
  (FilesInv => /\ IsFiniteSet(DOMAIN cache)
               /\ Cardinality(DOMAIN cache) \in Nat /\ ItemsToEvictCount \in Int)'
BY CacheIsFinite, PTL

\* The items of a list have been used at some time.
LEMMA UsedIsInt ==
  ASSUME NEW s \in Seq(Item)
  PROVE  \A i \in 1..Len(s) : s[i].used \in Int
<1> SUFFICES ASSUME NEW i \in 1..Len(s) PROVE s[i].used \in Int
  OBVIOUS
<1>1. s[i] \in Item
  OBVIOUS
<1> QED
  BY <1>1 DEF Item

\* In a sorted list, an entry has a place before all that were used later.
LEMMA PlaceOf ==
  ASSUME NEW s \in Seq(Item), NEW u \in Int,
         \A i, j \in DOMAIN s : i < j => s[i].used <= s[j].used,
         NEW p, p \in {i \in DOMAIN s : u < s[i].used},
         \A i \in {i \in DOMAIN s : u < s[i].used} : p <= i
  PROVE  /\ p \in 1..Len(s)
         /\ \A i \in 1..Len(s) : i < p => s[i].used <= u
         /\ \A i \in 1..Len(s) : p <= i => u < s[i].used
<1>0. p \in 1..Len(s) /\ u < s[p].used
  OBVIOUS
<1>1. \A i \in 1..Len(s) : s[i].used \in Int
  BY UsedIsInt
<1>2. ASSUME NEW i \in 1..Len(s), i < p PROVE s[i].used <= u
  BY <1>0, <1>1, <1>2
<1>3. ASSUME NEW i \in 1..Len(s), p <= i PROVE u < s[i].used
  <2>1. s[p].used <= s[i].used
    BY <1>0, <1>1, <1>3
  <2> QED
    BY <1>0, <1>1, <2>1
<1> QED
  BY <1>0, <1>2, <1>3

\* The insertion sort: an entry comes to its place, and the list has no more than has to
\* go.
LEMMA ListAfterVisit ==
  ASSUME NEW k \in Nat, cache[k].used \in Int, cache[k].evictable,
         list \in Seq(Item),
         \A i, j \in DOMAIN list : i < j => list[i].used <= list[j].used,
         ItemsToEvictCount \in Int, Len(list) <= ItemsToEvictCount
  PROVE  \E p \in 1..(Len(list) + 1) :
            /\ \A i \in 1..Len(list) : i < p => list[i].used <= cache[k].used
            /\ \A i \in 1..Len(list) : p <= i => cache[k].used < list[i].used
            /\ Kept(Inserted(k)) \in Seq(Item)
            /\ Len(Kept(Inserted(k))) =
                  IF Len(list) < ItemsToEvictCount THEN Len(list) + 1 ELSE Len(list)
            /\ \A i \in 1..Len(Kept(Inserted(k))) :
                  /\ i < p => Kept(Inserted(k))[i] = list[i]
                  /\ i = p => Kept(Inserted(k))[i] = [key |-> k, used |-> cache[k].used]
                  /\ i > p => Kept(Inserted(k))[i] = list[i - 1]
<1> DEFINE item  == [key |-> k, used |-> cache[k].used]
           later == {i \in DOMAIN list : item.used < list[i].used}
           ins   == Inserted(k)
<1>0. item \in Item /\ item.used = cache[k].used
  BY DEF Item
<1>a. \A i \in 1..Len(list) : list[i].used \in Int
  BY UsedIsInt
<1>1. CASE later # {}
  <2> DEFINE p == CHOOSE i \in later : \A j \in later : i <= j
  <2>1. p \in later /\ \A j \in later : p <= j
    <3>1. later \subseteq Nat
      OBVIOUS
    <3>2. PICK i \in later : \A j \in later : i <= j
      BY <1>1, <3>1, LeastNatural
    <3> QED
      BY <3>2
  <2>2. ins = InsertAt(list, p, item)
    BY <1>1 DEF Inserted
  <2>p. later = {i \in DOMAIN list : cache[k].used < list[i].used}
    BY <1>0
  <2> HIDE DEF p, item
  <2>3. /\ p \in 1..Len(list)
        /\ \A i \in 1..Len(list) : i < p => list[i].used <= cache[k].used
        /\ \A i \in 1..Len(list) : p <= i => cache[k].used < list[i].used
    BY <2>1, <2>p, PlaceOf
  <2> HIDE DEF later
  <2>4. /\ ins \in Seq(Item) /\ Len(ins) = Len(list) + 1
        /\ \A i \in 1..(p - 1) : ins[i] = list[i]
        /\ ins[p] = item
        /\ \A i \in (p + 1)..(Len(list) + 1) : ins[i] = list[i - 1]
    BY <1>0, <2>2, <2>3, InsertAtKeeps
  <2>5. /\ Kept(ins) \in Seq(Item)
        /\ Len(Kept(ins)) = IF Len(list) < ItemsToEvictCount THEN Len(list) + 1 ELSE Len(list)
        /\ \A i \in 1..Len(Kept(ins)) : Kept(ins)[i] = ins[i]
    <3> HIDE DEF ins
    <3>1. CASE Len(list) < ItemsToEvictCount
      <4>1. Kept(ins) = ins
        BY <2>4, <3>1 DEF Kept
      <4> QED
        BY <2>4, <3>1, <4>1
    <3>2. CASE ~(Len(list) < ItemsToEvictCount)
      <4>1. Kept(ins) = SubSeq(ins, 1, Len(ins) - 1)
        BY <2>4, <3>2 DEF Kept, Front
      <4>2. 1 \in 1..(Len(ins) + 1) /\ Len(ins) - 1 \in 0..Len(ins)
        BY <2>4
      <4>3. /\ Kept(ins) \in Seq(Item)
            /\ Len(Kept(ins)) = IF 1 <= Len(ins) - 1 THEN Len(ins) - 1 - 1 + 1 ELSE 0
            /\ \A i \in 1..Len(Kept(ins)) : Kept(ins)[i] = ins[1 + i - 1]
        BY <2>4, <4>1, <4>2, PartOfSequence
      <4>4. Len(list) \in Nat /\ Len(list) >= 1
        BY <2>3
      <4> QED
        BY <2>4, <3>2, <4>3, <4>4
    <3> QED
      BY <3>1, <3>2
  <2> HIDE DEF ins
  <2>6. ASSUME NEW i \in 1..Len(Kept(ins))
        PROVE  /\ i < p => Kept(ins)[i] = list[i]
               /\ i = p => Kept(ins)[i] = item
               /\ i > p => Kept(ins)[i] = list[i - 1]
    <3>1. i \in 1..(Len(list) + 1)
      BY <2>5
    <3>2. CASE i < p
      BY <2>3, <2>4, <2>5, <3>1, <3>2
    <3>3. CASE i = p
      BY <2>3, <2>4, <2>5, <3>3
    <3>4. CASE i > p
      BY <2>3, <2>4, <2>5, <3>1, <3>4
    <3> QED
      BY <2>3, <3>1, <3>2, <3>3, <3>4
  <2>7. p \in 1..(Len(list) + 1)
    BY <2>3
  <2> QED
    BY <2>3, <2>5, <2>6, <2>7 DEF ins, item
<1>2. CASE later = {}
  <2>1. \A i \in 1..Len(list) : list[i].used <= cache[k].used
    <3> SUFFICES ASSUME NEW i \in 1..Len(list) PROVE list[i].used <= cache[k].used
      OBVIOUS
    <3>1. ~(item.used < list[i].used)
      BY <1>2
    <3> QED
      BY <1>0, <1>a, <3>1
  <2>2. ins = IF Len(list) < ItemsToEvictCount THEN Append(list, item) ELSE list
    BY <1>2 DEF Inserted
  <2> HIDE DEF item, ins, later
  <2>3. /\ ins \in Seq(Item)
        /\ Len(ins) = IF Len(list) < ItemsToEvictCount THEN Len(list) + 1 ELSE Len(list)
        /\ \A i \in 1..Len(ins) : /\ i < Len(list) + 1 => ins[i] = list[i]
                                  /\ i = Len(list) + 1 => ins[i] = item
    BY <1>0, <2>2
  <2>4. Kept(ins) = ins
    BY <2>3 DEF Kept
  <2>5. Len(list) + 1 \in 1..(Len(list) + 1)
    OBVIOUS
  <2>6. \A i \in 1..Len(list) : i < Len(list) + 1 /\ ~(Len(list) + 1 <= i)
    OBVIOUS
  <2>7. \A i \in 1..Len(ins) : ~(i > Len(list) + 1)
    BY <2>3
  <2> QED
    BY <2>1, <2>3, <2>4, <2>5, <2>6, <2>7 DEF ins, item
<1> QED
  BY <1>1, <1>2

\* The scan keeps its choice when it comes by an entry.
LEMMA VisitKeepsChoice ==
  ASSUME VictimsInv, NEW k \in Keys, Visit(k)
  PROVE  Counted' /\ Choosing'
<1> DEFINE N == ItemsToEvictCount
           n == Len(list)
           u == cache[k].used
<1>0. Chosen /\ Listed /\ Counted /\ Typed /\ evictor = "scan"
  BY DEF Visit, VictimsInv, Choosing, FilesInv
<1>1. /\ k \in Nat /\ k \in DOMAIN cache /\ k \in todo /\ u \in Int /\ list \in Seq(Item)
      /\ todo' = todo \ {k} /\ list' = Kept(Inserted(k))
      /\ evictor' = "scan" /\ cache' = cache
  BY <1>0 DEF Visit, Listed, Typed, Entry
<1>2. N \in Int /\ N' = N /\ N > 0 /\ n <= N /\ n \in Nat
  BY <1>0, <1>1, CacheIsFinite DEF VictimsInv, Chosen, Counted, ItemsToEvictCount
<1>3. k \notin DOMAIN seen
  BY <1>0, <1>1 DEF Chosen
<1>4. CASE ~cache[k].evictable
  <2>1. seen' = seen
    BY <1>4 DEF Visit
  <2>2. list' = list
    BY <1>1, <1>2, <1>4 DEF Inserted, Kept
  <2>3. Counted'
    BY <1>0, <1>1, <1>2, <2>1, <2>2 DEF Counted
  <2>4. Chosen'
    BY <1>0, <1>1, <1>2, <2>1, <2>2 DEF Chosen, Victims
  <2> QED
    BY <2>3, <2>4 DEF Choosing
<1>5. CASE cache[k].evictable
  <2>1. /\ DOMAIN seen' = DOMAIN seen \cup {k} /\ seen'[k] = u
        /\ \A x \in DOMAIN seen : seen'[x] = seen[x]
    BY <1>3, <1>5 DEF Visit, With
  <2>2. \A i, j \in DOMAIN list : i < j => list[i].used <= list[j].used
    BY <1>0 DEF Chosen
  <2>3. PICK p \in 1..(n + 1) :
          /\ \A i \in 1..n : i < p => list[i].used <= u
          /\ \A i \in 1..n : p <= i => u < list[i].used
          /\ list' \in Seq(Item)
          /\ Len(list') = IF n < N THEN n + 1 ELSE n
          /\ \A i \in 1..Len(list') :
                /\ i < p => list'[i] = list[i]
                /\ i = p => list'[i] = [key |-> k, used |-> u]
                /\ i > p => list'[i] = list[i - 1]
    BY <1>1, <1>2, <1>5, <2>2, ListAfterVisit
  <2>4. /\ \A i \in 1..n : list[i].key \in DOMAIN seen /\ list[i].used = seen[list[i].key]
        /\ \A i \in 1..n : list[i].used \in Int /\ list[i].key # k
        /\ \A i, j \in 1..n : list[i].key = list[j].key => i = j
        /\ \A i, j \in 1..n : i <= j => list[i].used <= list[j].used
    <3>1. \A i \in 1..n : list[i].used \in Int
      BY <1>1, UsedIsInt
    <3>2. \A i \in 1..n : list[i].key \in DOMAIN seen /\ list[i].used = seen[list[i].key]
      BY <1>0 DEF Chosen
    <3>3. \A i, j \in 1..n : list[i].key = list[j].key => i = j
      BY <1>0 DEF Counted
    <3>4. \A i, j \in 1..n : i <= j => list[i].used <= list[j].used
      BY <1>1, <2>2, <3>1
    <3> QED
      BY <1>3, <3>1, <3>2, <3>3, <3>4
  \* Where each entry is from, and where it is now.
  <2> DEFINE m == Len(list')
  <2>5. \A i \in 1..m :
          \/ i < p /\ i \in 1..n /\ list'[i] = list[i]
          \/ i = p /\ list'[i].key = k /\ list'[i].used = u
          \/ i > p /\ i - 1 \in 1..n /\ list'[i] = list[i - 1]
    <3> SUFFICES ASSUME NEW i \in 1..m
                 PROVE  \/ i < p /\ i \in 1..n /\ list'[i] = list[i]
                        \/ i = p /\ list'[i].key = k /\ list'[i].used = u
                        \/ i > p /\ i - 1 \in 1..n /\ list'[i] = list[i - 1]
      OBVIOUS
    <3>1. i \in 1..(n + 1) /\ p \in 1..(n + 1)
      BY <1>2, <2>3
    <3> QED
      BY <1>2, <2>3, <3>1
  <2>6. m \in Nat /\ m = IF n < N THEN n + 1 ELSE n
    BY <1>2, <2>3
  <2>7. /\ p <= m => list'[p].key = k
        /\ \A j \in 1..n : j < p => j \in 1..m /\ list'[j] = list[j]
        /\ \A j \in 1..n : p <= j /\ j < m => j + 1 \in 1..m /\ list'[j + 1] = list[j]
    <3>1. p <= m => list'[p].key = k
      BY <1>2, <2>3, <2>6
    <3>2. ASSUME NEW j \in 1..n, j < p PROVE j \in 1..m /\ list'[j] = list[j]
      BY <1>2, <2>3, <2>6, <3>2
    <3>3. ASSUME NEW j \in 1..n, p <= j, j < m
          PROVE  j + 1 \in 1..m /\ list'[j + 1] = list[j]
      <4>1. j + 1 \in 1..m /\ j + 1 > p /\ (j + 1) - 1 = j
        BY <1>2, <2>3, <2>6, <3>3
      <4>2. list'[j + 1] = list[(j + 1) - 1]
        BY <2>3, <4>1
      <4> QED
        BY <4>1, <4>2
    <3> QED
      BY <3>1, <3>2, <3>3
  <2>8. DOMAIN list' = 1..m /\ DOMAIN list = 1..n
    BY <1>1, <2>3
  <2> HIDE DEF m, n, u, N
  <2>9. \A i \in 1..m : list'[i].key \in DOMAIN seen' /\ list'[i].used = seen'[list'[i].key]
    BY <2>1, <2>4, <2>5
  <2>10. \A i, j \in 1..m : list'[i].key = list'[j].key => i = j
    <3> SUFFICES ASSUME NEW i \in 1..m, NEW j \in 1..m, list'[i].key = list'[j].key
                 PROVE  i = j
      OBVIOUS
    <3>1. i \in Int /\ j \in Int /\ p \in Int /\ n \in Nat
      BY <1>2, <2>3, <2>6
    <3>2. ASSUME NEW x \in 1..m, x # p
          PROVE  \E o \in 1..n : /\ o = IF x < p THEN x ELSE x - 1
                                 /\ list'[x] = list[o]
      BY <2>5, <2>6, <3>1, <3>2
    <3>3. ASSUME NEW x \in 1..m, x # p PROVE list'[x].key # k
      BY <2>4, <3>2, <3>3
    <3>4. list'[i].key = k <=> i = p
      BY <2>5, <2>6, <3>1, <3>3
    <3>5. list'[j].key = k <=> j = p
      BY <2>5, <2>6, <3>1, <3>3
    <3>6. CASE i # p /\ j # p
      <4>1. PICK a \in 1..n : a = (IF i < p THEN i ELSE i - 1) /\ list'[i] = list[a]
        BY <3>2, <3>6
      <4>2. PICK b \in 1..n : b = (IF j < p THEN j ELSE j - 1) /\ list'[j] = list[b]
        BY <3>2, <3>6
      <4>3. a = b
        BY <2>4, <4>1, <4>2
      <4> QED
        BY <3>1, <3>6, <4>1, <4>2, <4>3
    <3> QED
      BY <3>4, <3>5, <3>6
  <2>11. \A i, j \in 1..m : i < j => list'[i].used <= list'[j].used
    <3> SUFFICES ASSUME NEW i \in 1..m, NEW j \in 1..m, i < j
                 PROVE  list'[i].used <= list'[j].used
      OBVIOUS
    <3>1. i \in Int /\ j \in Int /\ p \in Int
      BY <1>2, <2>3, <2>6
    <3>2. CASE j < p
      BY <2>4, <2>5, <3>1, <3>2
    <3>3. CASE j = p
      BY <2>3, <2>4, <2>5, <3>1, <3>3
    <3>4. CASE j > p /\ i < p
      <4>1. i \in 1..n /\ list'[i] = list[i] /\ j - 1 \in 1..n /\ list'[j] = list[j - 1]
        BY <2>5, <3>1, <3>4
      <4>2. i <= j - 1
        BY <3>1, <3>4
      <4> QED
        BY <2>4, <4>1, <4>2
    <3>5. CASE j > p /\ i = p
      <4>1. list'[i].used = u /\ j - 1 \in 1..n /\ list'[j] = list[j - 1]
        BY <2>5, <3>1, <3>5
      <4>2. p <= j - 1
        BY <3>1, <3>5
      <4>3. u < list[j - 1].used
        BY <2>3, <4>1, <4>2 DEF n, u
      <4> QED
        BY <1>1, <2>4, <4>1, <4>3 DEF u
    <3>6. CASE j > p /\ i > p
      <4>1. i - 1 \in 1..n /\ list'[i] = list[i - 1] /\ j - 1 \in 1..n /\ list'[j] = list[j - 1]
        BY <2>5, <3>1, <3>6
      <4>2. i - 1 <= j - 1
        BY <3>1, <3>6
      <4> QED
        BY <2>4, <4>1, <4>2
    <3> QED
      BY <3>1, <3>2, <3>3, <3>4, <3>5, <3>6
  <2>12. Victims = {list[i].key : i \in 1..n} /\ Victims' = {list'[i].key : i \in 1..m}
    BY <2>8 DEF Victims
  <2>13. \A i \in 1..m, x \in DOMAIN seen' \ Victims' : list'[i].used <= seen'[x]
    <3> SUFFICES ASSUME NEW i \in 1..m, NEW x \in DOMAIN seen', x \notin Victims'
                 PROVE  list'[i].used <= seen'[x]
      OBVIOUS
    <3>1. i \in Int /\ i <= m /\ p \in Int /\ p >= 1 /\ n \in Int
      BY <1>2, <2>3, <2>6
    <3>2. CASE x = k
      <4>1. ~(p <= m)
        <5>1. p <= m => p \in 1..m
          BY <2>6, <3>1
        <5> QED
          BY <2>7, <2>12, <3>2, <5>1
      <4>2. i < p /\ i \in 1..n /\ list'[i] = list[i]
        BY <2>5, <2>6, <3>1, <4>1
      <4>3. list[i].used <= u
        BY <2>3, <4>2 DEF n, u
      <4> QED
        BY <2>1, <3>2, <4>2, <4>3
    <3>3. CASE x # k /\ x \notin Victims
      <4>1. x \in DOMAIN seen /\ seen'[x] = seen[x] /\ seen[x] \in Int
        BY <1>0, <2>1, <3>3 DEF Chosen
      <4>2. ~(n < N)
        BY <1>0, <3>3, <4>1 DEF Chosen, n, N
      <4>3. \A j \in 1..n : list[j].used <= seen[x]
        BY <1>0, <2>8, <3>3, <4>1 DEF Chosen
      <4>4. CASE i = p
        <5>1. i \in 1..n /\ u < list[i].used
          BY <2>3, <2>6, <3>1, <4>2, <4>4 DEF n, u
        <5> QED
          BY <1>1, <2>4, <2>5, <3>1, <4>1, <4>3, <4>4, <5>1 DEF u
      <4> QED
        BY <2>5, <3>1, <4>1, <4>3, <4>4
    <3>4. CASE x \in Victims
      <4>1. PICK j \in 1..n : list[j].key = x
        BY <2>12, <3>4
      <4>2. j \in Int /\ j <= n /\ p <= j /\ ~(j < m)
        BY <2>7, <2>12, <3>1, <4>1
      <4>3. j = n /\ m = n
        BY <2>6, <3>1, <4>2
      <4>4. \A q \in 1..n : list[q].used <= list[j].used
        BY <2>4, <4>1, <4>3
      <4>5. seen'[x] = list[j].used /\ list[j].used \in Int
        BY <2>1, <2>4, <4>1
      <4>6. u < list[j].used
        BY <2>3, <4>1, <4>2 DEF n, u
      <4> QED
        BY <1>1, <2>4, <2>5, <4>4, <4>5, <4>6 DEF u
    <3> QED
      BY <3>2, <3>3, <3>4
  <2>14. m < N => DOMAIN seen' \subseteq Victims'
    <3> SUFFICES ASSUME m < N, NEW x \in DOMAIN seen' PROVE x \in Victims'
      OBVIOUS
    <3>1. n < N /\ m = n + 1 /\ n \in Nat
      BY <1>2, <2>6 DEF n, N
    <3>2. CASE x = k
      <4>1. p \in 1..m
        BY <2>3, <3>1 DEF n
      <4> QED
        BY <2>7, <2>12, <3>2, <4>1
    <3>3. CASE x # k
      <4>1. x \in Victims
        BY <1>0, <2>1, <3>1, <3>3 DEF Chosen, n, N
      <4>2. PICK j \in 1..n : list[j].key = x
        BY <2>12, <4>1
      <4>3. j \in Int /\ j < m /\ p \in Int
        BY <2>3, <3>1, <4>2
      <4>4. CASE j < p
        BY <2>7, <2>12, <4>2, <4>4
      <4>5. CASE p <= j
        BY <2>7, <2>12, <4>2, <4>3, <4>5
      <4> QED
        BY <4>3, <4>4, <4>5
    <3> QED
      BY <3>2, <3>3
  <2>15. Counted'
    <3>1. m <= N
      BY <1>2, <2>6 DEF n, N
    <3> QED
      BY <1>1, <1>2, <2>8, <2>10, <3>1 DEF Counted, m, N
  <2>16. \A x \in DOMAIN seen' : seen'[x] \in Int
    BY <1>0, <1>1, <2>1 DEF Chosen, u
  <2>17. DOMAIN seen' \cap todo' = {}
    BY <1>0, <1>1, <2>1 DEF Chosen
  <2>18. Chosen'
    BY <1>2, <2>8, <2>9, <2>11, <2>13, <2>14, <2>16, <2>17 DEF Chosen, m, N
  <2> QED
    BY <2>15, <2>18 DEF Choosing
<1> QED
  BY <1>4, <1>5

\* Readers and the writer leave the eviction alone; the cache only grows, and not during a
\* scan.
LEMMA CallsGrowTheCache ==
  ASSUME Read \/ Write
  PROVE  /\ UNCHANGED <<evictor, todo, list, seen>>
         /\ DOMAIN cache \subseteq DOMAIN cache'
         /\ evictor = "scan" => DOMAIN cache' = DOMAIN cache
<1>1. ASSUME NEW r \in Readers, NEW k \in Keys, Find(r, k) PROVE UNCHANGED <<cache, evictor, todo, list, seen>>
  BY <1>1 DEF Find
<1>2. ASSUME NEW r \in Readers, ReadTick(r) \/ MapFails(r)
      PROVE  UNCHANGED <<cache, evictor, todo, list, seen>>
  BY <1>2 DEF ReadTick, MapFails
<1>3. ASSUME NEW r \in Readers, Use(r)
      PROVE  UNCHANGED <<evictor, todo, list, seen>> /\ DOMAIN cache' = DOMAIN cache
  BY <1>3 DEF Use
<1>4. ASSUME NEW r \in Readers, AddMapped(r)
      PROVE  /\ UNCHANGED <<evictor, todo, list, seen>> /\ evictor # "scan"
             /\ DOMAIN cache \subseteq DOMAIN cache'
  BY <1>4 DEF AddMapped, Add, Exclusive, With
<1>5. ASSUME SetEvictable
      PROVE  UNCHANGED <<evictor, todo, list, seen>> /\ DOMAIN cache' = DOMAIN cache
  BY <1>5 DEF SetEvictable
<1>6. ASSUME AddNewFile
      PROVE  /\ UNCHANGED <<evictor, todo, list, seen>> /\ evictor # "scan"
             /\ DOMAIN cache \subseteq DOMAIN cache'
  BY <1>6 DEF AddNewFile, Add, Exclusive, With
<1> QED
  BY <1>1, <1>2, <1>3, <1>4, <1>5, <1>6 DEF Read, Write

\* So what was counted can still go.
LEMMA CallsKeepChoice ==
  ASSUME VictimsInv, FilesInv', Read \/ Write
  PROVE  Counted' /\ Choosing'
<1>1. /\ UNCHANGED <<evictor, todo, list, seen>>
      /\ DOMAIN cache \subseteq DOMAIN cache'
      /\ evictor = "scan" => DOMAIN cache' = DOMAIN cache
  BY CallsGrowTheCache
<1>2. /\ IsFiniteSet(DOMAIN cache') /\ Cardinality(DOMAIN cache') \in Nat
      /\ ItemsToEvictCount \in Int /\ ItemsToEvictCount' \in Int
  BY CacheIsFinite, NextCacheIsFinite DEF VictimsInv
<1>3. Cardinality(DOMAIN cache) <= Cardinality(DOMAIN cache') /\ Cardinality(DOMAIN cache) \in Nat
  BY <1>1, <1>2, FS_Subset, CacheIsFinite DEF VictimsInv
<1>4. ItemsToEvictCount <= ItemsToEvictCount'
  BY <1>2, <1>3, ReaderFilesAssumption DEF ItemsToEvictCount
<1>5. Counted'
  <2>1. Len(list) \in Nat
    BY DEF VictimsInv, FilesInv, Listed
  <2> QED
    BY <1>1, <1>2, <1>4, <2>1 DEF VictimsInv, Counted
<1>6. Choosing'
  <2> SUFFICES ASSUME evictor' = "scan" PROVE Chosen'
    BY DEF Choosing
  <2>1. ItemsToEvictCount' = ItemsToEvictCount
    BY <1>1 DEF ItemsToEvictCount
  <2> QED
    BY <1>1, <2>1 DEF VictimsInv, Choosing, Chosen, Victims
<1> QED
  BY <1>5, <1>6

\* An eviction begins with nothing chosen, chooses, and ends with nothing listed.
LEMMA EvictionKeepsChoice ==
  ASSUME VictimsInv, StartEviction \/ Evict \/ EndEviction
  PROVE  Counted' /\ Choosing'
<1> USE DEF VictimsInv
<1>0. Len(<<>>) = 0 /\ DOMAIN <<>> = {}
  OBVIOUS
<1>1. CASE StartEviction
  <2>1. /\ list = <<>> /\ DOMAIN seen = {} /\ UNCHANGED <<cache, list, seen>>
        /\ \/ ItemsToEvictCount > 0 /\ evictor' = "scan"
           \/ evictor' = "done"
    BY <1>1 DEF StartEviction, Counted
  <2>2. ItemsToEvictCount' = ItemsToEvictCount /\ ItemsToEvictCount \in Int
    BY <2>1, CacheIsFinite DEF ItemsToEvictCount
  <2>3. Counted'
    BY <1>0, <2>1, <2>2 DEF Counted
  <2>4. evictor' = "scan" => Chosen'
    BY <1>0, <2>1, <2>2 DEF Chosen
  <2> QED
    BY <2>3, <2>4 DEF Choosing
<1>2. ASSUME NEW k \in Keys, Visit(k) PROVE Counted' /\ Choosing'
  BY <1>2, VisitKeepsChoice
<1>3. CASE EndScan
  <2>1. /\ evictor' \in {"erase", "done"} /\ (list # <<>> => evictor' = "erase")
        /\ DOMAIN seen' = {} /\ UNCHANGED <<cache, list>> /\ evictor = "scan"
    BY <1>3 DEF EndScan, Nothing
  <2>2. ItemsToEvictCount' = ItemsToEvictCount
    BY <2>1 DEF ItemsToEvictCount
  <2> QED
    BY <2>1, <2>2 DEF Counted, Choosing
<1>4. CASE Erase
  BY <1>0, <1>4 DEF Erase, Counted, Choosing
<1>5. CASE EndEviction
  BY <1>5 DEF EndEviction, Counted, Choosing
<1> QED
  BY <1>1, <1>2, <1>3, <1>4, <1>5 DEF Evict

\* Every step keeps what is said of the victims.
LEMMA NextKeepsVictims == VictimsInv /\ [Next]_vars => VictimsInv'
<1> SUFFICES ASSUME VictimsInv, [Next]_vars PROVE VictimsInv'
  OBVIOUS
<1>0. FilesInv'
  BY NextKeepsInv DEF VictimsInv
<1>1. \/ Read \/ Write \/ StartEviction \/ Evict \/ EndEviction \/ UNCHANGED files
  BY DEF Next, Watch, Call, Lock, Wake, CheckMemory, Skip, UnmapLRUDataFiles, Evicted,
         EndPass, StatFails, Destroy, SetShutdown, Join, Terminated, vars
<1>2. CASE UNCHANGED files
  BY <1>2 DEF files, VictimsInv, Counted, Choosing, Chosen, ItemsToEvictCount, Victims,
              FilesInv, Typed, Listed, Cached, Readable, Reading, Left
<1>3. CASE Read \/ Write
  BY <1>0, <1>3, CallsKeepChoice DEF VictimsInv
<1>4. CASE StartEviction \/ Evict \/ EndEviction
  BY <1>0, <1>4, EvictionKeepsChoice DEF VictimsInv
<1> QED
  BY <1>1, <1>2, <1>3, <1>4

THEOREM VictimsAreCounted == Spec => []VictimsInv
<1>1. Init => VictimsInv
  <2> SUFFICES ASSUME Init PROVE VictimsInv
    OBVIOUS
  <2>1. list = <<>> /\ DOMAIN seen = {} /\ evictor = "idle" /\ DOMAIN list = {}
    BY DEF Init, FilesInit, Nothing
  <2> QED
    BY <2>1, InitInv DEF VictimsInv, Counted, Choosing
<1> QED
  BY <1>1, NextKeepsVictims, PTL DEF Spec

\* What PerformEviction has chosen when its scan is over are the least recently used of
\* the files that can be evicted, as many as the cache has too many: the insertion sort of
\* concurrent_lru_cache.h:85 with its list cut at the end, in whatever order the map gives
\* the entries and whatever readers use meanwhile.
THEOREM LeastRecentlyUsedGo == Spec => []VictimsAreLeastRecentlyUsed
<1>1. VictimsInv => VictimsAreLeastRecentlyUsed
  <2> SUFFICES ASSUME VictimsInv, evictor = "scan"
               PROVE  /\ Victims \subseteq DOMAIN seen
                      /\ \/ Len(list) = ItemsToEvictCount
                         \/ Victims = DOMAIN seen /\ Len(list) < ItemsToEvictCount
                      /\ \A v \in Victims, k \in DOMAIN seen \ Victims : seen[v] <= seen[k]
    BY DEF VictimsAreLeastRecentlyUsed
  <2>0. Chosen /\ Len(list) <= ItemsToEvictCount
    BY DEF VictimsInv, Choosing, Counted
  <2>1. Victims \subseteq DOMAIN seen
    BY <2>0 DEF Chosen, Victims
  <2>2. Len(list) \in Nat /\ ItemsToEvictCount \in Int
    BY CacheIsFinite DEF VictimsInv, FilesInv, Listed
  <2>3. Len(list) < ItemsToEvictCount => Victims = DOMAIN seen
    BY <2>0, <2>1 DEF Chosen
  <2>4. ASSUME NEW v \in Victims, NEW k \in DOMAIN seen \ Victims PROVE seen[v] <= seen[k]
    <3>1. PICK i \in DOMAIN list : list[i].key = v
      BY DEF Victims
    <3> QED
      BY <2>0, <3>1 DEF Chosen
  <2> QED
    BY <2>0, <2>1, <2>2, <2>3, <2>4
<1> QED
  BY <1>1, VictimsAreCounted, PTL

\* A sequence has as many positions as it is long.
LEMMA PositionsAreFinite ==
  ASSUME NEW S, NEW s \in Seq(S)
  PROVE  IsFiniteSet(1..Len(s)) /\ Cardinality(1..Len(s)) = Len(s)
<1>1. Len(s) \in Nat /\ 1 \in Int /\ Len(s) \in Int
  OBVIOUS
<1>2. /\ IsFiniteSet(1..Len(s))
      /\ Cardinality(1..Len(s)) = IF 1 > Len(s) THEN 0 ELSE Len(s) - 1 + 1
  BY <1>1, FS_Interval
<1> QED
  BY <1>1, <1>2

\* The victims are no more than the list is long.
LEMMA VictimsAreFew ==
  ASSUME list \in Seq(Item)
  PROVE  IsFiniteSet(Victims) /\ Cardinality(Victims) <= Len(list)
         /\ Cardinality(Victims) \in Nat
<1> DEFINE f == [i \in 1..Len(list) |-> list[i].key]
<1>1. f \in Surjection(1..Len(list), Victims)
  <2>1. f \in [1..Len(list) -> Victims]
    BY DEF Victims
  <2>2. \A v \in Victims : \E i \in 1..Len(list) : f[i] = v
    BY DEF Victims
  <2> QED
    BY <2>1, <2>2 DEF Surjection
<1>2. IsFiniteSet(1..Len(list)) /\ Cardinality(1..Len(list)) = Len(list)
  BY PositionsAreFinite
<1> QED
  BY <1>1, <1>2, FS_Surjection, FS_CardinalityType

\* An eviction leaves as many files mapped as the cache is meant to hold, although what was
\* counted under the shared lock is erased later under the exclusive one
\* (concurrent_lru_cache.h:81 and 123): in between the cache only grows.
THEOREM MaxIsLeft == Spec => EvictionLeavesMax
<1>1. ASSUME VictimsInv, [Next]_vars,
             Cardinality(DOMAIN cache') < Cardinality(DOMAIN cache)
      PROVE  Cardinality(DOMAIN cache') >= MaxCacheSize
  <2>0. /\ IsFiniteSet(DOMAIN cache) /\ IsFiniteSet(DOMAIN cache')
        /\ Cardinality(DOMAIN cache) \in Nat /\ Cardinality(DOMAIN cache') \in Nat
    BY <1>1, NextKeepsInv, CacheIsFinite, NextCacheIsFinite DEF VictimsInv
  <2>1. ~(DOMAIN cache \subseteq DOMAIN cache')
    BY <1>1, <2>0, FS_Subset
  <2>2. Erase
    <3>1. \/ Read \/ Write \/ StartEviction \/ Evict \/ EndEviction \/ UNCHANGED files
      BY <1>1 DEF Next, Watch, Call, Lock, Wake, CheckMemory, Skip, UnmapLRUDataFiles,
              Evicted, EndPass, StatFails, Destroy, SetShutdown, Join, Terminated, vars
    <3>2. ~(Read \/ Write)
      BY <2>1, CallsGrowTheCache
    <3> QED
      BY <2>1, <3>1, <3>2 DEF StartEviction, EndEviction, Evict, Visit, EndScan, files
  <2>3. list \in Seq(Item) /\ Len(list) <= ItemsToEvictCount
    BY <1>1, <2>2 DEF Erase, VictimsInv, FilesInv, Listed, Counted
  <2>4. DOMAIN cache' = DOMAIN cache \ Victims
    BY <2>2 DEF Erase
  <2>5. /\ Cardinality(DOMAIN cache') =
             Cardinality(DOMAIN cache) - Cardinality(DOMAIN cache \cap Victims)
        /\ Cardinality(DOMAIN cache \cap Victims) <= Cardinality(Victims)
        /\ Cardinality(DOMAIN cache \cap Victims) \in Nat
    <3>1. IsFiniteSet(Victims) /\ Cardinality(Victims) \in Nat
      BY <2>3, VictimsAreFew
    <3>2. DOMAIN cache \cap Victims \in SUBSET Victims
      OBVIOUS
    <3>3. IsFiniteSet(DOMAIN cache \cap Victims)
      BY <3>1, <3>2, FS_Subset
    <3>4. Cardinality(DOMAIN cache') =
             Cardinality(DOMAIN cache) - Cardinality(DOMAIN cache \cap Victims)
      BY <2>0, <2>4, FS_Difference
    <3>5. Cardinality(DOMAIN cache \cap Victims) <= Cardinality(Victims)
      BY <3>1, <3>2, FS_Subset
    <3> QED
      BY <3>3, <3>4, <3>5, FS_CardinalityType
  <2>6. Cardinality(Victims) <= Len(list) /\ Cardinality(Victims) \in Nat /\ Len(list) \in Nat
    BY <2>3, VictimsAreFew
  <2> QED
    BY <2>0, <2>3, <2>5, <2>6, ReaderFilesAssumption DEF ItemsToEvictCount
<1>2. VictimsInv /\ [Next]_vars
        => [Cardinality(DOMAIN cache') < Cardinality(DOMAIN cache)
              => Cardinality(DOMAIN cache') >= MaxCacheSize]_cache
  BY <1>1
<1> QED
  BY <1>2, VictimsAreCounted, PTL DEF Spec, EvictionLeavesMax

-----------------------------------------------------------------------------
(* Round robin *)

Wrapped(i) == IF i >= NumCollections THEN 0 ELSE i

\* The position that is visited next.
Upcoming ==
    IF watcher = "evicting" THEN Wrapped(currPos + 1)
    ELSE IF watcher = "pass" /\ currPos > lastPos THEN Wrapped(currPos)
    ELSE Wrapped(lastPos + 1)

\* Going round from q, x comes not after p.
Precedes(q, x, p) == IF q <= p THEN q <= x /\ x <= p ELSE q <= x \/ x <= p

Turns ==
    /\ lastPos \in -1..NumCollections /\ currPos \in 0..NumCollections
    /\ visited \subseteq Positions
    /\ watcher \in {"woken", "pass", "evicting"} => NumCollections > 0
    /\ watcher \in {"top", "waiting", "woken"} => currPos = 0
    /\ watcher = "pass" => lastPos <= NumCollections - 2
    /\ watcher = "evicting" => currPos < NumCollections /\ lastPos < currPos

InTurn ==
    \A p \in Positions \ visited, x \in Positions :
        Precedes(Upcoming, x, p) => x \notin visited

\* What comes next stays so, as long as no collection is visited.
LEMMA WaitingKeepsTurns ==
  ASSUME Turns, InTurn,
         \/ Lock \/ Wake \/ CheckMemory \/ Skip \/ Evicted \/ EndPass \/ UNCHANGED watching
  PROVE  Turns' /\ InTurn'
<1> USE MemoryWatcherAssumption
<1>1. CASE Lock
  BY <1>1 DEF Lock, Turns, InTurn, Upcoming, Precedes, Wrapped, Positions
<1>2. CASE Wake
  BY <1>2 DEF Wake, Turns, InTurn, Upcoming, Precedes, Wrapped, Positions
<1>3. CASE CheckMemory
  BY <1>3 DEF CheckMemory, Return, Turns, InTurn, Upcoming, Precedes, Wrapped, Positions
<1>4. CASE Skip
  BY <1>4 DEF Skip, Skips, Turns, InTurn, Upcoming, Precedes, Wrapped, Positions
<1>5. CASE Evicted
  BY <1>5 DEF Evicted, Turns, InTurn, Upcoming, Precedes, Wrapped, Positions
<1>6. CASE EndPass
  BY <1>6 DEF EndPass, Turns, InTurn, Upcoming, Precedes, Wrapped, Positions
<1>7. CASE UNCHANGED watching
  BY <1>7 DEF watching, Turns, InTurn, Upcoming, Precedes, Wrapped, Positions
<1> QED
  BY <1>1, <1>2, <1>3, <1>4, <1>5, <1>6, <1>7

\* A visit takes the one that is next.
LEMMA VisitKeepsTurns ==
  ASSUME Turns, InTurn, UnmapLRUDataFiles
  PROVE  /\ Turns' /\ InTurn'
         /\ currPos \notin visited \/ visited = Positions
<1> USE MemoryWatcherAssumption
<1>1. /\ watcher = "pass" /\ currPos \in Positions /\ lastPos < currPos
      /\ watcher' = "evicting" /\ UNCHANGED <<lastPos, currPos>>
      /\ visited' = IF visited = Positions THEN {currPos} ELSE visited \cup {currPos}
  BY DEF UnmapLRUDataFiles, Skips, Turns, Positions
<1>2. Turns'
  BY <1>1 DEF Turns, Positions
<1>3. Upcoming = currPos /\ Upcoming' = Wrapped(currPos + 1)
  BY <1>1 DEF Upcoming, Wrapped, Positions
<1>4. currPos \notin visited \/ visited = Positions
  <2>1. SUFFICES ASSUME visited # Positions PROVE currPos \notin visited
    OBVIOUS
  <2>2. PICK p \in Positions : p \notin visited
    BY <2>1 DEF Turns
  <2>3. Precedes(currPos, currPos, p)
    BY <1>1 DEF Precedes, Positions
  <2> QED
    BY <1>1, <1>3, <2>2, <2>3 DEF InTurn
<1>5. InTurn'
  <2> SUFFICES ASSUME NEW p \in Positions, p \notin visited', NEW x \in Positions,
                      Precedes(Wrapped(currPos + 1), x, p)
               PROVE  x \notin visited'
    BY <1>3 DEF InTurn, Positions
  <2>1. p # currPos
    BY <1>1
  <2>2. Precedes(currPos, x, p) /\ x # currPos
    BY <1>1, <2>1 DEF Precedes, Wrapped, Positions
  <2>3. CASE visited = Positions
    BY <1>1, <2>2, <2>3
  <2>4. CASE visited # Positions
    <3>1. p \notin visited
      BY <1>1, <2>4
    <3>2. x \notin visited
      BY <1>3, <2>2, <3>1 DEF InTurn
    <3> QED
      BY <1>1, <2>2, <2>4, <3>2
  <2> QED
    BY <2>3, <2>4
<1> QED
  BY <1>2, <1>4, <1>5

\* After a failure the round starts anew, or goes on where it was.
LEMMA FailureKeepsTurns ==
  ASSUME Turns, InTurn, StatFails
  PROVE  Turns' /\ InTurn'
<1> USE MemoryWatcherAssumption
<1>1. CASE watcher = "evicting"
  BY <1>1 DEF StatFails, Turns, InTurn, Positions
<1>2. CASE watcher = "woken"
  BY <1>2 DEF StatFails, Turns, InTurn, Upcoming, Precedes, Wrapped, Positions
<1> QED
  BY <1>1, <1>2 DEF StatFails

\* Every step keeps the order, and visits a collection only in its turn.
LEMMA NextKeepsTurns ==
  ASSUME Turns, InTurn, [Next]_vars
  PROVE  /\ Turns' /\ InTurn'
         /\ watcher' = "evicting" /\ watcher = "pass"
               => currPos \notin visited \/ visited = Positions
<1> USE MemoryWatcherAssumption
<1>1. CASE UnmapLRUDataFiles
  BY <1>1, VisitKeepsTurns
<1>2. CASE StatFails
  BY <1>2, FailureKeepsTurns DEF StatFails
<1>3. CASE \/ Lock \/ Wake \/ CheckMemory \/ Skip \/ Evicted \/ EndPass
           \/ UNCHANGED watching
  <2>1. ~(watcher' = "evicting" /\ watcher = "pass")
    BY <1>3 DEF Lock, Wake, CheckMemory, Skip, Evicted, EndPass, watching
  <2> QED
    BY <1>3, <2>1, WaitingKeepsTurns
<1>4. CASE Destroy \/ SetShutdown \/ Join
  <2>1. UNCHANGED <<watcher, lastPos, currPos, visited>>
    BY <1>4 DEF Destroy, SetShutdown, Join
  <2> QED
    BY <2>1 DEF Turns, InTurn, Upcoming, Precedes, Wrapped, Positions
<1> QED
  BY <1>1, <1>2, <1>3, <1>4 DEF Next, Watch, Call, Terminated, vars

\* However often a pass is cut short, and wherever memory statistics fail, no collection
\* is asked to evict twice before each other one was asked, for any number of them.
THEOREM CollectionsTakeTurns == Spec => RoundRobin
<1>1. Init => Turns /\ InTurn
  BY MemoryWatcherAssumption DEF Init, Turns, InTurn, Positions
<1>2. Turns /\ InTurn /\ [Next]_vars
        => /\ Turns' /\ InTurn'
           /\ [watcher' = "evicting" /\ watcher = "pass"
                 => currPos \notin visited \/ visited = Positions]_vars
  BY NextKeepsTurns
<1> QED
  BY <1>1, <1>2, PTL DEF Spec, RoundRobin

-----------------------------------------------------------------------------
(* Types *)

\* What readers and the writer are about.
Moves ==
    /\ current \in FirstFile..LastFile /\ lastUsed \in 0..MaxUses
    /\ writer = "switching" => current < LastFile
    /\ \A r \in Readers :
          /\ reader[r].key \in 0..current
          /\ reader[r].pc \in {"found", "ticked"} => reader[r].key \in DOMAIN cache
    /\ evictor \in {"idle", "scan", "erase", "done"}

\* There is an eviction where the watcher asked for one.
Watched ==
    /\ watcher \in {"top", "waiting", "woken", "pass", "evicting", "ended"}
    /\ stat \in Stats
    /\ shutdown \in BOOLEAN /\ destructor \in {"none", "called", "joining", "joined"}
    /\ evictor # "idle" => watcher = "evicting" /\ currPos = Mine

IInv == VictimsInv /\ Turns /\ InTurn /\ Moves /\ Watched

\* A reader finds what is cached, and what it holds is not erased.
LEMMA ReadKeepsMoves == FilesInv /\ Moves /\ Read => Moves'
<1> SUFFICES ASSUME FilesInv, Moves, NEW r \in Readers,
                    \/ \E k \in Keys : Find(r, k)
                    \/ ReadTick(r) \/ Use(r) \/ MapFails(r) \/ AddMapped(r)
             PROVE  Moves'
  BY DEF Read
<1>1. /\ UNCHANGED <<current, writer, evictor>>
      /\ DOMAIN reader = Readers
      /\ \A q \in Readers \ {r} : reader'[q] = reader[q]
  BY DEF FilesInv, Readable, Find, ReadTick, Use, MapFails, AddMapped
<1>2. lastUsed' \in 0..MaxUses
  BY ReaderFilesAssumption DEF Moves, Find, ReadTick, Use, MapFails, AddMapped, Add
<1>3. DOMAIN cache \subseteq DOMAIN cache'
  BY DEF Find, ReadTick, Use, MapFails, AddMapped, Add, With
<1>4. /\ reader'[r].key \in 0..current
      /\ reader'[r].pc \in {"found", "ticked"} => reader'[r].key \in DOMAIN cache'
  <2>0. current \in Nat
    BY DEF FilesInv, Typed
  <2>r. reader[r] \in [pc : PCs, key : Int, tick : Int]
    BY DEF FilesInv, Readable, Reading
  <2>1. ASSUME NEW k \in Keys, Find(r, k)
        PROVE  /\ reader'[r].key \in 0..current
               /\ reader'[r].pc \in {"found", "ticked"} => reader'[r].key \in DOMAIN cache'
    <3>1. k \in 0..current
      BY <2>0, <2>1, ReaderFilesAssumption DEF Find, Keys
    <3>2. CASE k \in DOMAIN cache
      <4>1. reader'[r].key = k
        BY <1>1, <2>r, <2>1, <3>2 DEF Find
      <4> QED
        BY <1>3, <3>1, <3>2, <4>1
    <3>3. CASE k \notin DOMAIN cache
      <4>1. reader'[r].key = k /\ reader'[r].pc = "missed"
        BY <1>1, <2>r, <2>1, <3>3 DEF Find
      <4> QED
        BY <3>1, <4>1
    <3> QED
      BY <3>2, <3>3
  <2>2. CASE ReadTick(r)
    <3>1. reader'[r] = [reader[r] EXCEPT !.pc = "ticked", !.tick = lastUsed]
      BY <1>1, <2>2 DEF ReadTick
    <3>2. reader'[r].key = reader[r].key /\ reader[r].pc = "found"
      BY <2>r, <2>2, <3>1 DEF ReadTick
    <3> QED
      BY <1>3, <3>2 DEF Moves
  <2>3. CASE Use(r) \/ MapFails(r) \/ AddMapped(r)
    <3>1. reader'[r] = NotReading
      BY <1>1, <2>3 DEF Use, MapFails, AddMapped
    <3> QED
      BY <2>0, <3>1 DEF NotReading
  <2> QED
    BY <2>1, <2>2, <2>3
<1>5. ASSUME NEW q \in Readers
      PROVE  /\ reader'[q].key \in 0..current
             /\ reader'[q].pc \in {"found", "ticked"} => reader'[q].key \in DOMAIN cache'
  BY <1>1, <1>3, <1>4 DEF Moves
<1> QED
  BY <1>1, <1>2, <1>5 DEF Moves

\* So do the writer and the eviction.
LEMMA OthersKeepMoves ==
  FilesInv /\ Moves /\ (Write \/ StartEviction \/ Evict \/ EndEviction \/ UNCHANGED files)
    => Moves'
<1> SUFFICES ASSUME FilesInv, Moves,
                    Write \/ StartEviction \/ Evict \/ EndEviction \/ UNCHANGED files
             PROVE  Moves'
  OBVIOUS
<1>1. CASE SetEvictable
  <2>1. DOMAIN cache' = DOMAIN cache
    BY <1>1 DEF SetEvictable
  <2> QED
    BY <1>1, <2>1, ReaderFilesAssumption DEF SetEvictable, Moves
<1>2. CASE AddNewFile
  <2>1. DOMAIN cache \subseteq DOMAIN cache'
    BY <1>2 DEF AddNewFile, Add, With
  <2>2. /\ current' \in FirstFile..LastFile /\ lastUsed' \in 0..MaxUses /\ writer' = "idle"
        /\ \A n \in 0..current : n \in 0..current'
    BY <1>2, ReaderFilesAssumption DEF AddNewFile, Add, Moves
  <2>3. UNCHANGED <<reader, evictor>>
    BY <1>2 DEF AddNewFile
  <2> QED
    BY <2>1, <2>2, <2>3 DEF Moves
<1>3. CASE StartEviction \/ EndEviction
  BY <1>3 DEF StartEviction, EndEviction, Moves
<1>4. CASE Evict
  <2>1. CASE Erase
    <3>1. \A r \in Readers : reader[r].pc \notin {"found", "ticked"}
      BY <2>1 DEF Erase, Exclusive, Holding
    <3> QED
      BY <2>1, <3>1 DEF Erase, Moves
  <2>2. CASE EndScan \/ \E k \in Keys : Visit(k)
    BY <2>2 DEF EndScan, Visit, Moves
  <2> QED
    BY <1>4, <2>1, <2>2 DEF Evict
<1>5. CASE UNCHANGED files
  BY <1>5 DEF files, Moves
<1> QED
  BY <1>1, <1>2, <1>3, <1>4, <1>5 DEF Write

\* The watcher does not leave an eviction before it is done.
LEMMA NextKeepsWatched ==
  ASSUME Watched, Moves, [Next]_vars
  PROVE  Watched'
<1>1. CASE Read \/ Write
  <2>1. UNCHANGED evictor
    BY <1>1, CallsGrowTheCache
  <2> QED
    BY <1>1, <2>1 DEF Next, Watch, Call, Lock, Wake, CheckMemory, Skip, UnmapLRUDataFiles,
         Evicted, EndPass, StatFails, Destroy, SetShutdown, Join, Terminated, vars, Watched,
         watching, files, StartEviction, EndEviction, Stats, Evict, Visit, EndScan, Erase
<1>2. CASE UnmapLRUDataFiles
  BY <1>2 DEF UnmapLRUDataFiles, StartEviction, Watched, files
<1>3. CASE Evicted \/ StatFails
  BY <1>3 DEF Evicted, StatFails, EndEviction, Watched, files
<1>4. CASE Evict /\ UNCHANGED watching
  <2>1. evictor # "idle"
    BY <1>4 DEF Evict, Visit, EndScan, Erase
  <2> QED
    BY <1>4, <2>1 DEF watching, Watched
<1>5. CASE \/ Lock \/ Wake \/ CheckMemory \/ Skip \/ EndPass
           \/ Destroy \/ SetShutdown \/ Join \/ UNCHANGED vars
  BY <1>5 DEF Lock, Wake, CheckMemory, Skip, EndPass, Destroy, SetShutdown, Join, vars,
              watching, files, Watched
<1> QED
  BY <1>1, <1>2, <1>3, <1>4, <1>5 DEF Next, Watch, Call, Terminated

\* Every step keeps the invariant.
LEMMA NextKeepsIInv == IInv /\ [Next]_vars => IInv'
<1> SUFFICES ASSUME IInv, [Next]_vars PROVE IInv'
  OBVIOUS
<1>1. VictimsInv' /\ Turns' /\ InTurn'
  BY NextKeepsVictims, NextKeepsTurns DEF IInv
<1>2. Moves'
  <2>1. \/ Read \/ Write \/ StartEviction \/ Evict \/ EndEviction \/ UNCHANGED files
    BY DEF Next, Watch, Call, Lock, Wake, CheckMemory, Skip, UnmapLRUDataFiles, Evicted,
           EndPass, StatFails, Destroy, SetShutdown, Join, Terminated, vars
  <2> QED
    BY <2>1, ReadKeepsMoves, OthersKeepMoves DEF IInv, VictimsInv
<1>3. Watched'
  BY NextKeepsWatched DEF IInv
<1> QED
  BY <1>1, <1>2, <1>3 DEF IInv

\* No key is listed twice.
LEMMA VictimsAreMany ==
  ASSUME list \in Seq(Item), Counted
  PROVE  Cardinality(Victims) = Len(list)
<1> DEFINE f == [i \in 1..Len(list) |-> list[i].key]
<1>1. f \in Bijection(1..Len(list), Victims)
  <2>1. f \in [1..Len(list) -> Victims]
    BY DEF Victims
  <2>2. \A v \in Victims : \E i \in 1..Len(list) : f[i] = v
    BY DEF Victims
  <2>3. \A i, j \in 1..Len(list) : f[i] = f[j] => i = j
    BY DEF Counted
  <2> HIDE DEF f
  <2>4. f \in Injection(1..Len(list), Victims)
    BY <2>1, <2>3 DEF Injection, IsInjective
  <2>5. f \in Surjection(1..Len(list), Victims)
    BY <2>1, <2>2 DEF Surjection
  <2> QED
    BY <2>4, <2>5 DEF Bijection
<1>2. IsFiniteSet(1..Len(list)) /\ Cardinality(1..Len(list)) = Len(list)
  BY PositionsAreFinite
<1>3. ExistsBijection(1..Len(list), Victims)
  BY <1>1 DEF ExistsBijection
<1> QED
  BY <1>2, <1>3, FS_Bijection

\* Every variable has its type, a reader holds no entry that was erased
\* (concurrent_lru_cache.h:48), and there is an eviction only while the watcher asks for one,
\* for any number of readers, files and collections.
THEOREM TypeCorrect == Spec => []TypeOK
<1>1. Init => IInv
  <2> SUFFICES ASSUME Init PROVE IInv
    OBVIOUS
  <2>1. list = <<>> /\ DOMAIN list = {} /\ DOMAIN seen = {} /\ evictor = "idle"
    BY DEF Init, FilesInit, Nothing
  <2>2. VictimsInv
    BY <2>1, InitInv DEF VictimsInv, Counted, Choosing
  <2>3. Turns /\ InTurn
    BY MemoryWatcherAssumption DEF Init, Turns, InTurn, Positions
  <2>4. Moves
    <3>1. \A r \in Readers : reader[r].key = 0 /\ reader[r].pc = "idle"
      BY DEF Init, FilesInit, NotReading
    <3> QED
      BY <3>1, ReaderFilesAssumption DEF Init, FilesInit, Moves
  <2>5. Watched
    BY DEF Init, FilesInit, Watched, Stats
  <2> QED
    BY <2>2, <2>3, <2>4, <2>5 DEF IInv
<1>2. IInv => TypeOK
  <2> SUFFICES ASSUME IInv PROVE TypeOK
    OBVIOUS
  <2>1. list \in Seq(Item) /\ (evictor = "scan" => todo \subseteq DOMAIN cache)
    BY DEF IInv, VictimsInv, FilesInv, Listed
  <2>2. DOMAIN cache \subseteq Keys /\ \A k \in DOMAIN cache : cache[k] \in Entry
    BY ReaderFilesAssumption DEF IInv, VictimsInv, FilesInv, Typed, Moves, Keys
  <2>3. \A r \in Readers : reader[r].pc \in {"idle", "found", "ticked", "missed"}
    BY DEF IInv, VictimsInv, FilesInv, Readable, Reading, PCs
  <2>4. Cardinality(Victims) = Len(list) /\ (evictor = "scan" => Len(list) <= ItemsToEvictCount)
    BY <2>1, VictimsAreMany DEF IInv, VictimsInv, Counted
  <2>5. writer \in {"idle", "switching"}
    BY DEF IInv, VictimsInv, FilesInv, Typed
  <2>6. FilesTypeOK
    BY <2>1, <2>2, <2>3, <2>4, <2>5 DEF FilesTypeOK, IInv, Moves
  <2> QED
    BY <2>6 DEF TypeOK, IInv, Turns, Watched
<1> QED
  BY <1>1, <1>2, NextKeepsIInv, PTL DEF Spec
=============================================================================
