---------------------------- MODULE ReaderFiles ----------------------------
(***************************************************************************)
(* m_readerFiles of one BlobManager: the ConcurrentLRUCache of mapped data *)
(* files, used by the readers of BlobManager::Get, by the writer that      *)
(* switches to a new file, and by the eviction that the memory watcher     *)
(* asks for.                                                               *)
(*                                                                         *)
(* m_mutex is a shared mutex.  Find and the scan of PerformEviction hold it *)
(* shared, so that finds run in the middle of a scan and of each other;    *)
(* Add and the erasing hold it alone and are single steps.                 *)
(*                                                                         *)
(* m_lastUsed starts at 0 here; the code leaves it uninitialised.  It is   *)
(* only compared, so that its start means nothing until it overflows.      *)
(***************************************************************************)
EXTENDS Integers, Sequences, FiniteSets, SequencesExt

CONSTANTS
    Readers,       \* threads that call Get
    FirstFile,     \* key of the current file when the collection is opened
    LastFile,      \* bound: key of the last file switched to
    MaxCacheSize,  \* DEFAULT_MEM_MAP_LRU_CACHE_SIZE, 3 in the code
    MaxUses        \* bound: value of m_lastUsed

ASSUME ReaderFilesAssumption ==
    /\ FirstFile \in Nat /\ LastFile \in Nat /\ FirstFile <= LastFile
    /\ MaxCacheSize \in Nat /\ MaxUses \in Nat \ {0}

VARIABLES
    cache,     \* m_map
    lastUsed,  \* m_lastUsed
    current,   \* m_currentBlobFileInfo.fileKey
    writer,    \* "idle", or "switching" between SetEvictable and Add
    reader,    \* per reader: where it is in Get, the file, the tick it has read
    evictor,   \* where PerformEviction is
    todo,      \* entries the scan has still to visit
    list,      \* keysToEvict
    seen       \* history: the evictable entries the scan has visited, as it saw them

files == <<cache, lastUsed, current, writer, reader, evictor, todo, list, seen>>

Keys == 0..LastFile
Entry == [used : Int, evictable : BOOLEAN]
Nothing == [k \in {} |-> 0]
NotReading == [pc |-> "idle", key |-> 0, tick |-> 0]

Holding == {r \in Readers : reader[r].pc \in {"found", "ticked"}}
Exclusive == Holding = {} /\ evictor # "scan"

With(f, x, y) == [z \in DOMAIN f \cup {x} |-> IF z = x THEN y ELSE f[z]]

FilesInit ==
    /\ current = FirstFile
    /\ lastUsed = 1
    /\ cache = [k \in {FirstFile} |-> [used |-> 1, evictable |-> FALSE]]
    /\ writer = "idle"
    /\ reader = [r \in Readers |-> NotReading]
    /\ evictor = "idle" /\ todo = {} /\ list = <<>>
    /\ seen = Nothing

\* ConcurrentLRUCache::Add
Add(k, evictable) ==
    /\ Exclusive
    /\ lastUsed < MaxUses /\ lastUsed' = lastUsed + 1
    /\ cache' = With(cache, k, [used |-> lastUsed + 1, evictable |-> evictable])

-----------------------------------------------------------------------------
(* BlobManager::Get of a blob in file k *)

Find(r, k) ==
    /\ reader[r].pc = "idle" /\ k <= current
    /\ lastUsed < MaxUses
    /\ IF k \in DOMAIN cache
       THEN /\ reader' = [reader EXCEPT ![r].pc = "found", ![r].key = k]
            /\ lastUsed' = lastUsed + 1
       ELSE /\ reader' = [reader EXCEPT ![r].pc = "missed", ![r].key = k]
            /\ UNCHANGED lastUsed
    /\ UNCHANGED <<cache, current, writer, evictor, todo, list, seen>>

\* m_lastUsed is read again: another reader may have moved it on.
ReadTick(r) ==
    /\ reader[r].pc = "found"
    /\ reader' = [reader EXCEPT ![r].pc = "ticked", ![r].tick = lastUsed]
    /\ UNCHANGED <<cache, lastUsed, current, writer, evictor, todo, list, seen>>

Use(r) ==
    /\ reader[r].pc = "ticked"
    /\ cache' = [cache EXCEPT ![reader[r].key].used = reader[r].tick]
    /\ reader' = [reader EXCEPT ![r] = NotReading]
    /\ UNCHANGED <<lastUsed, current, writer, evictor, todo, list, seen>>

\* The file cannot be opened or mapped: Get throws.
MapFails(r) ==
    /\ reader[r].pc = "missed"
    /\ reader' = [reader EXCEPT ![r] = NotReading]
    /\ UNCHANGED <<cache, lastUsed, current, writer, evictor, todo, list, seen>>

\* The file is mapped and put into the cache, also if another reader has done so since.
AddMapped(r) ==
    /\ reader[r].pc = "missed"
    /\ Add(reader[r].key, TRUE)
    /\ reader' = [reader EXCEPT ![r] = NotReading]
    /\ UNCHANGED <<current, writer, evictor, todo, list, seen>>

-----------------------------------------------------------------------------
(* The end of SwitchToNewDataFile; what precedes it and may fail leaves the  *)
(* cache alone.                                                              *)

\* assert(retVal): the current file is there.
SetEvictable ==
    /\ writer = "idle" /\ current < LastFile
    /\ current \in DOMAIN cache
    /\ cache' = [cache EXCEPT ![current].evictable = TRUE]
    /\ writer' = "switching"
    /\ UNCHANGED <<lastUsed, current, reader, evictor, todo, list, seen>>

\* Mutant: the new file can be evicted like any other.
AddNewFileEvictable ==
    /\ writer = "switching"
    /\ Add(current + 1, TRUE)
    /\ current' = current + 1
    /\ writer' = "idle"
    /\ UNCHANGED <<reader, evictor, todo, list, seen>>

AddNewFile ==
    /\ writer = "switching"
    /\ Add(current + 1, FALSE)
    /\ current' = current + 1
    /\ writer' = "idle"
    /\ UNCHANGED <<reader, evictor, todo, list, seen>>

-----------------------------------------------------------------------------
(* ConcurrentLRUCache::PerformEviction *)

\* Mutant: as many as there are in all.
AllItems == Cardinality(DOMAIN cache)

\* itemsToEvictCount; the map keeps its size as long as the mutex is held.
ItemsToEvictCount == Cardinality(DOMAIN cache) - MaxCacheSize

StartEviction ==
    /\ evictor = "idle"
    /\ IF ItemsToEvictCount > 0
       THEN evictor' = "scan" /\ todo' = DOMAIN cache
       ELSE evictor' = "done" /\ UNCHANGED todo
    /\ UNCHANGED <<cache, lastUsed, current, writer, reader, list, seen>>

\* Mutant: an entry goes to the end, in the order of the map.
InsertedAtEnd(k) ==
    IF cache[k].evictable /\ Len(list) < ItemsToEvictCount
    THEN Append(list, [key |-> k, used |-> cache[k].used]) ELSE list

\* The insertion sort: in front of the first that was used later, or at the end.
\* The entry is read once; the code reads it again for each comparison.
Inserted(k) ==
    LET item  == [key |-> k, used |-> cache[k].used]
        later == {i \in DOMAIN list : item.used < list[i].used}
    IN IF ~cache[k].evictable THEN list
       ELSE IF later # {}
       THEN InsertAt(list, CHOOSE i \in later : \A j \in later : i <= j, item)
       ELSE IF Len(list) < ItemsToEvictCount THEN Append(list, item) ELSE list

\* The last one drops out of a list that has become too long.
Kept(items) == IF Len(items) > ItemsToEvictCount THEN Front(items) ELSE items

Visit(k) ==
    /\ evictor = "scan" /\ k \in todo
    /\ todo' = todo \ {k}
    /\ list' = Kept(Inserted(k))
    /\ seen' = IF cache[k].evictable THEN With(seen, k, cache[k].used) ELSE seen
    /\ UNCHANGED <<cache, lastUsed, current, writer, reader, evictor>>

EndScan ==
    /\ evictor = "scan" /\ todo = {}
    /\ evictor' = IF list = <<>> THEN "done" ELSE "erase"
    /\ seen' = Nothing
    /\ UNCHANGED <<cache, lastUsed, current, writer, reader, todo, list>>

Victims == {list[i].key : i \in DOMAIN list}

Erase ==
    /\ evictor = "erase" /\ Exclusive
    /\ cache' = [k \in DOMAIN cache \ Victims |-> cache[k]]
    /\ list' = <<>>
    /\ evictor' = "done"
    /\ UNCHANGED <<lastUsed, current, writer, reader, todo, seen>>

EndEviction ==
    /\ evictor = "done"
    /\ evictor' = "idle"
    /\ UNCHANGED <<cache, lastUsed, current, writer, reader, todo, list, seen>>

-----------------------------------------------------------------------------
Read == \E r \in Readers :
    \/ \E k \in Keys : Find(r, k)
    \/ ReadTick(r) \/ Use(r) \/ MapFails(r) \/ AddMapped(r)
Write == SetEvictable \/ AddNewFile
Evict == (\E k \in Keys : Visit(k)) \/ EndScan \/ Erase

-----------------------------------------------------------------------------
\* Every variable has its type; the list of victims has no key twice and is never
\* longer than what has to go.
FilesTypeOK ==
    /\ current \in FirstFile..LastFile
    /\ lastUsed \in 0..MaxUses
    /\ DOMAIN cache \subseteq Keys
    /\ \A k \in DOMAIN cache : cache[k] \in Entry
    /\ writer \in {"idle", "switching"}
    /\ \A r \in Readers :
          /\ reader[r].pc \in {"idle", "found", "ticked", "missed"}
          /\ reader[r].key \in 0..current
          /\ reader[r].pc \in {"found", "ticked"} => reader[r].key \in DOMAIN cache
    /\ evictor \in {"idle", "scan", "erase", "done"}
    /\ todo \subseteq DOMAIN cache \/ evictor # "scan"
    /\ Cardinality(Victims) = Len(list)
    /\ evictor = "scan" => Len(list) <= ItemsToEvictCount

\* The file that is written stays in the cache and is not up for eviction, whatever
\* was scanned while another file was current: "assert(retVal)" of
\* blob_manager.cc:387, and the mapping that readers share with the writer.
CurrentFileIsCached ==
    writer = "idle" =>
        /\ current \in DOMAIN cache
        /\ ~cache[current].evictable
        /\ current \notin Victims

\* The victims are the least recently used of the evictable entries, as many as the
\* cache has too many, with the use of each as it was when the scan came by: what the
\* insertion sort of concurrent_lru_cache.h:85 is for.
VictimsAreLeastRecentlyUsed ==
    evictor = "scan" /\ todo = {} =>
        /\ Victims \subseteq DOMAIN seen
        /\ \/ Len(list) = ItemsToEvictCount
           \/ Victims = DOMAIN seen /\ Len(list) < ItemsToEvictCount
        /\ \A v \in Victims, k \in DOMAIN seen \ Victims : seen[v] <= seen[k]

\* An eviction leaves MaxCacheSize files mapped, although the victims were counted
\* under another lock than the one they are erased under.
EvictionLeavesMax ==
    [][Cardinality(DOMAIN cache') < Cardinality(DOMAIN cache)
          => Cardinality(DOMAIN cache') >= MaxCacheSize]_cache
=============================================================================
