--------------------------- MODULE MemoryWatcher ---------------------------
(***************************************************************************)
(* The memory watcher of DatabaseImpl: a thread that has collections evict *)
(* mapped files while the process uses too much memory, and the destructor *)
(* that stops and joins it.                                                *)
(*                                                                         *)
(* The collections are the positions 0..NumCollections - 1 in the          *)
(* iteration order of m_collectionContainer; the cache of the one at Mine  *)
(* is that of ReaderFiles, evicting from another is a step.  No collection *)
(* is created meanwhile: the container is not locked against that.         *)
(***************************************************************************)
EXTENDS ReaderFiles

CONSTANTS
    NumCollections,  \* m_collectionContainer.size()
    Mine,            \* position of the collection whose cache is modelled
    MaxStatFailures  \* bound: exceptions in the watcher

ASSUME MemoryWatcherAssumption ==
    NumCollections \in Nat /\ Mine \in Nat /\ MaxStatFailures \in Nat

VARIABLES
    watcher,     \* where MemoryWatcherFunc is
    lastPos, currPos,
    stat,        \* memory in use against MemoryCleanupThreshold, as last read
    shutdown,    \* m_shutdownMemWatcher
    destructor,  \* where ~DatabaseImpl is
    visited,     \* history: positions visited in this round
    failures

watching == <<watcher, lastPos, currPos, stat, shutdown, destructor, visited, failures>>
vars == <<files, watching>>

Positions == 0..(NumCollections - 1)
Stats == {"below", "at", "above"}

\* m_memWatcherMutex is taken where the watcher waits no more, and held to the end
\* of the iteration.
MutexFree == watcher \in {"top", "waiting", "ended"}

Init ==
    /\ FilesInit
    /\ watcher = "top" /\ lastPos = -1 /\ currPos = 0 /\ stat = "below"
    /\ shutdown = FALSE /\ destructor = "none"
    /\ visited = {} /\ failures = 0

-----------------------------------------------------------------------------
Lock ==
    /\ watcher = "top"
    /\ watcher' = IF shutdown THEN "ended" ELSE "waiting"
    /\ UNCHANGED <<files, lastPos, currPos, stat, shutdown, destructor, visited, failures>>

\* After five seconds, on a notification, or for no reason.
Wake ==
    /\ watcher = "waiting"
    /\ watcher' = IF shutdown THEN "ended"
                  ELSE IF NumCollections = 0 THEN "top" ELSE "woken"
    /\ UNCHANGED <<files, lastPos, currPos, stat, shutdown, destructor, visited, failures>>

\* Mutant: the last position stays.
ReturnNever == lastPos

\* -1 is larger than any size_t.
Return == IF lastPos = -1 \/ lastPos >= NumCollections - 1 THEN -1 ELSE lastPos

CheckMemory ==
    /\ watcher = "woken"
    /\ stat' \in Stats
    /\ IF stat' = "above"
       THEN watcher' = "pass" /\ lastPos' = Return
       ELSE watcher' = "top" /\ UNCHANGED lastPos
    /\ UNCHANGED <<files, currPos, shutdown, destructor, visited, failures>>

\* Mutant: the last one visited comes again.
SkipsBefore == currPos < lastPos

Skips == currPos <= lastPos

Skip ==
    /\ watcher = "pass" /\ currPos < NumCollections
    /\ Skips
    /\ currPos' = currPos + 1
    /\ UNCHANGED <<files, watcher, lastPos, stat, shutdown, destructor, visited, failures>>

UnmapLRUDataFiles ==
    /\ watcher = "pass" /\ currPos < NumCollections
    /\ ~Skips
    /\ watcher' = "evicting"
    /\ IF currPos = Mine THEN StartEviction ELSE UNCHANGED files
    /\ visited' = IF visited = Positions THEN {currPos} ELSE visited \cup {currPos}
    /\ UNCHANGED <<lastPos, currPos, stat, shutdown, destructor, failures>>

Evicted ==
    /\ watcher = "evicting"
    /\ IF currPos = Mine THEN EndEviction ELSE UNCHANGED files
    /\ stat' \in Stats
    /\ IF stat' = "below"
       THEN watcher' = "top" /\ lastPos' = currPos /\ currPos' = 0
       ELSE watcher' = "pass" /\ currPos' = currPos + 1 /\ UNCHANGED lastPos
    /\ UNCHANGED <<shutdown, destructor, visited, failures>>

EndPass ==
    /\ watcher = "pass" /\ currPos = NumCollections
    /\ lastPos' = currPos /\ currPos' = 0
    /\ watcher' = "top"
    /\ UNCHANGED <<files, stat, shutdown, destructor, visited, failures>>

\* GetProcessMemoryStats throws.  A build with assertions ends here; one without
\* goes on, and a pass that was under way counts for nothing.
StatFails ==
    /\ watcher \in {"woken", "evicting"}
    /\ failures < MaxStatFailures /\ failures' = failures + 1
    /\ IF watcher = "evicting" /\ currPos = Mine THEN EndEviction ELSE UNCHANGED files
    /\ visited' = IF watcher = "evicting" THEN {} ELSE visited
    /\ watcher' = "top" /\ currPos' = 0
    /\ UNCHANGED <<lastPos, stat, shutdown, destructor>>

-----------------------------------------------------------------------------
(* ~DatabaseImpl, which runs when no call does *)

Destroy ==
    /\ destructor = "none"
    /\ writer = "idle" /\ \A r \in Readers : reader[r] = NotReading
    /\ destructor' = "called"
    /\ UNCHANGED <<files, watcher, lastPos, currPos, stat, shutdown, visited, failures>>

\* Mutant: the watcher is woken and not told.
NotifyOnly ==
    /\ destructor = "called" /\ MutexFree
    /\ destructor' = "joining"
    /\ UNCHANGED <<files, watcher, lastPos, currPos, stat, shutdown, visited, failures>>

SetShutdown ==
    /\ destructor = "called" /\ MutexFree
    /\ shutdown' = TRUE
    /\ destructor' = "joining"
    /\ UNCHANGED <<files, watcher, lastPos, currPos, stat, visited, failures>>

Join ==
    /\ destructor = "joining" /\ watcher = "ended"
    /\ destructor' = "joined"
    /\ UNCHANGED <<files, watcher, lastPos, currPos, stat, shutdown, visited, failures>>

-----------------------------------------------------------------------------
Watch ==
    \/ Lock \/ Wake \/ CheckMemory \/ Skip \/ UnmapLRUDataFiles \/ Evicted \/ EndPass
    \/ Evict /\ UNCHANGED watching

Call == destructor = "none" /\ (Read \/ Write) /\ UNCHANGED watching

Terminated == destructor = "joined" /\ UNCHANGED vars

Next == Watch \/ StatFails \/ Call \/ Destroy \/ SetShutdown \/ Join \/ Terminated

(***************************************************************************)
(* Each thread goes on where it can: the watcher, whose wait ends by       *)
(* itself, a reader in the middle of Get, the destructor.  The destructor  *)
(* gets m_memWatcherMutex although it is taken again and again: between    *)
(* two passes it is free for five seconds.                                 *)
(***************************************************************************)
Spec ==
    /\ Init /\ [][Next]_vars
    /\ WF_vars(Watch)
    /\ \A r \in Readers : WF_vars((ReadTick(r) \/ Use(r)) /\ UNCHANGED watching)
    /\ SF_vars(SetShutdown) /\ WF_vars(Join)

-----------------------------------------------------------------------------
\* Every variable has its type; there is an eviction only while the watcher asks
\* for one, under the mutex.
TypeOK ==
    /\ FilesTypeOK
    /\ watcher \in {"top", "waiting", "woken", "pass", "evicting", "ended"}
    /\ lastPos \in -1..NumCollections /\ currPos \in 0..NumCollections
    /\ stat \in Stats /\ visited \subseteq Positions
    /\ shutdown \in BOOLEAN /\ destructor \in {"none", "called", "joining", "joined"}
    /\ evictor # "idle" => watcher = "evicting" /\ currPos = Mine

\* "We will visit the collections in a round robin fashion" (database_impl.cc:50):
\* wherever the passes are cut short, no collection is visited again before every
\* other one was.
RoundRobin ==
    [][watcher' = "evicting" /\ watcher = "pass"
          => currPos \notin visited \/ visited = Positions]_vars

\* A destructor that has been called returns: it gets the mutex from the watcher and
\* the watcher sees the flag, wherever it was.
CloseEnds == destructor = "called" ~> destructor = "joined"

\* As long as memory stays above the threshold and the database open, a cache that
\* nobody uses shrinks to its size, or to the files that cannot be evicted.
CacheShrinks ==
    <>[](/\ stat = "above" /\ destructor = "none"
         /\ writer = "idle" /\ \A r \in Readers : reader[r].pc = "idle")
        => <>[](\/ Cardinality(DOMAIN cache) <= MaxCacheSize
                \/ \A k \in DOMAIN cache : ~cache[k].evictable)
=============================================================================
