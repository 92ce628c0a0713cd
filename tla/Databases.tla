----------------------------- MODULE Databases -----------------------------
(***************************************************************************)
(* Databases in one process: DatabaseImpl with its collections, the        *)
(* metadata that names them on disk, the singleton                         *)
(* DocumentCollectionDictionary, and the QueryProcessor with its pool of   *)
(* connections to a shared in-memory SQLite database, in which every       *)
(* collection is a virtual table.                                          *)
(*                                                                         *)
(* A connection makes its own instance of a virtual table when it first    *)
(* prepares a statement on it, and gets the collection from the            *)
(* dictionary, under the key that the table was created with.              *)
(*                                                                         *)
(* On disk, a collection is a row of table Collection and the parts that   *)
(* its construction has put there before that row: nothing ever takes      *)
(* those away again.  The databases' files have different names here (two  *)
(* of one path whose names with the collections' make the same would share *)
(* a data file).                                                           *)
(*                                                                         *)
(* One thread calls; results stay open from call to call.  The process may *)
(* end between any two steps, in std::terminate too.                       *)
(***************************************************************************)
EXTENDS Integers, Sequences, FiniteSets, SequencesExt

CONSTANTS
    DBs,           \* databases: a path and a name each
    DBName,        \* name of each database
    ConnStr,       \* m_dbConnStr of each database
    Names,         \* names of collections
    Slots,         \* connections of the pool, pooled or taken
    PoolSize,      \* 5 in the code: opened in advance
    PoolCapacity,  \* 10 in the code
    MaxOpen,       \* bound: databases open at a time
    MaxMade        \* bound: collection objects made

ASSUME DatabasesAssumption ==
    /\ DOMAIN DBName = DBs /\ DOMAIN ConnStr = DBs
    /\ PoolSize \in Nat /\ PoolCapacity \in Nat \ {0}
    /\ PoolSize <= PoolCapacity
    /\ IsFiniteSet(Slots) /\ Slots = 1..Cardinality(Slots)
    /\ PoolSize <= Cardinality(Slots)
    /\ MaxOpen \in Nat /\ MaxMade \in Nat

VARIABLES
    stored,      \* rows of table Collection, on disk
    parts,       \* what else is on disk of each collection, stored or not
    open,        \* databases that are constructed
    container,   \* m_collectionContainer
    dictionary,  \* m_dictionary of the singleton
    tables,      \* per in-memory database: the key each table was created with
    vtabs,       \* per connection: the collection of each table it has used
    pool,        \* m_objects of m_dbConnectionPool
    taken,       \* connections that an open result has taken
    call,        \* the call that runs
    made,
    before       \* history: state at the start of CreateCollection

memory == <<open, container, dictionary, tables, vtabs, pool, taken>>
vars == <<stored, parts, memory, call, made, before>>

ReadWrite == 0   \* m_readWriteDBConnection
DeleteStmt == -1 \* m_deleteStmtConnection
Connections == {ReadWrite, DeleteStmt} \cup Slots
Keys == {<<DBName[d], n>> : d \in DBs, n \in Names}
Key(d, n) == <<DBName[d], n>>
Collections == [db : DBs, name : Names, made : 1..MaxMade]

\* The row of CollectionDataFile, its file, the file's size, and the row of
\* CollectionDeleteVector.
Parts == {"row", "file", "space", "vector"}

Nothing == [x \in {} |-> x]
With(f, x, y) == [z \in DOMAIN f \cup {x} |-> IF z = x THEN y ELSE f[z]]
Without(f, x) == [z \in DOMAIN f \ {x} |-> f[z]]

Idle == [op |-> "none"]
Failed == [op |-> "failed"]

-----------------------------------------------------------------------------
NoMemory ==
    /\ open' = {}
    /\ container' = [d \in DBs |-> Nothing]
    /\ dictionary' = Nothing
    /\ tables' = [s \in {ConnStr[d] : d \in DBs} |-> Nothing]
    /\ vtabs' = [d \in DBs |-> [c \in Connections |-> Nothing]]
    /\ pool' = [d \in DBs |-> <<>>]
    /\ taken' = [d \in DBs |-> {}]
    /\ call' = Idle
    /\ before' = Nothing

Init ==
    /\ stored = [d \in DBs |-> {}]
    /\ parts = [d \in DBs |-> [n \in Names |-> {}]]
    /\ open = {}
    /\ container = [d \in DBs |-> Nothing]
    /\ dictionary = Nothing
    /\ tables = [s \in {ConnStr[d] : d \in DBs} |-> Nothing]
    /\ vtabs = [d \in DBs |-> [c \in Connections |-> Nothing]]
    /\ pool = [d \in DBs |-> <<>>]
    /\ taken = [d \in DBs |-> {}]
    /\ call = Idle
    /\ made = 0
    /\ before = Nothing

Crash == NoMemory /\ UNCHANGED <<stored, parts, made>>

\* The connections of d are closed; the in-memory database goes with the last.
Disconnect(d) ==
    /\ vtabs' = [vtabs EXCEPT ![d] = [c \in Connections |-> Nothing]]
    /\ pool' = [pool EXCEPT ![d] = <<>>]
    /\ taken' = [taken EXCEPT ![d] = {}]
    /\ tables' = IF \E e \in open \ {d} : ConnStr[e] = ConnStr[d] THEN tables
                 ELSE [tables EXCEPT ![ConnStr[d]] = Nothing]

-----------------------------------------------------------------------------
(* DatabaseImpl::DatabaseImpl and ~DatabaseImpl *)

Open(d) ==
    /\ call = Idle /\ d \notin open /\ Cardinality(open) < MaxOpen
    /\ call' = [op |-> "open", db |-> d, todo |-> stored[d]]
    /\ pool' = [pool EXCEPT ![d] = [i \in 1..PoolSize |-> i]]
    /\ UNCHANGED <<stored, parts, open, container, dictionary, tables, vtabs, taken, made,
                   before>>

\* Mutant: an entry that is there stays.
InsertOnce(key, col) ==
    dictionary' = IF key \in DOMAIN dictionary THEN dictionary
                  ELSE With(dictionary, key, col)

\* DocumentCollectionDictionary::Insert
Insert(key, col) == dictionary' = With(dictionary, key, col)

\* QueryProcessor::AddCollection: the entry, then the table, whose instance on
\* this connection takes the entry.
AddCollection(d, n, col) ==
    /\ n \notin DOMAIN tables[ConnStr[d]]
    /\ Insert(Key(d, n), col)
    /\ tables' = [tables EXCEPT ![ConnStr[d]] = With(@, n, Key(d, n))]
    /\ vtabs' = [vtabs EXCEPT ![d][ReadWrite] = With(@, n, dictionary'[Key(d, n)])]

\* Mutant: the entry stays when the table is refused.
AddCollectionFailsKept(d, n, col) ==
    /\ Insert(Key(d, n), col)
    /\ UNCHANGED <<tables, vtabs>>

\* SQLite refuses the table: one of that name, a lock, a name it cannot parse.
AddCollectionFails(d, n, col) ==
    /\ dictionary' = Without(dictionary, Key(d, n))
    /\ UNCHANGED <<tables, vtabs>>

New(d, n) == [db |-> d, name |-> n, made |-> made + 1]

\* CreateCollectionInternal, which makes what is not there.  A data file that was left
\* empty cannot be mapped.  (Which data files are loaded is BlobReload's: a failing step
\* of the second query of GetExistingCollections is taken for its last row there, and
\* the collection lacks documents; neither module has that.)
LoadCollection ==
    /\ call.op = "open" /\ made < MaxMade
    /\ \E n \in call.todo :
          /\ "file" \in parts[call.db][n] => "space" \in parts[call.db][n]
          /\ parts' = [parts EXCEPT ![call.db][n] = Parts]
          /\ AddCollection(call.db, n, New(call.db, n))
          /\ container' = [container EXCEPT ![call.db] = With(@, n, New(call.db, n))]
          /\ call' = [call EXCEPT !.todo = @ \ {n}]
    /\ made' = made + 1
    /\ UNCHANGED <<stored, open, pool, taken, before>>

Opened ==
    /\ call.op = "open" /\ call.todo = {}
    /\ open' = open \cup {call.db}
    /\ call' = Idle
    /\ UNCHANGED <<stored, parts, container, dictionary, tables, vtabs, pool, taken, made,
                   before>>

\* A collection cannot be loaded or added.  The constructor throws, and what it has
\* put into the dictionary stays; on disk, a stored collection lacks nothing.
OpenFails ==
    /\ call.op = "open"
    /\ \/ UNCHANGED dictionary
       \/ \E n \in call.todo : dictionary' = Without(dictionary, Key(call.db, n))
    /\ Disconnect(call.db)
    /\ container' = [container EXCEPT ![call.db] = Nothing]
    /\ call' = Idle
    /\ UNCHANGED <<stored, parts, open, made, before>>

\* The entries of every database are cleared.  Results are closed before it.
Close(d) ==
    /\ call = Idle /\ d \in open /\ taken[d] = {}
    /\ dictionary' = Nothing
    /\ Disconnect(d)
    /\ container' = [container EXCEPT ![d] = Nothing]
    /\ open' = open \ {d}
    /\ UNCHANGED <<stored, parts, call, made, before>>

-----------------------------------------------------------------------------
(* DatabaseImpl::CreateCollection *)

CreateCollection(d, n) ==
    /\ call = Idle /\ d \in open
    /\ n \notin DOMAIN container[d]
    /\ made < MaxMade /\ made' = made + 1
    /\ call' = [op |-> "create", db |-> d, name |-> n, col |-> New(d, n)]
    /\ before' = [of |-> <<d, n>>, stored |-> stored, parts |-> parts,
                  container |-> container, tables |-> tables, vtabs |-> vtabs,
                  dictionary |-> dictionary]
    /\ UNCHANGED <<stored, parts, memory>>

\* A step of CreateCollectionInternal.  What an earlier call has left is used again.
Build(to, new) ==
    /\ call' = [call EXCEPT !.op = to]
    /\ parts' = [parts EXCEPT ![call.db][call.name] = @ \cup new]
    /\ UNCHANGED <<stored, memory, made, before>>

\* What is on disk of the collection that is being created.
Left == parts[call.db][call.name]

\* FileNameManager::GetCurrentDataFileInfo adds the first row if there is none.
RecordFile ==
    /\ call.op = "create"
    /\ Build("recorded", {"row"})

\* File::FastAllocate, its two steps, if no file of that name exists.
CreateFile ==
    /\ call.op = "recorded" /\ "file" \notin Left
    /\ Build("allocating", {"file"})

Allocate ==
    /\ call.op = "allocating"
    /\ Build("mapped", {"space"})

\* Mutant: a file that was left empty is mapped too.
MapAnyFile ==
    /\ call.op = "recorded" /\ "file" \in Left
    /\ Build("mapped", {})

\* BlobManager maps the file that exists; mmap refuses an empty one.
MapFile ==
    /\ call.op = "recorded" /\ {"file", "space"} \subseteq Left
    /\ Build("mapped", {})

\* DocumentCollection: the schema, the indexes, and the delete vector with its row at
\* the end.
Construct ==
    /\ call.op = "mapped"
    /\ Build("built", {"vector"})

\* A step of CreateCollectionInternal throws: SQLite, the file, the schema, an index.
\* Nothing of what is on disk is undone.
CreateFails ==
    /\ call.op \in {"create", "recorded", "allocating", "mapped"}
    /\ call' = Failed
    /\ UNCHANGED <<stored, parts, memory, made, before>>

CreateTable ==
    /\ call.op = "built"
    /\ AddCollection(call.db, call.name, call.col)
    /\ call' = [call EXCEPT !.op = "added"]
    /\ UNCHANGED <<stored, parts, open, container, pool, taken, made, before>>

CreateTableFails ==
    /\ call.op = "built"
    /\ AddCollectionFails(call.db, call.name, call.col)
    /\ call' = Failed
    /\ UNCHANGED <<stored, parts, open, container, pool, taken, made, before>>

\* DatabaseMetadataManager::AddCollection commits its transaction.
StoreCollection ==
    /\ call.op = "added"
    /\ call.name \notin stored[call.db]
    /\ stored' = [stored EXCEPT ![call.db] = @ \cup {call.name}]
    /\ container' = [container EXCEPT ![call.db] = With(@, call.name, call.col)]
    /\ call' = Idle /\ before' = Nothing
    /\ UNCHANGED <<parts, open, dictionary, tables, vtabs, pool, taken, made>>

\* Mutant: the entry goes, the table stays.
RemoveCollectionKeepsTable(d, n) ==
    /\ dictionary' = Without(dictionary, Key(d, n))
    /\ UNCHANGED <<tables, vtabs>>

\* QueryProcessor::RemoveCollection: dropping a table takes its instances.
RemoveCollection(d, n) ==
    /\ tables' = [tables EXCEPT ![ConnStr[d]] = Without(@, n)]
    /\ vtabs' = [e \in DBs |-> IF ConnStr[e] # ConnStr[d] THEN vtabs[e]
                               ELSE [c \in Connections |-> Without(vtabs[e][c], n)]]
    /\ dictionary' = Without(dictionary, Key(d, n))

\* The transaction fails.  (So may dropping the table: then the process ends.)
StoreFails ==
    /\ call.op = "added"
    /\ RemoveCollection(call.db, call.name)
    /\ call' = Failed
    /\ UNCHANGED <<stored, parts, open, container, pool, taken, made, before>>

\* The exception reaches the caller.
Throw ==
    /\ call = Failed
    /\ call' = Idle /\ before' = Nothing
    /\ UNCHANGED <<stored, parts, memory, made>>

-----------------------------------------------------------------------------
(* Statements *)

\* The instance of table n on connection c of d, made now if there is none.
Instance(d, c, n) ==
    IF n \in DOMAIN vtabs[d][c] THEN vtabs[d][c][n]
                                ELSE dictionary[tables[ConnStr[d]][n]]

CanPrepare(d, c, n) ==
    /\ n \in DOMAIN tables[ConnStr[d]]
    /\ n \in DOMAIN vtabs[d][c] \/ tables[ConnStr[d]][n] \in DOMAIN dictionary

Prepare(d, c, n) ==
    vtabs' = [vtabs EXCEPT ![d][c] = With(@, n, Instance(d, c, n))]

\* ObjectPool::Take gives c and leaves the rest.
Take(d, c, left) ==
    \/ pool[d] # <<>> /\ c = Last(pool[d]) /\ left = Front(pool[d])
    \/ pool[d] = <<>> /\ c \in Slots \ taken[d] /\ left = <<>>

Select(d, n) ==
    /\ call = Idle /\ d \in open
    /\ \E c \in Slots, left \in {pool[d], <<>>, SubSeq(pool[d], 1, Len(pool[d]) - 1)} :
          /\ Take(d, c, left)
          /\ CanPrepare(d, c, n)
          /\ Prepare(d, c, n)
          /\ taken' = [taken EXCEPT ![d] = @ \cup {c}]
          /\ pool' = [pool EXCEPT ![d] = left]
    /\ UNCHANGED <<stored, parts, open, container, dictionary, tables, call, made, before>>

\* ObjectPool::Return, to a pool with left in it.
Returned(d, c, left) ==
    IF Len(left) < PoolCapacity
    THEN /\ pool' = [pool EXCEPT ![d] = Append(left, c)]
         /\ UNCHANGED vtabs
    ELSE /\ pool' = [pool EXCEPT ![d] = left]
         /\ vtabs' = [vtabs EXCEPT ![d][c] = Nothing]

\* SQLite refuses the statement, for its tables or anything else.
SelectFails(d) ==
    /\ call = Idle /\ d \in open
    /\ \E c \in Slots, left \in {pool[d], <<>>, SubSeq(pool[d], 1, Len(pool[d]) - 1)} :
          /\ Take(d, c, left)
          /\ Returned(d, c, left)
    /\ UNCHANGED <<stored, parts, open, container, dictionary, tables, taken, call, made,
                   before>>

CloseResult(d) ==
    /\ call = Idle
    /\ \E c \in taken[d] :
          /\ taken' = [taken EXCEPT ![d] = @ \ {c}]
          /\ Returned(d, c, pool[d])
    /\ UNCHANGED <<stored, parts, open, container, dictionary, tables, call, made, before>>

Delete(d, n) ==
    /\ call = Idle /\ d \in open
    /\ CanPrepare(d, DeleteStmt, n)
    /\ Prepare(d, DeleteStmt, n)
    /\ UNCHANGED <<stored, parts, open, container, dictionary, tables, pool, taken, call,
                   made, before>>

Next ==
    \/ \E d \in DBs : Open(d) \/ Close(d) \/ SelectFails(d) \/ CloseResult(d)
    \/ \E d \in DBs, n \in Names :
          CreateCollection(d, n) \/ Select(d, n) \/ Delete(d, n)
    \/ LoadCollection \/ Opened \/ OpenFails
    \/ RecordFile \/ CreateFile \/ Allocate \/ MapFile \/ Construct \/ CreateFails
    \/ CreateTable \/ CreateTableFails
    \/ StoreCollection \/ StoreFails \/ Throw
    \/ Crash

Spec == Init /\ [][Next]_vars

-----------------------------------------------------------------------------
\* Every variable has its type; a pooled connection is pooled once and is not
\* taken, and the pool keeps to its capacity.
TypeOK ==
    /\ stored \in [DBs -> SUBSET Names]
    /\ parts \in [DBs -> [Names -> SUBSET Parts]]
    /\ open \in SUBSET DBs
    /\ \A d \in DBs :
          /\ DOMAIN container[d] \subseteq Names
          /\ pool[d] \in Seq(Slots) /\ Len(pool[d]) <= PoolCapacity
          /\ IsInjective(pool[d])
          /\ taken[d] \in SUBSET (Slots \ {pool[d][i] : i \in DOMAIN pool[d]})
    /\ DOMAIN dictionary \subseteq Keys
    /\ \A k \in DOMAIN dictionary : dictionary[k] \in Collections
    /\ made \in 0..MaxMade

\* Between calls, an open database has the collections that its metadata names, each
\* with a table, and the dictionary finds each of them: "DocumentCollectionDictionary
\* should have the collection after successful addition" (query_processor.cc:214).
CollectionsAgree ==
    call = Idle =>
        \A d \in open :
            /\ DOMAIN container[d] = stored[d]
            /\ DOMAIN tables[ConnStr[d]] = stored[d]
            /\ \A n \in stored[d] :
                  /\ Key(d, n) \in DOMAIN dictionary
                  /\ dictionary[Key(d, n)] = container[d][n]

\* "This collection object is shared with the DatabaseImpl object"
\* (jonoondb_vtable.cc:34): whatever connection a statement gets from the pool, and
\* whenever that connection first saw the table, its rows come from the collection
\* that the database inserts into.
SharedWithTheDatabase ==
    \A d \in open, c \in Connections :
        \A n \in DOMAIN vtabs[d][c] :
            n \in DOMAIN container[d] => vtabs[d][c][n] = container[d][n]

\* Only parts of the one collection that is being created are new on disk.
OnlyPartsAreNew ==
    \A d \in DBs, n \in Names :
        /\ before.parts[d][n] \subseteq parts[d][n]
        /\ <<d, n>> # before.of => parts[d][n] = before.parts[d][n]

\* A collection is stored whole or not at all: table Collection names it only when its
\* data file is there in full size and so is its delete vector, after crashes and after
\* creates that found parts of an earlier one; and a create that fails, at whichever
\* step, leaves no table, no instance, no row of Collection and no dictionary entry,
\* so that the name is free.  It does leave the rows of CollectionDataFile and
\* CollectionDeleteVector and the data file that it had made, of that name only.
StoredWholeOrNotAtAll ==
    /\ \A d \in DBs : \A n \in stored[d] : parts[d][n] = Parts
    /\ call = Failed =>
          /\ stored = before.stored /\ container = before.container
          /\ tables = before.tables /\ vtabs = before.vtabs
          /\ \A k \in DOMAIN dictionary :
                k \in DOMAIN before.dictionary /\ dictionary[k] = before.dictionary[k]
          /\ OnlyPartsAreNew

\* Not so: "This means we have more records in CollectionDataFile table that do not
\* have a corresponding collection record in Collection table.  This should never
\* happen" (database_metadata_manager.cc:338).  Every create that fails leaves such a
\* record; the query there joins from Collection and does not see it.
RecordsHaveTheirCollection ==
    call = Idle => \A d \in DBs, n \in Names : "row" \in parts[d][n] => n \in stored[d]

\* Not so: a create that ends between making the file and giving it its size leaves a
\* name that no later create can use.
NamesAreFree ==
    call = Idle =>
        \A d \in DBs, n \in Names :
            "file" \in parts[d][n] => "space" \in parts[d][n]

\* Every connection of an open database can use every collection of it, also one
\* that it has not used before, whatever happens to other databases: "Only clear the
\* collections for this database and not all" (database_impl.cc:119).
StatementsCanBePrepared ==
    call = Idle =>
        \A d \in open, c \in Connections :
            \A n \in DOMAIN container[d] : CanPrepare(d, c, n)
=============================================================================
