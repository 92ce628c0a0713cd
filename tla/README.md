# JonoonDB in TLA+

JonoonDB (`src/src/jonoondb_api`, `src/include/jonoondb_api`) is an embedded
document store. Documents are appended to memory-mapped data files, found
through in-memory bitmap and vector indexes, deleted by a bitmap of dead
document ids, and queried with SQL through a SQLite virtual table. The catalogue
of collections and data files is an ordinary SQLite database.

This directory holds TLA+ models of that code, TLC configurations that check
them on small instances, and proofs of the properties that matter most.

## 1. The system

### Parts, their state and operations

| part | source | state | operations |
|---|---|---|---|
| Blob store | `blob_manager.{h,cc}` | current file and its write offset, the cache of mapped files | `Put`, `MultiPut`, `Get`, `SwitchToNewDataFile`, `UnmapLRUDataFiles`; `BlobIterator` reads a file back |
| Data file catalogue | `filename_manager.{h,cc}` | table `CollectionDataFile`: per file key a name and a committed length, -1 until it is set | get the current, the next or any file's row; update a length |
| Data files | `file.h`, `memory_mapped_file.h` | files of fixed size, a mapping each, a write offset | create, allocate, map, write, `msync` |
| Document collection | `document_collection.{h,cc}` | `m_documentIDMap`: id to file key and offset | load, `Insert`, `MultiInsert`, `Filter`, fetch by id, add to the delete vector |
| Index manager | `index_manager.{h,cc}`, `document_id_generator.{h,cc}` | next document id, an indexer per index | `IndexDocuments` under a mutex, choice of an index, `Filter` |
| Column indexers | `vector_*_indexer.h`, `ewah_compressed_bitmap_indexer_*.h` | per column: a vector of values by id, or a bitmap per value | `Insert`, `Filter`, `FilterRange` |
| Delete vector | `delete_vector.{h,cc}` | SQLite row with the deleted ids, their set in memory, a cached bitmap of the live ids and its dirty flag | id deleted, documents inserted, get the bitmap |
| Bitmaps | `mama_jennies_bitmap.{h,cc}` | an EWAH bitmap (third party) | add, and, or, not, serialise |
| Virtual table | `jonoondb_vtable.cc`, `id_seq.{h,cc}` | per connection a table, per statement a cursor over a bitmap | create, connect, best index, filter, next, column, update (delete) |
| Query processor | `query_processor.{h,cc}`, `object_pool.h` | three kinds of SQLite connection to one shared in-memory database | add and remove a collection, select, delete |
| Collection dictionary | `document_collection_dictionary.{h,cc}` | process-wide map from `'db>collection'` to the collection | insert, get, remove, clear |
| Database | `database_impl.{h,cc}` | the collections | open, create a collection, insert, select, delete, close |
| Database metadata | `database_metadata_manager.{h,cc}` | tables `Collection`, `CollectionIndex` | add a collection, list the existing ones |
| Mapped-file cache | `concurrent_lru_cache.h` | file key to mapping, last use, evictable | add, find, set evictable, evict |
| Memory watcher | `database_impl.cc` | a thread, its last position among the collections, the shutdown flag | wait, evict in turn, end |
| Blob format | `blob_manager.cc`, `varint.h`, `buffer_impl.cc`, `blob_iterator.h` | a header and the bytes of each blob; the buffers of a load or a cursor | write, iterate, get |
| Documents and schemas | `flatbuffers_*.cc`, `document_utils.cc`, `document.h` | the parsed document of a reader and its sub-document | types of fields, columns of a table, values of columns |
| Result sets | `resultset_impl.{h,cc}`, `object_pool.h`, `guard_funcs.cc` | a pool of connections; per result set a connection and a statement | select, next, end |
| C API and C++ wrapper | `database.h`, `cdatabase.{h,cc}`, `jonoondb_exceptions.h` | a handle per wrapper object | construct, copy, move, assign, destruct; exceptions through statuses |
| Edges | command line interface, data generator, guards and containers of one call | per call only | conversions |

### How they interact

An insert goes database -> collection -> index manager (ids reserved, documents
indexed, one mutex) -> blob store (blobs written, flushed, length committed,
another mutex) -> id map (no mutex) -> delete vector. A query goes database ->
query processor -> SQLite -> virtual table -> `DocumentCollection::Filter`
(indexes, then the mask of live documents) -> a cursor that fetches values from
the indexers or blobs through the blob store. A delete is a query that calls
`DocumentCollection::AddToDeleteVector` once per row. On opening, the metadata
lists each collection's data files, `BlobIterator` walks them, and the documents
are indexed again in that order: **a document id is a position in the data
files**, and the delete vector, which stores ids, relies on it.

### What is hard

* Three stores without a common transaction: SQLite rows (catalogue, delete
  vector), data files, and memory. A failure or crash between any two leaves
  them apart.
* Inserts take two mutexes one after the other, and a vector without any.
  Readers take none.
* A batch may cross from one file into the next in its middle.
* The cached bitmap of live documents is rebuilt on demand.
* A process-wide dictionary shared by all databases; two-phase eviction of
  mappings while readers look them up; a watcher thread that must stop.
* Buffers, sub-documents and statements that are reused: what one document or one
  client left in them must not show in the next.
* A recursive walk over a schema that may contain itself.
* Five classes of handles, each with its own way to be copied and moved.

The full list, each at its line, is `hazards` in `PROJECT.json`.

### What makes each part correct

* Blob store and files: what was acknowledged is readable, committed and on
  stable storage; committed bytes are whole blobs; nothing committed is ever
  rewritten; a reload returns acknowledged blobs in the order of their
  acknowledgement; no crash makes the collection unreadable.
* Collection, indexes, delete vector: an id means the same document in the
  indexes, in the map, in the delete vector and, after reopening, in the files;
  inserted documents are found and deleted ones are not, ever again.
* Indexers: every indexer gives the rows that a scan would give.
* Virtual table: a cursor returns each row of the filtered bitmap once.
* Mapped-file cache: the current file is never evicted; a reader keeps its
  mapping; eviction takes the least recently used.
* Blob format: what was written is what is read, whatever a buffer held before.
* Documents: a column of a table can be read, and its value is that of the document
  asked for, or null.
* Result sets: a connection is one client's; its statement is finalized first; each
  row comes once.
* C API: a handle has one owner; a copy is a copy; what is thrown is what arrives.
* Database: a collection created is in the catalogue, the dictionary and the
  SQL schema, or in none; closing one database leaves the others working; the
  watcher terminates.

## 2. Modules

### `BlobManager` (with `BlobReload`, `BlobLog`)

Models `blob_manager.cc` (all but `Get`, see `ReaderFiles`), `filename_manager.cc`, `file.h`,
`memory_mapped_file.h`.

A data file is the set of extents `[off, blob]` written into it. `data` is what
the mappings show, `disk` the part that `msync` has reached. `rec` is
`FileDataLength` of each row: `NoRecord`, `Unset` (-1) or a length. `file` tells
a missing file from an empty one (created, not yet truncated to size) and an
allocated one. Memory is `cur` (`m_currentBlobFileInfo.fileKey`), `wo`
(`m_currentWriteOffset`), `base` (`baseOffsetInFile`), the operation with its
batch and the metadata filled so far; `pc` says which call comes next.

| actions | code |
|---|---|
| `Open`, `MapCurrent`, `Load`, `OpenThrows`, `OpenFails` | constructor 141-171, `GetCurrentDataFileInfo`, the load loop in `DocumentCollection`'s constructor |
| `CreateFile`, `TruncateFile` | `File::FastAllocate`, from the constructor and from the switch |
| `Put`, `MultiPut`, `CheckFit`, `CompressedSizeThrows` | heads of `Put` and `MultiPut` and of the loop |
| `FlushFullFile`, `GetNextDataFileInfo`, `MapNew`, `SetOldLength`, `SwapFile`, `SwitchFails` | lines 223-234 and `SwitchToNewDataFile` |
| `PutInternal`, `FlushBatch`, `WriteFails`, `SetLength`, `SetLengthFails` | lines 237-258, 187-201 |
| `Close`, `ProcessCrash`, `PowerLoss` | destructor; the environment |

`Put` is the one-element case with two differences that the model keeps: it has
nothing to flush before a switch, and its one flush is its own. Blobs are model
values with a size and an estimate (`Size`, `Estimate`); compression, headers and
varints appear through them. `Oversized` blobs are those `GetCompressedSize`
refuses (`LZ4_MAX_INPUT_SIZE`).

`BlobReload` adds what a reopening reads: `Walk` is `BlobIterator::GetNextBatch`
over one file, `Reload` the concatenation over the rows in key order
(`GetExistingCollections`). `BlobLog` is the abstract specification: one
append-only log with an uncommitted tail. `ImplementsBlobLog` maps `log` to
`Reload` and `tail` to what lies between the committed length and the write
offset of the current file.

Assumptions about the environment, each in a comment where it is used:

* The first `msync` of a file makes the file itself durable (its size and its
  directory entry); until then a power loss may leave the file missing, empty or
  allocated. SQLite's rows survive a power loss (the code sets `journal_mode =
  WAL` and `synchronous = FULL`).
* Of bytes never flushed, a power loss keeps any part, blob by blob.
* A blob fits an empty data file (`SizeAssumption`). The code does not check it.
* `MemoryMappedFile::Flush` rounds the range out to pages; the model flushes
  exactly the extents asked for, which is less.

### `DocumentCollection`

Models `document_collection.cc`, `delete_vector.cc`, `index_manager.cc`
(reserving ids and indexing) and the statement-level delete of
`jonoondb_vtable.cc` and `query_processor.cc`.

The blob store under it is its abstract form: `log` and `tail` are those of
`BlobLog`. `index` is the sequence of documents in the order of the ids they were
indexed under (all indexers at once), `idMap` is `m_documentIDMap`, `row` the
stored delete vector, `deleted`, `bitmap`, `dirty` and `nextId` its memory.
`IndexDocuments`, `CheckStartID`, `MultiPut`/`MultiPutFails`, `MapDocuments`,
`OnDocumentsInserted` are the calls of `MultiInsert` in order, one sequence per
inserting thread; `Insert` is a batch of one. `MultiPutFails` leaves whatever
`BlobManager` may leave: part of the batch in the tail, or a first part committed
by a mid-batch switch. `Filter` rebuilds the mask; `Delete` collects rows by a
scan or through an index, and `OnDocumentDeleted`/`StoreBitmapFails` store them
one by one.

`Asserts` chooses between a build that keeps `assert()` (a failing one ends the
process) and one with `NDEBUG`; the repository's CI builds both.

`DocumentStore` is the abstract specification: a set of documents that batches
enter, that documents leave one by one and for good, and in which a document stays
once its insert has returned. `ImplementsDocumentStore` maps its store to what a
reload would show (`Visible`): the log without the ids of the stored row.

Queries and deletes run while no insert does: the readers take no lock, so a
caller has to keep them apart. Appending to `m_documentIDMap` is one step, though
two threads that append at once race on the vector.

### `ReaderFiles` and `MemoryWatcher`

`ReaderFiles` models the cache of mapped files of one `BlobManager`
(`concurrent_lru_cache.h`, with `Get`, the end of `SwitchToNewDataFile` and
`UnmapLRUDataFiles`). `cache` is `m_map`, without the mappings themselves; a
reader that found its file keeps its mapping alive through its `shared_ptr`
whatever is evicted.

| actions | code |
|---|---|
| `Find`, `ReadTick`, `Use` | `ConcurrentLRUCache::Find`: the increment of `m_lastUsed`, reading it back, writing it into the entry |
| `AddMapped`, `MapFails` | lines 268-276 of `BlobManager::Get` |
| `SetEvictable`, `AddNewFile` | lines 385-391 of `SwitchToNewDataFile` |
| `StartEviction`, `Visit`, `EndScan`, `Erase`, `EndEviction` | `PerformEviction`: the scan under the shared lock, one entry per step, then the erasing under the unique lock |

The scan and the finds share the lock, so they interleave; `Add` and `Erase`
wait for them (`Exclusive`). An entry is read once per visit, where the code
reads `LastUsed` again for each comparison. The order of the unordered map is
arbitrary. `m_lastUsed` starts at 0 (the code leaves it uninitialised).

`MemoryWatcher` extends it with `DatabaseImpl::MemoryWatcherFunc` (`Lock`, `Wake`,
`CheckMemory`, `Skip`, `UnmapLRUDataFiles`, `Evicted`, `EndPass`, `StatFails`) and
the destructor (`Destroy`, `SetShutdown`, `Join`). One of `NumCollections`
collections, at position `Mine`, is the one whose cache is modelled. What
`GetProcessMemoryStats` returns is arbitrary, also after an eviction; that it
throws in a build with assertions ends the process, so `StatFails` is the build
without. The container does not change during a pass: the code does not lock it
against `CreateCollection`, and iterating over a map that rehashes has no defined
outcome.

### `Databases`

Several databases in one process: `database_impl.cc` but for the watcher,
`database_metadata_manager.cc` (`stored`), `document_collection_dictionary.cc`
(`dictionary`), `query_processor.cc` and `object_pool.h` (`pool`, `taken`), and
the part of `jonoondb_vtable.cc` that makes an instance of a table for a
connection (`vtabs`). A collection is a record of its database, its name and the
construction it stems from, so that two objects for one collection differ. On disk
it is a row of table `Collection` (`stored`) and its `parts`: the row of
`CollectionDataFile`, the data file (`"file"`, and `"space"` once it has its size) and
the row of `CollectionDeleteVector`.

| actions | code |
|---|---|
| `Open`, `LoadCollection`, `Opened`, `OpenFails`, `Close` | constructor and destructor of `DatabaseImpl` |
| `CreateCollection` | its check and the call of `CreateCollectionInternal` |
| `RecordFile`, `CreateFile`, `Allocate`, `MapFile`, `Construct`, `CreateFails` | `CreateCollectionInternal`: `GetCurrentDataFileInfo`, the two steps of `FastAllocate`, the mapping of a file that was there, the constructor of `DocumentCollection` up to `InsertEmptyDeleteVector` |
| `CreateTable`, `CreateTableFails`, `StoreCollection`, `StoreFails`, `Throw` | the rest of `CreateCollection` |

Nothing takes a part away again, not even where a failed create is undone; the next
create of that name finds and uses it. `Select` takes a connection from the pool and keeps it until
`CloseResult`; `Delete` uses a connection of its own. `AddCollection`,
`AddCollectionFails` and `RemoveCollection` are the functions of
`QueryProcessor`. One thread calls, and results are closed before their
database.

### `ColumnIndexes`, `IntegerIndexers`, `OrderedIndexers` and `Indexers`

What the indexes of a collection hold and how queries read them.
`ColumnIndexes` is the state: the documents, `vector` (`m_dataVector`) and
`bitmaps` (`m_compressedBitmaps`) of each column, with `Insert`
(`IndexManager::IndexDocuments`, which hands a document to every indexer).
`IntegerIndexers` has an operator for each function of the two integer indexers
(`EwahLT`, `EwahRange`, `VectorGT`, ...), with the rounding of doubles and the
wrapping of `val + 1` and `val - 1` of the vector index. `OrderedIndexers` has
those of doubles, strings and blobs, with the nulls that some of their loops skip,
the order of `BufferImpl` and the blob indexers' rules for operands of another
type. `Indexers` composes them: `FilterColumn` and `FilterRange` call the class
`IndexerFactory` made, `Filter` is `IndexManager::Filter` with the two buffers of
`MamaJenniesBitmap::LogicalAND`, `IsTaken` is what `jonoondb_bestindex` and
`TryGetBestIndex` take over from SQLite (`Taken` of a list of constraints), and `Select` adds the checks left to it, on
the values that `jonoondb_column` returns.

`Satisfies` is what SQL means. Values are numbers: an integer, twice a double (so
that it may have a fraction), the place of a string in the order of strings, the
place of a blob in the list `Blobs` of byte sequences, which `BufferLess` compares
byte by byte. Bitmaps are sets of ids. Doubles beyond the integers are left out
(the casts are undefined there), and so are operands of a type that the indexers
of a column are not written for: text for a number, and a number for text (which
the EWAH index asserts never comes).

### `Cursor`

A cursor of `jonoondb_vtable.cc` with the `IDSequence` of `id_seq.cc` and the
iterator of a bitmap: `Open`, `Filter` (again for each row of an outer loop),
`EofInSpan`, `EofNextVector`, `EofAtEnd` (the three ways through `jonoondb_eof`),
`Next`, `ColumnCached`, `ColumnIndexed`, `ColumnFetched` (the three ways through
`jonoondb_column`), the failures and `Close`. `state` is what SQLite may call
next. `DocumentCollection::Filter` makes a bitmap of its own for each cursor, so
that the model starts a pass with any set of ids.

### `ResultSets`

SELECTs of concurrent clients: `QueryProcessor::ExecuteSelect`, `ResultSetImpl`,
`ObjectPool` and the guards. `pool` is `m_objects` up to its index, `db` and `stmt`
the two guards of each client's result set, `consumed` its flag.

| actions | code |
|---|---|
| `OpenPool`, `OpenPoolFails`, `ClosePool` | constructor and destructor of `ObjectPool` |
| `Take`, `TakeNone`, `OpenConnection` | `ObjectPool::Take`; the missing connection is opened outside the mutex |
| `Prepare`, `PrepareFails` | constructor of `ResultSetImpl` |
| `Next` (`StepRow`, `StepDone`, `StepFails`) | `ResultSetImpl::Next` |
| `Finalize`, `Return`, `CloseConnection` | the destructors of `m_stmt` and `m_db`, `ObjectPool::Return` |

SQLite is external: a statement is prepared, in the middle of its rows, failed or
gone. That a step behind the end or behind an error starts it anew is what
`m_resultSetConsumed` is there for.

### `BlobFormat` and `BlobIterator`

One data file byte by byte. `BlobFormat` has the header: version and compression
byte, varints (`EncodeVarint`, `DecodeVarint`, `GetVarintSize`), `ReadBlobHeader`,
and the sizes `Put` reserves. Both loops over a varint are functions of the turn
(`Shifted`, the value after each; `Power`, the table of `GetVarintSize`).
`BlobIterator` writes a file with it (`Put`), loads
it in batches into one vector of buffers (`StartLoad`, `ReadCompressed`,
`ReadUncompressed`, `IndexBatch`: `GetNextBatch` and the loop in the constructor of
`DocumentCollection`) and fetches single blobs into a cursor's buffer (`Get`). A
buffer is whose memory it has, what was last put there, its length and its
capacity: `Resize`, `Window` (a buffer that points into the mapping), `Filled`.
A write into a window on the read-only mapping is `pc = "dead"`. LZ4 is external:
the compressed form of a blob carries its mark.

### `Schemas` and `Documents`

`Schemas` has the types of fields (`MapFlatbuffersToJonoonDBType`, `GetType`) and
what a dotted name leads to (`GetFieldType`, by the loop `Objects`). `IsSchema` is what
flatc guarantees of a schema. `Documents` follows one collection from
its creation to the reading of its columns:

| actions | code |
|---|---|
| `CreateIndexers` | `PopulateColumnTypes`, the constructor of `IndexManager` |
| `EnterField`, `AddColumn`, `SkipField`, `RefuseField`, `LeaveObject` | `BuildCreateTableStatement`: `stack` is its recursion, `prefixes` its list |
| `ReserveID`, `Insert`, `InsertThrows`, `InsertAborts`, `Inserted` | `IndexDocuments`, one VECTOR index after the other |
| `ReadColumn` | `jonoondb_column` by `DocumentUtils` and the cursor's sub-document |

A document is the set of its fields that are present, so that a value is the field
it was read from and `Null` is what stands for an absent one. `Levels` is the loop of
`TryGetSubDocumentRecursively`. `MaxDepth` nested calls fill the stack, which is large
enough for the tables of a schema that does not contain itself. The initial predicate
and the next-state relation are `DocumentsInit` and `DocumentsNext`, since one module of
proofs is about this and `Cursor`.

### `ApiHandles`

The C++ wrapper over the C interface. `opaque` is the handle of each variable,
`heap` the objects handles stand for, `value` the value that C++ gives each object.
Each special member of `Options` (and the like `WriteOptions`), `IndexInfo`,
`Buffer` and `ResultSet` is an action; a behaviour shows one class (`kind`).
`TranslateExceptions`, `ThrowOnError` and `Handle` carry an exception through a
status. `Clauses` is the order of the catch clauses with their codes, `Thrown` the
switch of `~ThrowOnError`. The next-state relation is `ApiNext`, since one module of
proofs is about this and `ResultSets`. Objects are used as C++ demands: not before construction,
not after destruction, and after a move only to be assigned or destructed.

## 3. Runs

| run | configuration | shows |
|---|---|---|
| `blob_files` | 2 blobs (one fills a file), 4 files, batches of 2, 3 acknowledged blobs, 1 failing call, 1 crash | files readable, acknowledged blobs durable and in order, the log implemented |
| `blob_files_oversized` | as above with refused blobs, no failing call | `AckedDurable` also then |
| `collection` | 4 documents, 2 threads, 2 failures, 1 crash, assertions on | ids keep their meaning, documents are found until deleted, the store implemented |
| `collection_release` | assertions off, 1 failure | **violation** of `StoredIdsNameTheDeleted` |
| `memory_watcher` | 2 readers, 3 files of which 2 stay mapped, 3 collections, 5 uses, 1 failing statistic | the file being written stays mapped, victims are the least recently used, round robin, closing ends, caches shrink |
| `databases` | 2 databases of one name at two paths, one open at a time, 2 collections, a pool of 1, 4 objects made | the stores agree between calls, statements reach the database's own collection, what is stored is whole on disk, failed creates are undone in memory |
| `indexers` | 3 documents, a column of each type under each kind of index and one without, integers of 2 bits, every answerable pair of constraints on an indexed column, and lists of up to 4 on several in every order | the rows selected are those SQL asks for |
| `cursor` | 5 ids, vectors of 2, every bitmap, 2 passes | each row once and in order, columns of the right document |
| `result_sets` | 3 clients, 4 connections, a pool of 1 with room for 2, 2 rows, 1 failure | connections dedicated, statements finalized before, each row once |
| `blob_iterator` | a file of 24 bytes, blobs of 1, 3 and 4 bytes, varints in base 4, batches of 2, 4 blobs | writes inside the mapping, blobs and ids read as written |
| `documents` | 4 schemas, 2 indexed columns, 2 documents, nesting up to 3, assertions on | the columns of a table are those that can be read, values of the right document, the walk ends |
| `api_handles` | 4 classes, 3 variables, 4 handles | handles have one owner, objects are values, exceptions arrive as thrown |

The following configurations are kept beside the runs. TLC refutes each, with the
counterexample that section 4 describes; the source says otherwise, or nothing. With
`TwoNames` for `OneName` in `MCDatabasesOneName`, closing one of two open databases
also refutes `StatementsCanBePrepared`.

| configuration | refutes |
|---|---|
| `MCBlobManagerUnflushed` | `CommittedFlushed`, with blobs that `GetCompressedSize` refuses |
| `MCDocumentCollectionConcurrentInserts` | `NextIdGrows`, the assertion at `delete_vector.cc:73` |
| `MCDocumentCollectionFirstInsert` | `DeletedIdsAreKnown`, the assertion at `delete_vector.cc:39` |
| `MCDatabasesOneName` | `SharedWithTheDatabase`, with two databases of one name open together |
| `MCIndexersOrEqual` | `OperandIsIncluded`, for whole doubles under a vector index |
| `MCResultSetsFinalize` | `FinalizeReturnsOk`, the assertion at `guard_funcs.cc:25` |
| `MCBlobIteratorMapping` | `MappingNeverWritten`: decompression into the read-only mapping |
| `MCDocumentsOverflow` | `NeverOverflows`, the assertion at `vector_integer_indexer.h:62` |
| `MCDocumentsEmptyBlob` | `IndexingDoesNotFail`, the comment at `document_collection.cc:103` |

Why the bounds are enough. A blob of size 2 whose estimate is 3 in files of 3
makes every second write switch, so that three acknowledged blobs cross two file
switches, one of them possibly in the middle of a batch. One failing call and one
crash at any step cover every cut between two stores; the state after the failure
is again one that operations start from, and the proofs (section 5) remove the
bounds. In `collection`, two failed inserts out of four documents leave ids
without blobs before and after acknowledged documents, and a delete of several
rows can be cut anywhere. Documents and threads are interchangeable, hence the
symmetry.

In `memory_watcher` the collection starts at file 1 with file 0 behind it and
switches to file 2: three files in a cache for two, with a switch in every place of
a scan. Two readers suffice for ticks that cross. `MaxUses` bounds the uses of
all readers and of the writer together; when it is reached, nobody finds or adds any more, and
the watcher and the destructor go on. Three collections are the fewest in which
skipping and starting anew differ.

In `indexers`, integers of two bits have a lowest, a highest, zero and a negative
one, and operands run over every half of the range; the least positive double, which
stands for null, is among the doubles, the null string among the strings, and the
blobs differ in length, in a byte and in both. Three documents make maps of three
keys, the fewest in which a loop passes one, stops at one and leaves one. The
lists of constraints in which an index that would answer is known to go wrong are left
out of the passing run, by the formula that the theorem `QueriesAnswerSql` has as its
hypothesis (`Answerable` of what `Taken` leaves to the indexes, in `Indexers`): under a vector index, `<=` the largest and `>=` the
smallest integer, where the neighbour wraps, and "or equal" to a whole double, which
is `MCIndexersOrEqual`; for blobs, a lower bound of another type (the vector index
counts null blobs above it, the EWAH index misses the last document), and under an
EWAH index `>= x''`, whose loop does not end when a blob is null.

In `cursor`, five ids in vectors of two give a last batch that is shorter, one that
is full, and a bitmap with none; the second pass starts wherever the first was left.

`databases` opens one database at a time: with two of them the destructor of one
clears the dictionary entries of both, which a comment at `database_impl.cc:119`
admits, and `CollectionsAgree` fails.

In `result_sets`, a third client finds the pool empty and opens a connection, and
gives it back to a pool that is full; one failure meets every step. In
`blob_iterator`, base 4 gives blobs of 4 bytes a size of two varint bytes, so that
both sides of that edge occur; four blobs make a second batch that reuses every slot
in each of the four ways. The schemas of `documents` are tables within tables with
a struct and a blob, a table that two fields share, a table within itself, and a type
that JonoonDB refuses one level down. In `api_handles`, three variables let a value
move on from its new place while something else is copied over the old.

Type invariants are run for `BlobManager` and `Cursor` only, where they say more
than types (offsets stay inside the mapping, reads inside the span). Those of
`DocumentCollection`, `ResultSets`, `Databases` and `MemoryWatcher` are proved
(section 5).

Deadlock is checked in every run but `indexers`, `blob_iterator` and `documents`,
which end when all documents are inserted, all blobs read or the schema is refused.

Fairness. `MemoryWatcher` and `Documents` assume some. The watcher is a thread that takes its
next step when it can (`WF_vars(Watch)`): its wait ends after five seconds by
itself, and its locks are free again when finds and adds return. A reader between
two steps of `Find` goes on. The destructor gets `m_memWatcherMutex`, which the
watcher releases for five seconds in every iteration (`SF_vars(SetShutdown)`:
the mutex is taken again and again, but always given back), and the join returns
when the thread has ended. New calls of readers and writers are not fair: they may
stop at any time. The three assumptions are used by `CloseEnds` and
`CacheShrinks`. In `Documents`, the walk over a schema is straight-line code of one
thread that waits for nothing: it takes its next step (`WF_vars` of the walk), which
`WalkEnds` uses.

Every property of a passing run has a mutant: the operator marked "Mutant", before
the definition that it stands in for.

## 4. Disagreements found

`collection_release` is a run that expects the violation, and a finding in
`PROJECT.json`:

1. A failed `MultiPut` leaves reserved ids and index entries behind
   (`document_collection.cc:114`). With `NDEBUG` ids and positions part, and a stored
   delete later hides another document, which the test at
   `database_delete_tests.cc:119` excludes. With assertions the next insert ends the
   process, and `StoredIdsNameTheDeleted` is proved (section 5).

The configurations listed after the runs show, in the same way:

2. `GetCompressedSize` throws outside the try blocks of `MultiPut`
   (`blob_manager.cc:216`): blobs of the batch that were already written are
   committed by the next operation without having been flushed.
3. Overlapping inserts can finish out of order, which `delete_vector.cc:73` asserts
   they do not.
4. A collection that never had a document does not mask what queries find
   (`document_collection.cc:149`): a DELETE reaches ids that a failed first insert
   left in the indexes, and fails the assertion at `delete_vector.cc:39`.
5. The key of the collection dictionary is the database's name without its path
   (`query_processor.cc:203`): with two databases of one name open, statements of one
   read the other's collection.
6. Closing a database clears the dictionary of all of them, as the comment at
   `database_impl.cc:119` admits: connections of another one that first use a
   collection later do not find it.
7. Under a vector index, `column <= 5.0` leaves out the rows that are 5, which the
   tests of the same constraint under other indexes expect.
8. A result set that ends after a failed step fails the assertion at
   `guard_funcs.cc:25`: SQLite reports the error of the step again when the statement
   is finalized.
9. A buffer that was a window on the mapped file and is big enough for the next
   compressed blob is decompressed into (`blob_manager.cc:337`), that is into a
   mapping that is read-only.
10. The null of a nested integer is the least 64-bit number, for a vector of 32 bits
    too, whose insert asserts that it fits (`vector_integer_indexer.h:62`).
11. A document whose blob is present and empty throws in the middle of indexing
    (`buffer_impl.cc:70`), where `document_collection.cc:103` says that it should not
    fail. Its id stays reserved, and the indexes that had it keep it.

A create of a collection that fails leaves its row of `CollectionDataFile`, its data file
and its row of `CollectionDeleteVector`, although `database_metadata_manager.cc:338` says
of records without a collection that this "should never happen"; where it ended between
making the file and giving it its size, the file is there, cannot be mapped, and no later
create of that name succeeds. `RecordsHaveTheirCollection` and `NamesAreFree` in
`Databases` say that neither is so. As INVARIANTs of `MCDatabases.cfg`, in place of those
that it has, TLC refutes both, within six steps.

Seen while modelling and left out of the models, because the outcome is undefined or
nothing in the repository says otherwise:

* A query beside an insert: the readers of the indexes, the id map and the cached
  bitmap take no lock (`index_manager.cc:139`, `delete_vector.cc:78`). A new collection
  may rehash the container that the memory watcher iterates over.
* `m_lastUsed` of the cache is never initialised (`concurrent_lru_cache.h`); it starts
  at 0 in the model.
* A single blob larger than a data file is written past the end of its mapping
  (`blob_manager.cc:184`). `FileDataLength` is read as 32 bits for the reload
  (`database_metadata_manager.cc:321`) and as 64 elsewhere.
* `val + 1` and `val - 1` overflow at the ends of the 64-bit range
  (`vector_integer_indexer.h:194`). Lower bounds of blobs of another type, and the
  loops over a bitmap index that do not step over its null key
  (`ewah_compressed_bitmap_indexer_blob.h:128`, `:205`, `:214`,
  `vector_blob_indexer.h:223`).
* Null integers and doubles are selected by the numbers that stand for them
  (`null_helpers.h:12`), though `jonoondb_column` returns them as NULL.
* The assignments of `IndexInfo` leak the handle that was there, and one that throws,
  since the type of the other was never set, has lost the value (`database.h:339`); the implicit copy of
  `Database` would destruct its handle twice; codes of `StatusImpl` that only its tests
  use differ from those of the C interface.
* `QueryProcessor::Delete` maps every failure of a DELETE to `ApiMisuse`, since
  `SQLITE_DENY` has the value of `SQLITE_ERROR`. An open result set locks the schema
  against a new collection.
* When an initial connection cannot be made, the loop that should free the earlier ones
  stops at once (`object_pool.h:59`); the model keeps them as `leaked`. Two paths that
  differ in slashes, colons and dots only become one in-memory database
  (`query_processor.cc:57`).

## 5. Proofs

All theorems hold for every value of the constants, under the modules' named
assumptions, which TLC evaluates in the runs, and under the hypotheses that a theorem
names. The assumptions bound what the models enumerate (`BoundAssumption`,
`ReaderFilesAssumption`, `DatabasesAssumption`) or say of the data what the code takes
for granted (`SizeAssumption`: a blob fits a data file; `BlobsAssumption`: the list of
blobs is in the order of their bytes; `IteratorAssumption`: a size fits a varint; `DocumentsAssumption`: schemas are such as
flatc makes, and their tables fit the stack). Each module has one
inductive invariant, or one for each group of theorems, and under each action a step
for what the action can disturb.

`BlobManagerProofs`, in four layers:

| theorem | states | hypotheses |
|---|---|---|
| `TypeCorrect` | `TypeOK` | |
| `AcknowledgedBlobsAreDurable` | `AckedDurable` | |
| `CommittedPrefixIsTiled`, `CommittedPrefixIsFlushed`, `CommittedPrefixIsKept` | `CommittedTiled`, `CommittedFlushed`, `CommittedNeverRewritten` | `Oversized = {}` |
| `OpenableAfterCrashes` | `OpenableUnlessTorn` | `Oversized = {}`, `EstimatesFit` |
| `ReloadInOrder` | `ReloadKeepsOrder` | `Oversized = {}` |
| `LogIsImplemented` | `ImplementsBlobLog` | `Oversized = {}` |

`AckedDurable` is not inductive: that a blob stays where it is depends on where the
next write goes. `Control` says, for each value of `pc`, how `rec`, `file` and the
offsets are related: the current file is recorded and allocated, its committed length
is at most `base` and `base` at most `wo`. `Acknowledged` adds that the blobs of the
batch already written lie whole between `base` and `wo` in the current file or,
flushed, below the length of the file left behind. With both, each action can only
write at or above the committed length. `Layout` says that the extents below `wo`
tile the current file, that those below `base` are flushed and that the committed
length lies between blobs. It is what fails when `GetCompressedSize` throws in the
middle of a batch (section 4), hence `Oversized = {}`.

`Chain` is for crashes: while no call has failed, every file but the last has
something flushed, so that a power loss leaves it allocated. It needs `EstimatesFit`
(no estimate exceeds a whole file): a blob whose estimate does makes the code switch
away from a file that is still empty, and TLC then finds `OpenableUnlessTorn`
violated.

The last two theorems are about what a reload reads, `Reload`, a walk from header to
header through one file after the other. Blobs have places (`Before`: the key of the
file, then the offset), and a set of blobs has at most one listing in the order of the
places (`ListedOnce`). That a walk over a tiled file lists just its blobs
(`WalkLists`), and the concatenation those of all files (`FlattenLists`), is proved by
induction over the sets of offsets and files for which it holds; the provers cannot
instantiate the library's rule, which takes an operator, but `Induction`, on a set,
follows from the well-foundedness of the order of numbers. From there the argument is
about sets. `CommittedItems` and `Pending` are what is listed by `Reload` and
`Uncommitted`. `Ordered` is inductive with `Layout`: nothing is committed behind the
current file (`CurrentIsLast`, since each switch takes a new key and a reopening the
last one); the batch under way has written the last blobs of all (`WrittenLast`); and
blobs are acknowledged in the order of their places (`AckedInOrder`). Then a step that
records a length makes `CommittedItems` what it was with `Pending`, which lies behind
it, so that the listings are concatenated; `PutInternal` adds a last blob; and every
other step leaves a front part of `Pending`, which is a beginning of its list
(`ListedFront`).

`MemoryWatcherProofs`:

* `CurrentFileStaysCached` (`CurrentFileIsCached`). The danger is what a reader or a
  scan still holds from the time when another file was current. The invariant says
  that a file somebody has missed, or has listed as a victim, is `Left`: older than
  the current one, or the current one while the writer is between making it evictable
  and adding the next. Switching on keeps that, and a current file is neither missed
  nor listed since it is cached and not evictable.
* `LeastRecentlyUsedGo` (`VictimsAreLeastRecentlyUsed`). The insertion sort of the
  scan keeps its list in order and cut at what is to be evicted; `Chosen` says that
  what the scan has visited is listed, or was used no earlier than all that is listed.
  It holds of the times that the scan read, which are kept in `seen`: readers move on
  meanwhile.
* `MaxIsLeft` (`EvictionLeavesMax`). `Counted`: the victims are distinct and no more
  than the cache had too many when the scan held the lock; until they are erased,
  under another lock, the cache only grows.
* `CollectionsTakeTurns` (`RoundRobin`). `Upcoming` computes the next position from
  `lastPos`, `currPos` and where the watcher is, over the edges of the pass; `InTurn`
  says that the positions not visited in this round are those that follow it, going
  round.
* `TypeCorrect` (`TypeOK`), for which an eviction must be one that the watcher asked
  for (`Watched`) and an entry that a reader holds must be there (`Moves`).

`DatabasesProofs`, for any number of databases, collections and connections:

* `CollectionsAreWhole` (`StoredWholeOrNotAtAll`), with any databases open. `Whole`
  says what the collection being created has on disk at each point, whether this create
  made it or an earlier one did, so that all of it is there when its row is stored;
  `DiskKeeps` that nothing is taken away and that other collections gain nothing.
  `Undone` says at each point that `RemoveCollection` leads back to the state before:
  for the tables and the instances of all connections, and for the dictionary but for
  the key of the collection itself. What is left on disk is not undone (section 4).
* `RowsOfTheDatabase` (`SharedWithTheDatabase`), where the names of the databases in
  use tell them apart (`Apart`). `Entries` and `Instances`: the dictionary and the
  instances of tables that connections keep know no other collection under the
  database's keys and tables. Without `Apart` it is false (`MCDatabasesOneName`).
* `OneDatabaseAgrees` (`CollectionsAgree`), with one database open at a time
  (`Single`), since closing one clears the dictionary of all. `Exact`: the tables of
  the database are its collections and the one being created, and each has an entry.
* `TypeCorrect`.

`CursorProofs`: `TypeCorrect`, `RowsAreDeliveredOnce` (`EachRowOnce`),
`ColumnsAreOfTheirRow` (`ColumnIsOfTheRow`), for every finite set of ids and every
`VECTOR_SIZE`. What was delivered is a prefix of the bitmap because the rest of it is
first in the span, from the row to be read next, and then behind the iterator
(`InSpan`, `Behind`, `Complete`); the parsed document is always the one noted
(`Noted`).

In the same module, about `Documents`, for every schema (`IsSchema`) of any depth, any
indexes and documents:

* `ColumnsAreRight` (`ColumnsAreTheReadable`): the columns that the walk over the schema
  lists are the names to which `GetFieldType` gives a type of SQLite, each once. `Calls`
  says that the calls on the stack go along the prefixes, each with the fields it is
  done with (`Done`); a name is `Passed` if it agrees with the prefixes up to a call
  that is done with its next token. `Listed`, the invariant: the columns are the readable
  names that are passed. A step of the loop passes the names with one more token
  (`AdvancePasses`), a call into a table passes none (`EnterPasses`), and its return
  none either: the names behind that table are passed by then, as its fields are
  (`LeavePasses`). At the end all fields of the root object are done, so that every name
  is passed (`EndLists`).
* `OverflowIsRecursion` (`OverflowsIfRecursive`), the safety half of `WalkEnds`: a stack
  that is full has a call more than there are tables, along a name that leads through
  that many (`DeepIsRecursive`).
* `ColumnsAreOfTheirDocuments` (`ColumnIsOfTheDocument`): `GetValueIsValue` is that a
  value read through a sub-document does not depend on what it held before. Each level
  that is there is the field of the document itself (`LevelsAre`), and one that is not
  ends the loop.
* `IndexesAreAsParsed` (`IndexedAsParsed`), in builds that keep `assert()`: a vector is as
  long as the documents before the one inserted, or the insert aborts (`VectorGrows`).
  Without assertions it is false, since a failed insert leaves vectors of different
  lengths (`MCDocumentsEmptyBlob`), and a null does not fit one of 32 bits
  (`MCDocumentsOverflow`).

`Objects` and `Levels` are recursive functions; that they are defined (`ObjectsExist`,
`LevelsExist`), and what holds along a name, is by `Induction` on a set.

`IndexersProofs`, for integers of any width and any documents:

* `EwahAnswersSql` and `EwahRangesAnswerSql`: each constraint and each range on a
  column of integers, doubles or strings with an EWAH index gives the rows that
  satisfy it, without further hypotheses.
* `QueriesAnswerSql` (`FilterIsSql`): a whole query, with any list of constraints on
  columns of all types and under both kinds of index or none, selects the rows SQL
  asks for. Its hypothesis is that the constraints which the indexes take are
  `Answerable`, that is, none of those that section 4 and the list after it say an
  index gets wrong; the passing run has the same hypothesis on its constants.

The invariant (`Exact` for bitmaps, and that a vector has the value of each id) is that
the bitmap of a value holds just the ids of the documents with that value, and that no
value lacks one. For each operator there is then a lemma on the values it selects, of
which the loops that end at the first value not below the operand (`SelectedLT`,
`OrderedUpTo`) are the ones to argue about; that `BufferLess` is an order is proved
from its definition on bytes. `LogicalAND` into one of two buffers is an intersection,
and by induction over the length of the list (again on a set) the loop of `Filter`
gives the intersection of its parts, a range of two constraints being one of them.

`DocumentCollectionProofs`, for builds that keep `assert()` (`ASSUME Asserts`): all
that the run `collection` checks, for any number of documents, threads, failures and
crashes: `IdsAreIndexedAsMapped`, `StoredIdsAreOfTheDeleted`, `AcknowledgedAreFound`,
`DeletedAreNotFound`, `FoundCanBeFetched`, `TypeCorrect`, and `CollectionIsAStore`,
the refinement of `DocumentStore`. The core is `Chain`: the id map is a prefix of the
log, and the log of what is indexed. It is kept because only one insert can be past
the assertion on its first id (`Reserved`: those under way have disjoint ids), and
none once an insert has failed (`Synced`, `Broken`): `MultiPut` then extends a log that
is equal to the map, by documents that are indexed at just those positions
(`LogGrows`). Each document is indexed once (`Distinct`), so that a stored id is one
document (`Deletes`); the mask is that of the ids below the next one that were not
deleted, or missing while there is none (`Live`, `MaskIsOfTheLive`). For the
refinement, what is visible is the log without the deleted (`VisibleAreTheLive`), and
each step changes at most one of the log, the acknowledged and the deleted
(`StoreStep`). In a build without assertions the second theorem is false (section 4).
That the store below is a log whose tail is committed whole or dropped is what
`LogIsImplemented` proves of `BlobManager`.

`ClientProofs`, about `ResultSets`: `ConnectionsAreDedicated`, `StatementsAreFinalized`
and `RowsAreGivenOnce`, for any number of clients, connections, rows and failures. A
client holds a connection exactly between taking and returning it (`Holding`), and the
rows given are those up to the one the statement stands on, or all (`Position`).

In the same module, about `ApiHandles`: `HandlesStayOwned` and `ObjectsStayValues`, for
any number of variables and handles. Handles that are made are new (`Objects`), and there is a status
just while an exception is one (`Statuses`). `ErrorsArrive` (`ErrorsArriveAsThrown`):
the first catch clause that takes a type is its own, or the one for its base
(`Subclasses`), and the switch in `~ThrowOnError` undoes the code it was given.

`BlobIteratorProofs`, for blobs of any sizes, any results of LZ4 and any batch size:

* `FileIsWithinMapping` (`FileWithinMapping`): `GetVarintSize` is the length of what
  `EncodeVarint` writes (`SizeOfEncoded`) and grows with its argument (`SizesGrow`), so
  that the estimate of `Put`, made before the compressed size is known, covers header,
  varints and bytes (`EstimateCovers`).
* `BlobsReadBack` (`BlobsAreReadAsWritten`): `DecodeVarint` undoes `EncodeVarint`
  wherever it is read from (`Decoded`), and `ReadBlobHeader` undoes `WriteBlobHeader`
  (`HeaderRead`). Its hypothesis, in `IteratorAssumption`, is that the size of a blob and
  LZ4's bound for it fit in a varint, as every 64-bit size does.
* `TypeCorrect` (`BuffersHoldTheirBlobs`).

The functions on varints are recursive functions, which the provers take only once they
are shown to be defined: `Induction` on a set, again, and sums of products with powers
of the base. `FileHolds` lays the file out: each blob stands where its `Put` left it,
the next one where it ends, and reading a header there gives its sizes (`WrittenIsRead`).
`Loaded` and `Batched` follow the load: the indexes have the blobs before the batch, and
the slots of the batch, whatever buffers they reuse, hold the next ones.

Only model-checked: liveness under fairness (`CloseEnds`, `CacheShrinks`, `WalkEnds`),
which is out of the provers' reach.

## 6. Plan

What is left: several indexes of one column in `Indexers`, and nulls of integers and
doubles as nulls.

## 7. Not modelled

* Third-party code kept in the repository: SQLite (two amalgamations), GoogleTest,
  FlatBuffers, LZ4, EWAH, GSL, linenoise. It is
  all but a few per cent of the C and C++ in `src/`; the models treat it by what the code
  above it relies on. The lines mapped in `PROJECT.json` are therefore a small share of
  the repository, and about half of `src/src/jonoondb_api` and
  `src/include/jonoondb_api`; what remains of those two directories is declarations,
  argument checks, SQL text, and code that calls and converts.
* The command line interface and the data generator: parsing and printing, with no
  state of the database.
* Guards, containers and value classes that live for one call.
* Readers that run beside inserts: a data race has no defined outcome. The models keep
  whole inserts and queries apart where the code does not.
* `next_vec` and `column_vec` of the virtual table, which are registered nowhere, and
  the move assignment of `ResultSetImpl`, which nothing calls.
* `FileNameManager::GetFileInfo`, a lookup of names that never change.
* The second query of `GetExistingCollections` (`database_metadata_manager.cc:306`), when
  a step of it fails: the listing of data files ends there as at its last row, and
  collections are opened without their documents. The first query checks how it ended,
  so that the set of collections itself is never short.
* Data files of one name: with databases at one path, `a` with the collection `b_c` and
  `a_b` with `c` would share a file. The model gives each collection its own.
