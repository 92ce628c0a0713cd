------------------------------ MODULE Documents ------------------------------
(***************************************************************************)
(* From a schema to the values of its columns.  A collection is created:   *)
(* the types of the indexed columns are looked up (PopulateColumnTypes)    *)
(* and BuildCreateTableStatement walks the schema for the columns of its   *)
(* table.  Documents are inserted into the VECTOR indexes, one index after *)
(* the other, and columns are read through DocumentUtils, where nested     *)
(* fields go by a sub-document that each reader allocates once and uses    *)
(* for all documents.                                                      *)
(*                                                                         *)
(* A document is the set of the fields that are present in it, and those   *)
(* of its blobs that are present and empty; a value is the field it was    *)
(* read from.  Documents are well formed (they pass Verify).  A null is a  *)
(* number to an index: INT64's minimum does not fit a vector of 32 bits.   *)
(***************************************************************************)
EXTENDS Schemas

CONSTANTS
    AllSchemas,  \* schemas of which the collection has one
    MaxDepth,    \* bound: nested calls before the stack is full
    MaxIndexes,  \* bound: indexed columns
    MaxDocs,     \* bound: documents
    Asserts      \* TRUE in a build that keeps assert()

ASSUME DocumentsAssumption ==
    /\ MaxDepth \in Nat \ {0} /\ MaxIndexes \in Nat /\ MaxDocs \in Nat
    /\ Asserts \in BOOLEAN
    /\ \A s \in AllSchemas :
          IsSchema(s) /\ Cardinality(DOMAIN s.fields) <= MaxDepth

VARIABLES
    schema,
    pc,        \* where creating the collection or inserting a document is
    stack,     \* calls of BuildCreateTableStatement: object and next field
    prefixes,  \* prefixes
    columns,   \* columnNames: name and type of each
    indexers,  \* names of the indexed columns, in the order of the map
    docs,      \* history: the documents that ids were reserved for
    failed,    \* history: ids of those whose insert threw
    vector,    \* m_dataVector of each indexer
    at,        \* how many indexers have the document that is inserted
    sub,       \* m_subDoc of each indexer, and the cursor's subDocument
    columnRead \* history: the column last read, and its value

documentsVars == <<schema, pc, stack, prefixes, columns, indexers, docs, failed,
                   vector, at, sub, columnRead>>
data == <<docs, failed, vector, at, sub, columnRead>>

CursorOwner == <<"cursor">>
Names  == {f.name : f \in UNION {ToSet(schema.fields[o]) : o \in DOMAIN schema.fields}}
Paths  == SeqOf(Names, MaxDepth) \ {<<>>}
Kind(path) == GetFieldType(schema, path)

-----------------------------------------------------------------------------
(* Documents of the schema, and the value a column should have. *)

Documents ==
    LET Known == {p \in Paths : Kind(p) \in ColumnTypes \cup {"COMPLEX"}}
        InStruct(p) == ObjectAt(schema, Front(p)) \in schema.structs
    IN  UNION {{[present |-> ps, empty |-> es]
                   : es \in SUBSET {p \in ps : Kind(p) = "BLOB"}}
                 : ps \in {ps \in SUBSET Known :
                     \A p \in Known : Len(p) > 1 =>
                        /\ p \in ps => Front(p) \in ps
                        /\ Front(p) \in ps /\ InStruct(p) => p \in ps}}

Result(is, id, path) == [is |-> is, id |-> id, path |-> path]
Null == Result("null", 0, <<>>)
Zero == Result("zero", 0, <<>>)

\* The value of a field whose parent is there: strings and blobs can be null,
\* a number that is absent has its default.
ValueOfField(id, path) ==
    IF path \in docs[id].empty THEN Result("empty", id, path)
    ELSE IF path \in docs[id].present THEN Result("value", id, path)
    ELSE IF Kind(path) \in {"STRING", "BLOB"} THEN Null
    ELSE Result("default", 0, path)

Value(id, path) ==
    IF \A n \in 1..(Len(path) - 1) : SubSeq(path, 1, n) \in docs[id].present
    THEN ValueOfField(id, path) ELSE Null

-----------------------------------------------------------------------------
(* FlatbuffersDocument and DocumentUtils. *)

\* A document or sub-document: the object m_obj, and where m_table is.
Node(object, id, path) == [object |-> object, id |-> id, path |-> path]
NoNode == Node(NoObject, 0, <<>>)
RootNode(id) == Node(Root, id, <<>>)

\* TryGetDocumentValue, of a document into a sub-document.
TryGetDocumentValue(node, name) ==
    LET path == Append(node.path, name)
    IN  [ok |-> path \in docs[node.id].present,
         node |-> Node(LookupByKey(schema, node.object, name).object, node.id, path)]

\* TryGetSubDocumentRecursively: subDoc is overwritten level by level, and is
\* left where it came to if the next level is null.
Levels(id, tokens, subDoc) ==
    LET level[n \in 0..(Len(tokens) - 1)] ==
            IF n = 0 THEN [ok |-> TRUE, node |-> subDoc]
            ELSE LET before == level[n - 1]
                     parent == IF n = 1 THEN RootNode(id) ELSE before.node
                     next   == TryGetDocumentValue(parent, tokens[n])
                 IN  IF before.ok /\ next.ok THEN next
                     ELSE [ok |-> FALSE, node |-> before.node]
    IN  level

TryGetSubDocument(id, tokens, subDoc) ==
    Levels(id, tokens, subDoc)[Len(tokens) - 1]

\* Mutant: what TryGetSubDocumentRecursively returns is not looked at.
GetValueUnchecked(id, tokens, subDoc) ==
    LET r == TryGetSubDocument(id, tokens, subDoc)
    IN  IF Len(tokens) = 1 THEN [value |-> ValueOfField(id, tokens), sub |-> subDoc]
        ELSE IF r.node = NoNode THEN [value |-> Null, sub |-> r.node]
        ELSE [value |-> ValueOfField(r.node.id, Append(r.node.path, Last(tokens))),
              sub |-> r.node]

\* GetIntegerValue and its three likes; the parent of the field is null, or
\* the field is read from it.
GetValue(id, tokens, subDoc) ==
    LET r == TryGetSubDocument(id, tokens, subDoc)
    IN  IF Len(tokens) = 1 THEN [value |-> ValueOfField(id, tokens), sub |-> subDoc]
        ELSE IF ~r.ok THEN [value |-> Null, sub |-> r.node]
        ELSE [value |-> ValueOfField(r.node.id, Append(r.node.path, Last(tokens))),
              sub |-> r.node]

-----------------------------------------------------------------------------
DocumentsInit ==
    /\ schema \in AllSchemas
    /\ pc = "types"
    /\ stack = <<>> /\ prefixes = <<>> /\ columns = <<>> /\ indexers = <<>>
    /\ docs = <<>> /\ failed = {} /\ vector = <<>> /\ at = 0
    /\ sub = <<>> /\ columnRead = <<>>

\* The constructor of DocumentCollection: GetFieldType of the indexed columns,
\* and an indexer for each, if it has a kind for the type.
CreateIndexers ==
    /\ pc = "types"
    /\ \E n \in 0..MaxIndexes : \E names \in [1..n -> Paths] :
          /\ IsInjective(names)
          /\ indexers' = names
          /\ IF \A i \in 1..n : Kind(names[i]) \in ColumnTypes
             THEN /\ pc' = "table"
                  /\ stack' = <<[object |-> Root, next |-> 1]>>
                  /\ vector' = [i \in 1..n |-> <<>>]
                  /\ sub' = [o \in ToSet(names) \cup {CursorOwner} |-> NoNode]
             ELSE pc' = "refused" /\ UNCHANGED <<stack, vector, sub>>
    /\ UNCHANGED <<schema, prefixes, columns, docs, failed, at, columnRead>>

-----------------------------------------------------------------------------
(* BuildCreateTableStatement, and the same loop over the root object. *)

Frame == Last(stack)
Field == schema.fields[Frame.object][Frame.next]
InTable == pc = "table" /\ Frame.next <= Len(schema.fields[Frame.object])
Advanced == [stack EXCEPT ![Len(stack)].next = @ + 1]

\* A table or a struct: a call of its own.
EnterField ==
    /\ InTable /\ GetType(Field) = "COMPLEX"
    /\ IF Len(stack) = MaxDepth
       THEN pc' = "overflow" /\ UNCHANGED <<stack, prefixes>>
       ELSE /\ prefixes' = Append(prefixes, Field.name)
            /\ stack' = Append(Advanced, [object |-> Field.object, next |-> 1])
            /\ UNCHANGED pc
    /\ UNCHANGED <<schema, columns, indexers, data>>

\* Mutant: the loop does not go on to the next field.
SkipFieldStays ==
    /\ InTable /\ GetType(Field) \in {"UNION", "VECTOR"}
    /\ UNCHANGED documentsVars

\* Unions and vectors cannot be queried.
SkipField ==
    /\ InTable /\ GetType(Field) \in {"UNION", "VECTOR"}
    /\ stack' = Advanced
    /\ UNCHANGED <<schema, pc, prefixes, columns, indexers, data>>

AddColumn ==
    /\ InTable /\ GetType(Field) \in ColumnTypes
    /\ columns' = Append(columns, [tokens |-> Append(prefixes, Field.name),
                                   type |-> GetType(Field)])
    /\ stack' = Advanced
    /\ UNCHANGED <<schema, pc, prefixes, indexers, data>>

\* GetType throws.
RefuseField ==
    /\ InTable /\ GetType(Field) = "throws"
    /\ pc' = "refused"
    /\ UNCHANGED <<schema, stack, prefixes, columns, indexers, data>>

\* Mutant: the caller's prefix stays.
LeaveObjectKeepsPrefix ==
    /\ pc = "table" /\ ~InTable
    /\ IF Len(stack) = 1 THEN pc' = "open" /\ UNCHANGED stack
       ELSE stack' = Front(stack) /\ UNCHANGED pc
    /\ UNCHANGED <<schema, prefixes, columns, indexers, data>>

\* The end of the loop takes the caller's prefix off.
LeaveObject ==
    /\ pc = "table" /\ ~InTable
    /\ IF Len(stack) = 1 THEN pc' = "open" /\ UNCHANGED <<stack, prefixes>>
       ELSE stack' = Front(stack) /\ prefixes' = Front(prefixes) /\ UNCHANGED pc
    /\ UNCHANGED <<schema, columns, indexers, data>>

-----------------------------------------------------------------------------
(* IndexDocuments, of one document. *)

ReserveID ==
    /\ pc = "open" /\ Len(docs) < MaxDocs
    /\ \E d \in Documents : docs' = Append(docs, d)
    /\ at' = 0
    /\ pc' = "index"
    /\ UNCHANGED <<schema, stack, prefixes, columns, indexers, failed, vector,
                   sub, columnRead>>

Column == indexers[at + 1]
Read == GetValue(Len(docs), Column, sub[Column])

\* Mutant: the values of a vector need not be next to each other.
AlignedOrShort == Len(vector[at + 1]) <= Len(docs) - 1

\* "assert(m_dataVector.size() == documentID)"
Aligned == Len(vector[at + 1]) = Len(docs) - 1

\* The casts of VectorIntegerIndexer<int32_t> and its asserts; a null is the
\* least number of 64 bits, of which 32 are zero.
Overflows == Kind(Column) = "INT32" /\ Read.value = Null
Stored    == IF Overflows THEN Zero ELSE Read.value

\* BufferImpl's constructor refuses an address without a length.
IndexThrows == Read.value.is = "empty"

Insert ==
    /\ pc = "index" /\ at < Len(indexers)
    /\ Asserts => Aligned /\ ~Overflows
    /\ ~IndexThrows
    /\ vector' = [vector EXCEPT ![at + 1] = Append(@, Stored)]
    /\ sub' = [sub EXCEPT ![Column] = Read.sub]
    /\ at' = at + 1
    /\ UNCHANGED <<schema, pc, stack, prefixes, columns, indexers, docs, failed,
                   columnRead>>

\* The indexers before this one keep the document; its id is not given back.
InsertThrows ==
    /\ pc = "index" /\ at < Len(indexers)
    /\ Asserts => Aligned
    /\ IndexThrows
    /\ failed' = failed \cup {Len(docs)}
    /\ sub' = [sub EXCEPT ![Column] = Read.sub]
    /\ pc' = "open"
    /\ UNCHANGED <<schema, stack, prefixes, columns, indexers, docs, vector, at,
                   columnRead>>

InsertAborts ==
    /\ pc = "index" /\ at < Len(indexers)
    /\ Asserts /\ ~(Aligned /\ ~Overflows)
    /\ pc' = "aborted"
    /\ UNCHANGED <<schema, stack, prefixes, columns, indexers, data>>

Inserted ==
    /\ pc = "index" /\ at = Len(indexers)
    /\ pc' = "open"
    /\ UNCHANGED <<schema, stack, prefixes, columns, indexers, data>>

\* xColumn of the cursor, from the document itself.
ReadColumn ==
    /\ pc = "open"
    /\ \E id \in DOMAIN docs \ failed : \E c \in DOMAIN columns :
          LET r == GetValue(id, columns[c].tokens, sub[CursorOwner])
          IN  /\ columnRead' = <<id, columns[c].tokens, r.value>>
              /\ sub' = [sub EXCEPT ![CursorOwner] = r.sub]
    /\ UNCHANGED <<schema, pc, stack, prefixes, columns, indexers, docs, failed,
                   vector, at>>

DocumentsNext ==
    \/ CreateIndexers
    \/ EnterField \/ SkipField \/ AddColumn \/ RefuseField \/ LeaveObject
    \/ ReserveID \/ Insert \/ InsertThrows \/ InsertAborts \/ Inserted
    \/ ReadColumn

DocumentsSpec ==
    /\ DocumentsInit /\ [][DocumentsNext]_documentsVars
    /\ WF_documentsVars(LeaveObject \/ EnterField \/ SkipField \/ AddColumn
                        \/ RefuseField)

-----------------------------------------------------------------------------
\* The table has a column for each name that GetFieldType, by which an index is
\* accepted, gives a type that SQLite has, of that type, and no column twice:
\* two walks over the schema that know nothing of each other agree.
ColumnsAreTheReadable ==
    pc = "open" =>
        /\ ToSet(columns) = {[tokens |-> p, type |-> Kind(p)]
                               : p \in {p \in Paths : Kind(p) \in ColumnTypes}}
        /\ IsInjective(columns)

\* The walk ends, with a table or an error; it runs out of stack only for a
\* table that is a part of itself.
WalkEnds ==
    /\ pc = "table" ~> pc \in {"open", "refused", "overflow"}
    /\ [](pc = "overflow" => Recursive(schema))

\* A column has the value of its own row and field, or null if a table that
\* it is in is absent, whatever document the sub-document was last used for.
ColumnIsOfTheDocument ==
    columnRead # <<>> => columnRead[3] = Value(columnRead[1], columnRead[2])

\* What a VECTOR index holds under an id is what the document itself says, also
\* after an insert that some indexers have seen and others have not.
IndexedAsParsed ==
    \A i \in DOMAIN vector : \A id \in DOMAIN vector[i] :
        vector[i][id] = Value(id, indexers[i])

\* "So we should never get a overflow situation for int32_t",
\* vector_integer_indexer.h:62.
NeverOverflows == pc = "index" /\ at < Len(indexers) => ~Overflows

\* "Indexing should not fail", document_collection.cc:103.
IndexingDoesNotFail == failed = {}
=============================================================================
