------------------------------- MODULE Cursor -------------------------------
(***************************************************************************)
(* A cursor of the virtual table (jonoondb_cursor) and the IDSequence that *)
(* pages the ids of a filtered bitmap into it, driven by SQLite: open,     *)
(* then filter once per outer row of a join, eof before every row, column  *)
(* and rowid on a row, next, and close at any time.                        *)
(*                                                                         *)
(* DocumentCollection::Filter makes a new bitmap for every call, so what   *)
(* the collection does in the meantime is not seen by an open cursor; here *)
(* a filter yields any set of ids.                                         *)
(***************************************************************************)
EXTENDS Integers, Sequences, FiniteSets, SequencesExt

CONSTANTS
    Ids,          \* ids of documents
    VectorSize,   \* VECTOR_SIZE
    Columns,
    Indexed,      \* columns that a VECTOR index has the values of
    MaxFilters    \* bound: calls of xFilter on one cursor

ASSUME CursorAssumption ==
    /\ Ids \subseteq Nat /\ IsFiniteSet(Ids)
    /\ VectorSize \in Nat \ {0}
    /\ Indexed \subseteq Columns
    /\ MaxFilters \in Nat

NoDocument == -1

VARIABLES
    state,       \* what SQLite may call next
    rest,        \* ids between m_iter and m_end
    span,        \* Current()
    index,       \* idSeq_index
    document,    \* the document that is parsed, or NoDocument
    documentID,
    filtered,    \* history: the ids of the bitmap, in order
    visited,     \* history: the rows of this pass
    answer,      \* history: the row last asked for and the one it came from
    filters

vars == <<state, rest, span, index, document, documentID, filtered, visited,
          answer, filters>>

\* A bitmap, as its iterator delivers it: ids in increasing order.
Bitmaps ==
    UNION {{s \in [1..n -> Ids] : \A i, j \in 1..n : i < j => s[i] < s[j]}
              : n \in 0..Cardinality(Ids)}

-----------------------------------------------------------------------------
Init ==
    /\ state = "closed"
    /\ rest = <<>> /\ span = <<>> /\ index = -1
    /\ document = NoDocument /\ documentID = 0
    /\ filtered = <<>> /\ visited = <<>> /\ answer = <<>>
    /\ filters = 0

Open ==
    /\ state = "closed"
    /\ state' = "open"
    /\ rest' = <<>> /\ span' = <<>> /\ index' = -1
    /\ document' = NoDocument /\ documentID' = 0
    /\ filtered' = <<>> /\ visited' = <<>> /\ answer' = <<>>
    /\ filters' = 0

Close ==
    /\ state # "closed"
    /\ state' = "closed"
    /\ UNCHANGED <<rest, span, index, document, documentID, filtered, visited,
                   answer, filters>>

\* xFilter: a new IDSequence.  idSeq_index and the document stay as the pass
\* before has left them, which may have ended anywhere.
Filter ==
    /\ state \notin {"closed", "failed"}
    /\ filters < MaxFilters /\ filters' = filters + 1
    /\ rest' \in Bitmaps
    /\ filtered' = rest'
    /\ span' = <<>>
    /\ visited' = <<>>
    /\ state' = "eof"
    /\ UNCHANGED <<index, document, documentID, answer>>

\* An operand of a type that is not supported, or of another type than the index:
\* the id sequence of the pass before stays, and SQLite ends the statement.
FilterFails ==
    /\ state \notin {"closed", "failed"}
    /\ state' = "failed"
    /\ UNCHANGED <<rest, span, index, document, documentID, filtered, visited,
                   answer, filters>>

\* Mutant: index <= m_currentVector.size() in the loop.
BatchSizeByOne == IF Len(rest) <= VectorSize THEN Len(rest) ELSE VectorSize + 1

BatchSize == IF Len(rest) < VectorSize THEN Len(rest) ELSE VectorSize

\* Mutant: the id after the batch is taken from the iterator with it.
NextVectorSkips ==
    /\ rest # <<>>
    /\ span' = SubSeq(rest, 1, BatchSize)
    /\ rest' = SubSeq(rest, BatchSize + 2, Len(rest))

\* IDSequence::Next returns true.
NextVector ==
    /\ rest # <<>>
    /\ span' = SubSeq(rest, 1, BatchSize)
    /\ rest' = SubSeq(rest, BatchSize + 1, Len(rest))

SpanHasMore == index # -1 /\ index < Len(span)

Visit(id) ==
    /\ state' = "row"
    /\ visited' = Append(visited, id)

\* xEof, on a row of the span, at the end of it, or at the end of all.
EofInSpan ==
    /\ state = "eof" /\ SpanHasMore
    /\ Visit(span[index + 1])
    /\ UNCHANGED <<rest, span, index, document, documentID, filtered, answer,
                   filters>>

EofNextVector ==
    /\ state = "eof" /\ ~SpanHasMore
    /\ NextVector
    /\ index' = 0
    /\ Visit(span'[1])
    /\ UNCHANGED <<document, documentID, filtered, answer, filters>>

EofAtEnd ==
    /\ state = "eof" /\ ~SpanHasMore
    /\ rest = <<>>
    /\ span' = <<>>
    /\ state' = "end"
    /\ UNCHANGED <<rest, index, document, documentID, filtered, visited, answer,
                   filters>>

\* xRowid, and the id that xColumn works with.
Rowid == span[index + 1]

Next ==
    /\ state = "row"
    /\ index' = index + 1
    /\ state' = "eof"
    /\ UNCHANGED <<rest, span, document, documentID, filtered, visited, answer,
                   filters>>

-----------------------------------------------------------------------------
(* xColumn: from the document that is parsed, from an index, or fetched. *)

Cached == document # NoDocument /\ documentID = Rowid

Answer(id) == answer' = <<Rowid, id>>

ColumnCached ==
    /\ state = "row"
    /\ Cached
    /\ Answer(document)
    /\ UNCHANGED <<state, rest, span, index, document, documentID, filtered,
                   visited, filters>>

\* A vector index is read at the position of the id.
ColumnIndexed ==
    /\ state = "row"
    /\ ~Cached
    /\ Indexed # {}
    /\ Answer(Rowid)
    /\ UNCHANGED <<state, rest, span, index, document, documentID, filtered,
                   visited, filters>>

\* Mutant: the id of the document fetched is not noted.
ColumnFetchedUnnoted ==
    /\ state = "row"
    /\ ~Cached
    /\ Columns \ Indexed # {}
    /\ document' = Rowid
    /\ Answer(document')
    /\ UNCHANGED <<state, rest, span, index, documentID, filtered, visited,
                   filters>>

ColumnFetched ==
    /\ state = "row"
    /\ ~Cached
    /\ Columns \ Indexed # {}
    /\ document' = Rowid /\ documentID' = Rowid
    /\ Answer(document')
    /\ UNCHANGED <<state, rest, span, index, filtered, visited, filters>>

\* BlobManager::Get throws, the statement fails and SQLite closes the cursor.
ColumnFails ==
    /\ state = "row"
    /\ ~Cached
    /\ Columns \ Indexed # {}
    /\ state' = "failed"
    /\ UNCHANGED <<rest, span, index, document, documentID, filtered, visited,
                   answer, filters>>

Step ==
    \/ Open \/ Close \/ Filter \/ FilterFails
    \/ EofInSpan \/ EofNextVector \/ EofAtEnd \/ Next
    \/ ColumnCached \/ ColumnIndexed \/ ColumnFetched \/ ColumnFails

Spec == Init /\ [][Step]_vars

-----------------------------------------------------------------------------
\* Every variable has its type; on a row, idSeq_index is inside the span, which
\* xRowid and xColumn index without a check of their own.
TypeOK ==
    /\ state \in {"closed", "open", "eof", "row", "end", "failed"}
    /\ rest \in Seq(Ids) /\ span \in Seq(Ids)
    /\ Len(span) <= VectorSize
    /\ index \in Nat \cup {-1}
    /\ state = "row" => index \in 0..(Len(span) - 1)
    /\ document \in Ids \cup {NoDocument}
    /\ documentID \in Nat
    /\ filtered \in Seq(Ids) /\ visited \in Seq(Ids)
    /\ filters \in 0..MaxFilters

\* A pass delivers the ids of its bitmap in order and each of them once, also
\* when the pass before was left in the middle of a span; at its end there is
\* none left (the boundary that ExecuteSelect_ScanForIDSeq tests).
EachRowOnce ==
    /\ state \in {"eof", "row", "end"} => IsPrefix(visited, filtered)
    /\ state = "end" => visited = filtered

\* A column is read from the document of the row it is asked for, although the
\* document that is parsed stays from row to row and from pass to pass.
ColumnIsOfTheRow == answer # <<>> => answer[1] = answer[2]
=============================================================================
