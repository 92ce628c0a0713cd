---------------------------- MODULE ColumnIndexes ----------------------------
(***************************************************************************)
(* What the indexes of a collection hold.  A column has an EWAH index, a   *)
(* bitmap of ids for each of its values; or a VECTOR index, its values by  *)
(* id; or none.  A bitmap is the set of its ids.                           *)
(*                                                                         *)
(* A value is a number: an integer itself, a double twice its value (so    *)
(* that it can have a fraction), a string its place in the order of        *)
(* strings, and a blob its place in Blobs, a list of the contents of blobs *)
(* in SQL's order.  The operand of a constraint is twice its value if it   *)
(* is a number, and a place like that if not; a double lies within the     *)
(* range of the integers (beyond it, the code's casts are undefined).      *)
(***************************************************************************)
EXTENDS Integers, Sequences

CONSTANTS
    Columns,
    Type,            \* of the values of each column
    Kind,            \* of the first index of each column
    Width,           \* bits of an integer: 64 in the code
    Blobs,           \* the contents of each blob: a sequence of bytes
    Documents,       \* what is inserted: the value of each column
    Queries,         \* WHERE clauses: sequences of constraints, a conjunction
    MaxDocs          \* bound: documents inserted

MinInt == -(2^(Width - 1))
MaxInt == 2^(Width - 1) - 1

\* JONOONDB_NULL_STR, four zero bytes: the string right after the empty one, which
\* has place 0.  A blob is null if it is empty.
NullString == 1
IsNullBlob(b) == Blobs[b] = <<>>

LowerOps == {"GREATER_THAN", "GREATER_THAN_EQUAL"}
UpperOps == {"LESS_THAN", "LESS_THAN_EQUAL"}
Ops == {"EQUAL"} \cup LowerOps \cup UpperOps

\* SQL's order of blobs: by the first byte that differs, a prefix first.
BlobBefore(a, b) ==
    \E i \in DOMAIN b :
        /\ \A j \in 1..(i - 1) : j \in DOMAIN a /\ a[j] = b[j]
        /\ i \in DOMAIN a => a[i] < b[i]

Types == {"INTEGER", "DOUBLE", "STRING", "BLOB"}

\* The types of operands that the indexers of a type of column are written for.
OperandTypes(type) ==
    CASE type \in {"INTEGER", "DOUBLE"} -> {"INTEGER", "DOUBLE"}
      [] type = "STRING"                -> {"STRING"}
      [] type = "BLOB"                  -> Types

\* SQLite may give xBestIndex a constraint that it cannot use in this plan, as one
\* that compares with a column of a table still to be joined.
Constraint == [column : Columns, op : Ops, type : Types, operand : Int, usable : BOOLEAN]

Constraints == UNION {{cs[i] : i \in DOMAIN cs} : cs \in Queries}

ASSUME ColumnsAssumption ==
    /\ Type \in [Columns -> Types] /\ Kind \in [Columns -> {"EWAH", "VECTOR", "NONE"}]
    /\ Width \in Nat \ {0} /\ MaxDocs \in Nat
    /\ Documents \subseteq [Columns -> Int]
    /\ \A doc \in Documents, col \in Columns :
          /\ Type[col] = "INTEGER" => doc[col] \in MinInt..MaxInt
          /\ Type[col] = "BLOB" => doc[col] \in DOMAIN Blobs

ASSUME ConstraintsAssumption ==
    \A c \in Constraints :
        /\ c \in Constraint /\ c.type \in OperandTypes(Type[c.column])
        /\ c.type = "INTEGER" => c.operand % 2 = 0
        /\ Type[c.column] = "INTEGER" => c.operand \in (2 * MinInt)..(2 * MaxInt)
        \* Copied from a C string, so it ends before its first zero byte.
        /\ c.type = "STRING" => c.operand # NullString
        /\ c.type = "BLOB" => c.operand \in DOMAIN Blobs

ASSUME BlobsAssumption ==
    /\ Blobs \in Seq(Seq(0..255))
    /\ \A p, q \in DOMAIN Blobs : p < q => BlobBefore(Blobs[p], Blobs[q])

VARIABLES
    docs,     \* history: the values of the documents, by id from 1
    vector,   \* m_dataVector of each VECTOR column
    bitmaps   \* m_compressedBitmaps of each EWAH column

vars == <<docs, vector, bitmaps>>

Ids == 1..Len(docs)

-----------------------------------------------------------------------------
Init ==
    /\ docs = <<>>
    /\ vector = [c \in Columns |-> <<>>]
    /\ bitmaps = [c \in Columns |-> [v \in {} |-> {}]]

\* The bitmap of value v gets id; a value seen first gets a bitmap of its own.
AddToBitmap(bms, v, id) ==
    [k \in DOMAIN bms \cup {v} |->
        (IF k \in DOMAIN bms THEN bms[k] ELSE {}) \cup (IF k = v THEN {id} ELSE {})]

\* IndexDocuments hands the document to the index of every column.
Insert ==
    /\ Len(docs) < MaxDocs
    /\ \E doc \in Documents :
          /\ docs' = Append(docs, doc)
          /\ vector' = [c \in Columns |->
                IF Kind[c] = "VECTOR" THEN Append(vector[c], doc[c]) ELSE vector[c]]
          /\ bitmaps' = [c \in Columns |->
                IF Kind[c] = "EWAH" THEN AddToBitmap(bitmaps[c], doc[c], Len(docs) + 1)
                                    ELSE bitmaps[c]]

Next == Insert
Spec == Init /\ [][Next]_vars

-----------------------------------------------------------------------------
\* The keys of the map of an EWAH column, and the ids with one of some keys.
Values(c)   == DOMAIN bitmaps[c.column]
OrOf(c, vs) == UNION {bitmaps[c.column][v] : v \in vs}
=============================================================================
