------------------------------ MODULE Indexers ------------------------------
(***************************************************************************)
(* IndexManager over the indexes of all columns, and the virtual table's   *)
(* xBestIndex, which gives it the constraints of a WHERE clause.  SQLite   *)
(* trusts what the indexes return: xBestIndex sets "omit" for every        *)
(* constraint it gives them, and no row is checked again.                  *)
(*                                                                         *)
(* The number that stands for a null integer or double is a number like    *)
(* the others here, as it is for the indexers.                             *)
(***************************************************************************)
EXTENDS IntegerIndexers, OrderedIndexers

\* IndexerFactory::CreateIndexer: a class for each kind and type.
Class(col) == <<Kind[col], Type[col]>>

FilterColumn(c) ==
    LET class == Class(c.column) IN
    CASE class = <<"EWAH", "INTEGER">>   -> EwahFilter(c)
      [] class = <<"EWAH", "DOUBLE">>    -> EwahDouble(c)
      [] class = <<"EWAH", "STRING">>    -> EwahString(c)
      [] class = <<"EWAH", "BLOB">>      -> EwahBlob(c)
      [] class = <<"VECTOR", "INTEGER">> -> VectorFilter(c)
      [] class = <<"VECTOR", "DOUBLE">>  -> VectorDouble(c)
      [] class = <<"VECTOR", "STRING">>  -> VectorString(c)
      [] class = <<"VECTOR", "BLOB">>    -> VectorBlob(c)

FilterRange(lower, upper) ==
    LET class == Class(lower.column) IN
    CASE class = <<"EWAH", "INTEGER">>   -> EwahRange(lower, upper)
      [] class = <<"EWAH", "DOUBLE">>    -> EwahDoubleRange(lower, upper)
      [] class = <<"EWAH", "STRING">>    -> EwahStringRange(lower, upper)
      [] class = <<"EWAH", "BLOB">>      -> EwahBlobRange(lower, upper)
      [] class = <<"VECTOR", "INTEGER">> -> VectorRange(lower, upper)
      [] class = <<"VECTOR", "DOUBLE">>  -> VectorDoubleRange(lower, upper)
      [] class = <<"VECTOR", "STRING">>  -> VectorStringRange(lower, upper)
      [] class = <<"VECTOR", "BLOB">>    -> VectorBlobRange(lower, upper)

-----------------------------------------------------------------------------
(* IndexManager::Filter *)

\* A lower bound and, right behind it, an upper bound of the same column.
IsRange(cs, i) ==
    /\ i < Len(cs)
    /\ cs[i].column = cs[i + 1].column
    /\ cs[i].op \in LowerOps /\ cs[i + 1].op \in UpperOps

\* The bitmaps of the constraints from the i-th on.
Parts(cs) ==
    LET from[i \in 1..(Len(cs) + 2)] ==
            IF i > Len(cs) THEN <<>>
            ELSE IF IsRange(cs, i) THEN <<FilterRange(cs[i], cs[i + 1])>> \o from[i + 2]
            ELSE <<FilterColumn(cs[i])>> \o from[i + 1]
    IN  from[1]

\* MamaJenniesBitmap::LogicalAND returns one of its two buffers, by the flipper.
Result(flips, b1, b2) == IF flips % 2 = 0 THEN b1 ELSE b2

\* It ANDs into b2 and b1 in turn.  (It stops at an empty bitmap, which further
\* ANDs would leave empty.)
LogicalAND(bms) ==
    LET buffers[i \in 1..Len(bms)] ==
            IF i = 1 THEN [b1 |-> {}, b2 |-> {}]
            ELSE LET old == buffers[i - 1]
                     combined == IF i = 2 THEN bms[1] ELSE Result(i - 2, old.b1, old.b2)
                 IN  IF i % 2 = 0 THEN [old EXCEPT !.b2 = bms[i] \cap combined]
                                  ELSE [old EXCEPT !.b1 = bms[i] \cap combined]
    IN  IF Len(bms) = 0 THEN {}
        ELSE IF Len(bms) = 1 THEN bms[1]
        ELSE Result(Len(bms) - 1, buffers[Len(bms)].b1, buffers[Len(bms)].b2)

Filter(cs) == LogicalAND(Parts(cs))

-----------------------------------------------------------------------------
(* A SELECT *)

\* SQL's comparison: never true of a null; a blob is greater than anything else.
Satisfies(v, c) ==
    LET n == IF Type[c.column] = "INTEGER" THEN 2 * v ELSE v
    IN  /\ ~(Type[c.column] = "STRING" /\ v = NullString)
        /\ ~(Type[c.column] = "BLOB" /\ IsNullBlob(v))
        /\ IF Type[c.column] = "BLOB" /\ c.type # "BLOB" THEN c.op \in LowerOps
           ELSE CASE c.op = "EQUAL"              -> n = c.operand
                  [] c.op = "LESS_THAN"          -> n < c.operand
                  [] c.op = "LESS_THAN_EQUAL"    -> n <= c.operand
                  [] c.op = "GREATER_THAN"       -> n > c.operand
                  [] c.op = "GREATER_THAN_EQUAL" -> n >= c.operand

\* The constraints that xBestIndex takes, and marks "omit": the usable ones on
\* columns with an index (TryGetBestIndex).  Without any, xFilter asks for every
\* document.
IsTaken(c) == c.usable /\ Kind[c.column] # "NONE"

Taken(cs) ==
    LET upTo[i \in 0..Len(cs)] ==
            IF i = 0 THEN <<>>
            ELSE IF IsTaken(cs[i]) THEN Append(upTo[i - 1], cs[i])
            ELSE upTo[i - 1]
    IN  upTo[Len(cs)]

Scan(cs) ==
    LET taken == Taken(cs)
    IN  IF taken = <<>> THEN Ids ELSE Filter(taken)

\* TryGetIntegerValue and its like: a VECTOR index has the value at hand.
HasValue(col, id) == Kind[col] = "VECTOR" /\ id \in DOMAIN vector[col]

\* xColumn takes the value from there, or else from the document.
ColumnValue(col, id) == IF HasValue(col, id) THEN vector[col][id] ELSE docs[id][col]

\* SQLite checks the other constraints on each row of the scan.
Select(cs) ==
    {id \in Scan(cs) :
        \A i \in DOMAIN cs :
            IsTaken(cs[i]) \/ Satisfies(ColumnValue(cs[i].column, id), cs[i])}

-----------------------------------------------------------------------------
(* What the indexes are known to get wrong. *)

\* A vector of integers: the neighbour of an integer at the end of the range, and
\* "or equal" to a whole double.
IsWrongInteger(c) ==
    /\ Class(c.column) = <<"VECTOR", "INTEGER">>
    /\ \/ c.op = "LESS_THAN_EQUAL" /\ c.type = "INTEGER" /\ c.operand = 2 * MaxInt
       \/ c.op = "GREATER_THAN_EQUAL" /\ c.type = "INTEGER" /\ c.operand = 2 * MinInt
       \/ /\ c.op \in {"LESS_THAN_EQUAL", "GREATER_THAN_EQUAL"}
          /\ c.type = "DOUBLE" /\ c.operand % 2 = 0

\* Blobs: a lower bound of another type, above which a vector has the null blobs and
\* bitmaps lack the last document; and with bitmaps, ">=" the null blob, a loop that
\* does not end at the null key.  A range whose upper bound is of another type has no
\* rows, and none is found; a range of a vector ignores a lower bound of another type.
IsWrongBlob(cs, i) ==
    LET c == cs[i] IN
    /\ Type[c.column] = "BLOB" /\ c.op \in LowerOps
    /\ ~(IsRange(cs, i) /\ cs[i + 1].type # "BLOB")
    /\ \/ c.type # "BLOB" /\ (Kind[c.column] = "VECTOR" => ~IsRange(cs, i))
       \/ /\ Kind[c.column] = "EWAH" /\ c.op = "GREATER_THAN_EQUAL"
          /\ IsNullBlob(c.operand)

\* Constraints that the indexes are able to answer.
Answerable(cs) ==
    \A i \in DOMAIN cs : ~IsWrongInteger(cs[i]) /\ ~IsWrongBlob(cs, i)

-----------------------------------------------------------------------------
\* For every conjunction of constraints the rows selected are those that satisfy
\* them all: whatever the types of columns and operands, at the ends of the integer
\* range, with nulls among the strings and blobs, whichever columns have an index
\* and whichever constraints it gets, and however constraints are joined into ranges.
FilterIsSql ==
    \A cs \in Queries :
        Select(cs) = {id \in Ids : \A i \in DOMAIN cs : Satisfies(docs[id][cs[i].column], cs[i])}

\* Under every kind of index, the integers that are <= (or >=) an operand include
\* the ones equal to it, as Execute_ExecuteSelect_LT_LTE_Test expects
\* (database_tests.cc:784).
OperandIsIncluded ==
    \A c \in Constraints :
        c.op \in {"LESS_THAN_EQUAL", "GREATER_THAN_EQUAL"} =>
            {id \in Ids : Equals(c, docs[id][c.column])} \subseteq Filter(<<c>>)
=============================================================================
