----------------------------- MODULE MCIndexers -----------------------------
(* A column of each type under each kind of index, one without an index, and  *)
(* integers of two bits.                                                      *)
EXTENDS Indexers

MCColumns == ({"EWAH", "VECTOR"} \X Types) \cup {<<"NONE", "INTEGER">>}
MCKind == [col \in MCColumns |-> col[1]]
MCType == [col \in MCColumns |-> col[2]]

\* The null blob, and blobs that differ in length, in a byte, and in both.
MCBlobs == <<<<>>, <<1>>, <<1, 0>>, <<2>>>>

\* Four values of each type: the ends of the integers, doubles with a fraction of
\* which the least positive one stands for null, and the null string.
Value == [INTEGER |-> <<-2, -1, 0, 1>>, DOUBLE |-> <<-1, 0, 1, 2>>,
          STRING |-> <<0, NullString, 2, 3>>, BLOB |-> <<1, 2, 3, 4>>]

\* The two indexes of a type get different values, most of the time.
MCDocuments ==
    {[col \in MCColumns |-> Value[MCType[col]][IF MCKind[col] = "VECTOR" THEN j ELSE i]] :
        <<i, j>> \in {<<i, j>> \in (1..4) \X (1..4) : i = j \/ i + j = 5}}

\* Operands: whole and fractional numbers from end to end of the integers, places
\* of strings and of blobs, and a number to compare blobs with.
Operands(col) ==
    CASE MCType[col] \in {"INTEGER", "DOUBLE"} ->
            {x \in [type : {"INTEGER", "DOUBLE"}, operand : -4..2] :
                x.type = "INTEGER" => x.operand % 2 = 0}
      [] MCType[col] = "STRING" -> [type : {"STRING"}, operand : {0, 2, 3}]
      [] MCType[col] = "BLOB" ->
            [type : {"BLOB"}, operand : 1..4] \cup [type : {"INTEGER"}, operand : {0}]

C(col, op, type, operand) ==
    [column |-> col, op |-> op, type |-> type, operand |-> operand, usable |-> TRUE]

ConstraintsOn(col) ==
    {C(col, op, x.type, x.operand) : op \in Ops, x \in Operands(col)}

\* Constraints that make a range of each of two columns, one on a column without
\* an index and one that xBestIndex cannot use, to be put in any order.
Mixed ==
    {C(<<"EWAH", "INTEGER">>, "GREATER_THAN_EQUAL", "INTEGER", -2),
     C(<<"EWAH", "INTEGER">>, "LESS_THAN", "DOUBLE", 1),
     C(<<"VECTOR", "STRING">>, "GREATER_THAN", "STRING", 0),
     C(<<"VECTOR", "STRING">>, "LESS_THAN_EQUAL", "STRING", 3),
     C(<<"NONE", "INTEGER">>, "LESS_THAN", "INTEGER", 2),
     [C(<<"VECTOR", "BLOB">>, "GREATER_THAN_EQUAL", "BLOB", 2) EXCEPT !.usable = FALSE]}

\* Every constraint and every pair of constraints on a column with an index, and lists
\* of up to four of the mixed, but for what the indexes are known to get wrong.
MCQueries ==
    {cs \in UNION {UNION {[1..n -> ConstraintsOn(col)] : n \in 1..2} :
                      col \in {"EWAH", "VECTOR"} \X Types}
                \cup UNION {[1..n -> Mixed] : n \in 2..4} :
        Answerable(Taken(cs))}

\* A double alone for an integer column, which may be one that is known to go wrong.
DoubleQueries ==
    {<<c>> : c \in {c \in ConstraintsOn(<<"EWAH", "INTEGER">>)
                             \cup ConstraintsOn(<<"VECTOR", "INTEGER">>) : c.type = "DOUBLE"}}
=============================================================================
