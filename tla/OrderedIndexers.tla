--------------------------- MODULE OrderedIndexers ---------------------------
(***************************************************************************)
(* The indexers of doubles, strings and blobs, of both kinds: they compare *)
(* values as they are, and differ in what they make of nulls and of        *)
(* operands of another type.                                               *)
(***************************************************************************)
EXTENDS ColumnIndexes

\* BufferImpl::operator<: the bytes both have, then the lengths; an empty buffer
\* is less than any other.
BufferLess(a, b) ==
    IF a = <<>> \/ b = <<>> THEN a = <<>> /\ b # <<>>
    ELSE LET differ == {i \in DOMAIN a \cap DOMAIN b : a[i] # b[i]}
         IN  IF differ = {} THEN Len(a) < Len(b)
             ELSE \E i \in differ : a[i] < b[i] /\ \A j \in differ : i <= j

Less(col, a, b) == IF Type[col] = "BLOB" THEN BufferLess(Blobs[a], Blobs[b]) ELSE a < b

\* The comparison of a value with the operand.
IsBelow(c, v) == Less(c.column, v, c.operand)
IsAbove(c, v) == Less(c.column, c.operand, v)
IsEqual(c, v) == ~IsBelow(c, v) /\ ~IsAbove(c, v)

Holds(c, v) ==
    CASE c.op = "EQUAL"              -> IsEqual(c, v)
      [] c.op = "LESS_THAN"          -> IsBelow(c, v)
      [] c.op = "LESS_THAN_EQUAL"    -> ~IsAbove(c, v)
      [] c.op = "GREATER_THAN"       -> IsAbove(c, v)
      [] c.op = "GREATER_THAN_EQUAL" -> ~IsBelow(c, v)

-----------------------------------------------------------------------------
(* EWAH: a map of bitmaps, in the order of its keys. *)

\* The loop takes the keys below the operand and ends at the first one that is
\* not, which it takes too if it equals the operand and the operator allows it.
KeysUpTo(keys, c) ==
    LET below == {k \in keys : IsBelow(c, k)}
        first == {k \in keys \ below : \A r \in keys \ below : ~Less(c.column, r, k)}
    IN  below \cup {k \in first : c.op = "LESS_THAN_EQUAL" /\ IsEqual(c, k)}

\* find, lower_bound and upper_bound of the map, and the keys behind them.
KeysFrom(keys, c) == {k \in keys : Holds(c, k)}

Keys(keys, c) == IF c.op \in UpperOps THEN KeysUpTo(keys, c) ELSE KeysFrom(keys, c)

EwahDouble(c) == OrOf(c, Keys(Values(c), c))
EwahDoubleRange(lower, upper) == OrOf(lower, KeysUpTo(KeysFrom(Values(lower), lower), upper))

\* Every loop steps over the null key.
EwahString(c) == OrOf(c, Keys(Values(c) \ {NullString}, c))

EwahStringRange(lower, upper) ==
    OrOf(lower, KeysUpTo(KeysFrom(Values(lower), lower) \ {NullString}, upper))

\* No id: on a null key the loops of GetBitmapGT and FilterRange go on without
\* stepping to the next key, for ever.
Endless == {0}

\* The loop ends before m_lastInsertedDocId, the id of the last document, which is
\* the largest unsigned integer in an index without documents.
AllButLast == IF docs = <<>> THEN 1..(2^Width - 1) ELSE Ids \ {Len(docs)}

EwahBlob(c) ==
    LET keys == {k \in Values(c) : ~IsNullBlob(k)}
    IN  CASE c.type # "BLOB" -> IF c.op \in LowerOps THEN AllButLast ELSE {}
          [] c.type = "BLOB" /\ c.op \notin LowerOps -> OrOf(c, Keys(keys, c))
          [] c.type = "BLOB" /\ c.op \in LowerOps ->
                IF KeysFrom(Values(c), c) \subseteq keys THEN OrOf(c, KeysFrom(keys, c))
                                                         ELSE Endless

EwahBlobRange(lower, upper) ==
    LET from == KeysFrom(Values(lower), lower)
    IN  IF lower.type # "BLOB" \/ upper.type # "BLOB" THEN {}
        ELSE IF \E k \in from : IsNullBlob(k) THEN Endless
        ELSE OrOf(lower, KeysUpTo(from, upper))

-----------------------------------------------------------------------------
(* VECTOR: every value is compared. *)

\* The ids of the values that pass.
Where(col, Passes(_)) == {id \in DOMAIN vector[col] : Passes(vector[col][id])}

VectorDouble(c) == Where(c.column, LAMBDA v : Holds(c, v))
VectorDoubleRange(lower, upper) ==
    Where(lower.column, LAMBDA v : Holds(lower, v) /\ Holds(upper, v))

VectorString(c) == Where(c.column, LAMBDA v : Holds(c, v) /\ v # NullString)
VectorStringRange(lower, upper) ==
    Where(lower.column, LAMBDA v : Holds(lower, v) /\ Holds(upper, v) /\ v # NullString)

\* Mutant: the empty blobs are not left out.
VectorBlobWithNulls(c) ==
    IF c.type = "BLOB" THEN Where(c.column, LAMBDA v : Holds(c, v))
    ELSE Where(c.column, LAMBDA v : c.op \in LowerOps)

\* A blob is greater than an operand of any other type; the null blobs, too, are
\* taken to be.
VectorBlob(c) ==
    IF c.type = "BLOB" THEN Where(c.column, LAMBDA v : Holds(c, v) /\ ~IsNullBlob(v))
    ELSE Where(c.column, LAMBDA v : c.op \in LowerOps)

VectorBlobRange(lower, upper) ==
    CASE lower.type = "BLOB" /\ upper.type = "BLOB" ->
            Where(lower.column, LAMBDA v : Holds(lower, v) /\ Holds(upper, v) /\ ~IsNullBlob(v))
      [] lower.type # "BLOB" /\ upper.type = "BLOB" -> VectorBlob(upper)
      [] upper.type # "BLOB"                        -> {}
=============================================================================
