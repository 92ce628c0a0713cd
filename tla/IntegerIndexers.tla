--------------------------- MODULE IntegerIndexers ---------------------------
(***************************************************************************)
(* The indexers of integers, EWAHCompressedBitmapIndexerInteger and        *)
(* VectorIntegerIndexer: operands are integers or doubles, and a double is *)
(* rounded to the integer that decides the comparison.                     *)
(***************************************************************************)
EXTENDS ColumnIndexes

(* Arithmetic on operands. *)

Whole(c) == c.operand \div 2
Floor(c) == c.operand \div 2
Ceil(c)  == -((-c.operand) \div 2)
Trunc(c) == IF c.operand < 0 THEN Ceil(c) ELSE Floor(c)
Equals(c, v) == c.operand = 2 * v

\* Signed overflow is undefined; compiled code computes modulo 2^Width, the number
\* of integers.
Wrap(n) == ((n - MinInt) % (MaxInt - MinInt + 1)) + MinInt

-----------------------------------------------------------------------------
(* EWAHCompressedBitmapIndexerInteger *)

EwahEQ(c) ==
    LET v == IF c.type = "INTEGER" THEN Whole(c) ELSE Trunc(c)
    IN  OrOf(c, {u \in Values(c) : u = v /\ (c.type = "DOUBLE" => Equals(c, v))})

\* Mutant: rounded to the wrong side.
EwahBoundFloor(c) == Floor(c)

EwahBound(c) == IF c.type = "DOUBLE" THEN Ceil(c) ELSE Whole(c)

\* The loop takes the values below the bound and ends at the first one that is
\* not, which it takes too if it equals the operand.
EwahLT(c, orEqual) ==
    LET below == {v \in Values(c) : v < EwahBound(c)}
        first == {v \in Values(c) \ below : \A u \in Values(c) \ below : v <= u}
    IN  OrOf(c, below \cup {v \in first : orEqual /\ Equals(c, v)})

\* upper_bound and lower_bound of the map.
EwahGT(c)  == OrOf(c, {v \in Values(c) : v > (IF c.type = "DOUBLE" THEN Floor(c) ELSE Whole(c))})
EwahGTE(c) == OrOf(c, {v \in Values(c) : v >= EwahBound(c)})

EwahFilter(c) ==
    CASE c.op = "EQUAL"              -> EwahEQ(c)
      [] c.op = "LESS_THAN"          -> EwahLT(c, FALSE)
      [] c.op = "LESS_THAN_EQUAL"    -> EwahLT(c, TRUE)
      [] c.op = "GREATER_THAN"       -> EwahGT(c)
      [] c.op = "GREATER_THAN_EQUAL" -> EwahGTE(c)

EwahRange(lower, upper) ==
    LET low  == IF lower.type = "DOUBLE" /\ lower.op = "GREATER_THAN"
                THEN Floor(lower) ELSE EwahBound(lower)
        from == {v \in Values(lower) :
                    IF lower.op = "GREATER_THAN" THEN v > low ELSE v >= low}
    IN  OrOf(lower, {v \in from : \/ v < EwahBound(upper)
                                  \/ upper.op = "LESS_THAN_EQUAL" /\ Equals(upper, v)})

-----------------------------------------------------------------------------
(* VectorIntegerIndexer *)

VectorEQ(c) ==
    LET m == vector[c.column]
        v == IF c.type = "INTEGER" THEN Whole(c) ELSE Trunc(c)
    IN  {id \in DOMAIN m : m[id] = v /\ (c.type = "DOUBLE" => Equals(c, v))}

\* What a value has to be less than, and what greater.
Upper(c) ==
    IF c.type = "DOUBLE" THEN Ceil(c)
    ELSE IF c.op = "LESS_THAN_EQUAL" THEN Wrap(Whole(c) + 1) ELSE Whole(c)

Lower(c) ==
    IF c.type = "DOUBLE" THEN Floor(c)
    ELSE IF c.op = "GREATER_THAN_EQUAL" THEN Wrap(Whole(c) - 1) ELSE Whole(c)

VectorLT(c) == LET m == vector[c.column] IN {id \in DOMAIN m : m[id] < Upper(c)}
VectorGT(c) == LET m == vector[c.column] IN {id \in DOMAIN m : m[id] > Lower(c)}

VectorFilter(c) ==
    CASE c.op = "EQUAL"                                    -> VectorEQ(c)
      [] c.op \in {"LESS_THAN", "LESS_THAN_EQUAL"}         -> VectorLT(c)
      [] c.op \in {"GREATER_THAN", "GREATER_THAN_EQUAL"}   -> VectorGT(c)

VectorRange(lower, upper) ==
    VectorGT(lower) \cap VectorLT(upper)
=============================================================================
