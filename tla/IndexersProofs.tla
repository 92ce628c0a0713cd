--------------------------- MODULE IndexersProofs ---------------------------
(***************************************************************************)
(* Every SELECT gives the rows SQL asks for, but for the operands that an  *)
(* index is known to get wrong: for any width of integers, any operands,   *)
(* documents, columns and conjunctions.                                    *)
(*                                                                         *)
(* The inductive invariant is that the bitmap of a value holds exactly the *)
(* ids of the documents with that value, that every value has one, and     *)
(* that a vector has the value of every document.  Each operator is then a *)
(* fact about which values it selects, and the loops over constraints are  *)
(* unfolded by induction on their length.                                  *)
(***************************************************************************)
EXTENDS Indexers, SequenceTheorems, WellFoundedInduction, TLAPS

Docs == docs \in Seq([Columns -> Int])

Rows(col, v) == {id \in Ids : docs[id][col] = v}

Exact(col) ==
    /\ DOMAIN bitmaps[col] \subseteq Int
    /\ \A v \in DOMAIN bitmaps[col] : bitmaps[col][v] = Rows(col, v)
    /\ \A id \in Ids : docs[id][col] \in DOMAIN bitmaps[col]
    /\ \A v \in DOMAIN bitmaps[col] : \E id \in Ids : docs[id][col] = v

EwahColumns == {col \in Columns : Kind[col] = "EWAH"}
VectorColumns == {col \in Columns : Kind[col] = "VECTOR"}

\* The vector of a column has its value of every document.
Stored(col) ==
    /\ vector[col] \in Seq(Int) /\ Len(vector[col]) = Len(docs)
    /\ \A id \in Ids : vector[col][id] = docs[id][col]

IInv == /\ Docs
        /\ \A id \in Ids : docs[id] \in Documents
        /\ DOMAIN bitmaps = Columns
        /\ \A col \in EwahColumns : Exact(col)
        /\ \A col \in VectorColumns : Stored(col)

\* Each constraint on a column of integers, doubles or strings with a bitmap index
\* gives the rows that satisfy it.
EwahIsSql ==
    \A c \in Constraints :
        c.column \in EwahColumns /\ Type[c.column] # "BLOB" =>
            FilterColumn(c) = {id \in Ids : Satisfies(docs[id][c.column], c)}

\* A range gives the rows that satisfy both of its constraints.
EwahRangeIsSql ==
    \A c, d \in Constraints :
        /\ c.column \in EwahColumns /\ Type[c.column] # "BLOB" /\ d.column = c.column
        /\ c.op \in LowerOps /\ d.op \in UpperOps
        => FilterRange(c, d) = {id \in Ids : /\ Satisfies(docs[id][c.column], c)
                                             /\ Satisfies(docs[id][c.column], d)}

-----------------------------------------------------------------------------
\* Adding a document keeps every bitmap exact.
LEMMA AddKeepsExact ==
  ASSUME NEW col \in Columns, Docs, Exact(col),
         NEW doc \in [Columns -> Int],
         docs' = Append(docs, doc),
         bitmaps'[col] = AddToBitmap(bitmaps[col], doc[col], Len(docs) + 1)
  PROVE  Exact(col)'
<1> DEFINE n == Len(docs) + 1
<1>1. doc[col] \in Int
  OBVIOUS
<1>2. /\ Len(docs) \in Nat
      /\ Ids' = Ids \cup {n} /\ n \notin Ids
      /\ docs'[n] = doc
      /\ \A id \in Ids : docs'[id] = docs[id]
  BY DEF Ids, Docs
<1>3. DOMAIN bitmaps'[col] = DOMAIN bitmaps[col] \cup {doc[col]}
  BY DEF AddToBitmap
<1>4. ASSUME NEW v \in DOMAIN bitmaps'[col] PROVE bitmaps'[col][v] = Rows(col, v)'
  <2>1. bitmaps'[col][v] = (IF v \in DOMAIN bitmaps[col] THEN bitmaps[col][v] ELSE {})
                             \cup (IF v = doc[col] THEN {n} ELSE {})
    BY <1>3, <1>4 DEF AddToBitmap
  <2>2. Rows(col, v)' = Rows(col, v) \cup (IF v = doc[col] THEN {n} ELSE {})
    BY <1>2 DEF Rows
  <2>3. CASE v \in DOMAIN bitmaps[col]
    BY <2>1, <2>2, <2>3 DEF Exact
  <2>4. CASE v \notin DOMAIN bitmaps[col]
    <3>1. Rows(col, v) = {}
      BY <2>4 DEF Rows, Exact
    <3> QED
      BY <2>1, <2>2, <2>4, <3>1
  <2> QED
    BY <2>3, <2>4
<1>5. ASSUME NEW id \in Ids' PROVE docs'[id][col] \in DOMAIN bitmaps'[col]
  BY <1>2, <1>3 DEF Exact
<1>6. ASSUME NEW v \in DOMAIN bitmaps'[col] PROVE \E id \in Ids' : docs'[id][col] = v
  BY <1>2, <1>3 DEF Exact
<1> QED
  BY <1>1, <1>3, <1>4, <1>5, <1>6 DEF Exact

\* And every vector complete.
LEMMA AddKeepsStored ==
  ASSUME NEW col \in Columns, Docs, Stored(col), NEW doc \in [Columns -> Int],
         docs' = Append(docs, doc),
         vector'[col] = Append(vector[col], doc[col])
  PROVE  Stored(col)'
<1>1. doc[col] \in Int
  OBVIOUS
<1>2. vector'[col] \in Seq(Int) /\ Len(vector'[col]) = Len(docs')
  BY <1>1 DEF Stored, Docs
<1>3. ASSUME NEW id \in Ids' PROVE vector'[col][id] = docs'[id][col]
  BY <1>1 DEF Stored, Docs, Ids
<1> QED
  BY <1>2, <1>3 DEF Stored

LEMMA Inductive == Spec => []IInv
<1>1. Init => IInv
  <2> SUFFICES ASSUME Init PROVE IInv
    OBVIOUS
  <2>1. Docs /\ Ids = {}
    BY DEF Init, Docs, Ids
  <2>2. \A col \in Columns : DOMAIN bitmaps[col] = {}
    BY DEF Init
  <2> QED
    BY <2>1, <2>2 DEF Init, IInv, Exact, EwahColumns, Stored, VectorColumns
<1>2. IInv /\ [Next]_vars => IInv'
  <2> SUFFICES ASSUME IInv, [Next]_vars PROVE IInv'
    OBVIOUS
  <2>1. CASE Insert
    <3>1. PICK doc \in Documents :
              /\ docs' = Append(docs, doc)
              /\ vector' = [c \in Columns |->
                    IF Kind[c] = "VECTOR" THEN Append(vector[c], doc[c]) ELSE vector[c]]
              /\ bitmaps' = [c \in Columns |->
                    IF Kind[c] = "EWAH" THEN AddToBitmap(bitmaps[c], doc[c], Len(docs) + 1)
                                        ELSE bitmaps[c]]
      BY <2>1 DEF Insert
    <3> doc \in [Columns -> Int]
      BY ColumnsAssumption
    <3>2. Docs'
      BY <3>1 DEF Docs, IInv
    <3>3. ASSUME NEW col \in EwahColumns PROVE Exact(col)'
      BY <3>1, AddKeepsExact DEF IInv, EwahColumns
    <3>4. Ids' = Ids \cup {Len(docs) + 1} /\ \A id \in Ids : docs'[id] = docs[id]
      BY <3>1 DEF Docs, IInv, Ids
    <3>5. \A id \in Ids' : docs'[id] \in Documents
      BY <3>1, <3>4 DEF Docs, IInv, Ids
    <3>6. ASSUME NEW col \in VectorColumns PROVE Stored(col)'
      BY <3>1, <3>6, AddKeepsStored DEF IInv, VectorColumns
    <3> QED
      BY <3>1, <3>2, <3>3, <3>5, <3>6 DEF IInv, EwahColumns, VectorColumns
  <2>2. CASE UNCHANGED vars
    <3>1. UNCHANGED <<docs, bitmaps, vector>>
      BY <2>2 DEF vars
    <3>2. Docs' /\ Ids' = Ids
      BY <3>1 DEF IInv, Docs, Ids
    <3>3. ASSUME NEW col \in EwahColumns PROVE Exact(col)'
      <4>1. Exact(col)
        BY DEF IInv
      <4>2. \A v : Rows(col, v)' = Rows(col, v)
        BY <3>1, <3>2 DEF Rows
      <4>3. bitmaps' = bitmaps /\ docs' = docs /\ Ids' = Ids
        BY <3>1, <3>2
      <4> QED
        BY <4>1, <4>2, <4>3 DEF Exact
    <3>4. ASSUME NEW col \in VectorColumns PROVE Stored(col)'
      BY <3>1, <3>2, Zenon DEF IInv, Stored
    <3>5. DOMAIN bitmaps' = Columns /\ \A id \in Ids' : docs'[id] \in Documents
      BY <3>1, <3>2 DEF IInv
    <3> QED
      BY <3>2, <3>3, <3>4, <3>5 DEF IInv
  <2> QED
    BY <2>1, <2>2 DEF Next
<1> QED
  BY <1>1, <1>2, PTL DEF Spec

-----------------------------------------------------------------------------
\* The bitmaps of some values, together, are the rows with one of them.
LEMMA RowsOfValues ==
  ASSUME NEW c, Exact(c.column), NEW vs, vs \subseteq Values(c)
  PROVE  OrOf(c, vs) = {id \in Ids : docs[id][c.column] \in vs}
BY DEF Exact, OrOf, Values, Rows

LEMMA OperandOfInteger ==
  ASSUME NEW c \in Constraints, Type[c.column] = "INTEGER"
  PROVE  /\ c.op \in Ops /\ c.type \in {"INTEGER", "DOUBLE"} /\ c.operand \in Int
         /\ c.type = "INTEGER" => c.operand % 2 = 0
BY ConstraintsAssumption DEF Constraint, OperandTypes

\* Rounding an operand up, or down, and comparing integers is comparing with it.
LEMMA Rounding ==
  ASSUME NEW c \in Constraints, Type[c.column] = "INTEGER", NEW v \in Int
  PROVE  /\ EwahBound(c) \in Int /\ Floor(c) \in Int
         /\ v < EwahBound(c) <=> 2 * v < c.operand
         /\ v >= EwahBound(c) <=> 2 * v >= c.operand
         /\ v > Floor(c) <=> 2 * v > c.operand
         /\ c.type = "INTEGER" => Whole(c) = Floor(c) /\ 2 * Whole(c) = c.operand
         /\ 2 * v = c.operand <=> Equals(c, v)
BY OperandOfInteger DEF EwahBound, Floor, Ceil, Whole, Equals

LEMMA ConstraintTypes ==
  ASSUME NEW c \in Constraints
  PROVE  c.column \in Columns /\ c.op \in Ops /\ c.operand \in Int
BY ConstraintsAssumption DEF Constraint

\* SQL's comparison with a value that is not a blob.
LEMMA SatisfiesNumber ==
  ASSUME NEW c \in Constraints, Type[c.column] # "BLOB", NEW v \in Int,
         NEW n, n = IF Type[c.column] = "INTEGER" THEN 2 * v ELSE v,
         Type[c.column] = "STRING" => v # NullString
  PROVE  /\ c.op = "EQUAL" => (Satisfies(v, c) <=> n = c.operand)
         /\ c.op = "LESS_THAN" => (Satisfies(v, c) <=> n < c.operand)
         /\ c.op = "LESS_THAN_EQUAL" => (Satisfies(v, c) <=> n <= c.operand)
         /\ c.op = "GREATER_THAN" => (Satisfies(v, c) <=> n > c.operand)
         /\ c.op = "GREATER_THAN_EQUAL" => (Satisfies(v, c) <=> n >= c.operand)
BY DEF Satisfies

LEMMA SatisfiesInteger ==
  ASSUME NEW c \in Constraints, Type[c.column] = "INTEGER", NEW v \in Int
  PROVE  /\ c.op = "EQUAL" => (Satisfies(v, c) <=> 2 * v = c.operand)
         /\ c.op = "LESS_THAN" => (Satisfies(v, c) <=> 2 * v < c.operand)
         /\ c.op = "LESS_THAN_EQUAL" => (Satisfies(v, c) <=> 2 * v <= c.operand)
         /\ c.op = "GREATER_THAN" => (Satisfies(v, c) <=> 2 * v > c.operand)
         /\ c.op = "GREATER_THAN_EQUAL" => (Satisfies(v, c) <=> 2 * v >= c.operand)
BY SatisfiesNumber

-----------------------------------------------------------------------------
\* The values that each operator selects are those that satisfy it.
LEMMA SelectedEQ ==
  ASSUME NEW c \in Constraints, Type[c.column] = "INTEGER", Exact(c.column), c.op = "EQUAL"
  PROVE  EwahEQ(c) = {id \in Ids : Satisfies(docs[id][c.column], c)}
<1> DEFINE w  == IF c.type = "INTEGER" THEN Whole(c) ELSE Trunc(c)
           vs == {u \in Values(c) : u = w /\ (c.type = "DOUBLE" => Equals(c, w))}
<1>1. EwahEQ(c) = OrOf(c, vs)
  BY DEF EwahEQ
<1>2. ASSUME NEW u \in Values(c) PROVE u \in vs <=> Satisfies(u, c)
  <2>1. u \in Int
    BY DEF Values, Exact
  <2>2. c.operand = 2 * u => Trunc(c) = u /\ Whole(c) = u
    BY <2>1, OperandOfInteger DEF Trunc, Floor, Ceil, Whole
  <2>3. Satisfies(u, c) <=> Equals(c, u)
    BY <2>1, Rounding, SatisfiesInteger
  <2> QED
    BY <2>1, <2>2, <2>3, OperandOfInteger, Rounding DEF Equals
<1>3. \A id \in Ids : docs[id][c.column] \in Values(c)
  BY DEF Exact, Values
<1> HIDE DEF vs
<1>4. vs \subseteq Values(c)
  BY DEF vs
<1> QED
  BY <1>1, <1>2, <1>3, <1>4, RowsOfValues

LEMMA SelectedLT ==
  ASSUME NEW c \in Constraints, Type[c.column] = "INTEGER", Exact(c.column),
         c.op \in {"LESS_THAN", "LESS_THAN_EQUAL"}
  PROVE  EwahLT(c, c.op = "LESS_THAN_EQUAL")
            = {id \in Ids : Satisfies(docs[id][c.column], c)}
<1> DEFINE below == {v \in Values(c) : v < EwahBound(c)}
           first == {v \in Values(c) \ below : \A u \in Values(c) \ below : v <= u}
           vs    == below \cup {v \in first : c.op = "LESS_THAN_EQUAL" /\ Equals(c, v)}
<1>1. EwahLT(c, c.op = "LESS_THAN_EQUAL") = OrOf(c, vs)
  BY DEF EwahLT
<1>2. ASSUME NEW u \in Values(c) PROVE u \in vs <=> Satisfies(u, c)
  <2>1. u \in Int /\ \A v \in Values(c) : v \in Int
    BY DEF Values, Exact
  <2>2. u \in below <=> 2 * u < c.operand
    BY <2>1, Rounding
  <2>3. Equals(c, u) => u \in first
    <3>1. ASSUME Equals(c, u), NEW v \in Values(c) \ below PROVE u <= v
      <4>1. 2 * v >= c.operand
        BY <2>1, Rounding, OperandOfInteger
      <4> QED
        BY <2>1, <3>1, <4>1 DEF Equals
    <3>2. Equals(c, u) => u \notin below
      BY <2>1, <2>2, OperandOfInteger DEF Equals
    <3> QED
      BY <3>1, <3>2
  <2>4. u \in vs <=> u \in below \/ (c.op = "LESS_THAN_EQUAL" /\ Equals(c, u))
    <3> HIDE DEF below, first
    <3> QED
      BY <2>3
  <2>5. Equals(c, u) <=> 2 * u = c.operand
    BY <2>1, Rounding
  <2> HIDE DEF below, first, vs
  <2>6. CASE c.op = "LESS_THAN"
    BY <2>1, <2>2, <2>4, <2>6, SatisfiesInteger
  <2>7. CASE c.op = "LESS_THAN_EQUAL"
    <3>1. 2 * u <= c.operand <=> 2 * u < c.operand \/ 2 * u = c.operand
      BY <2>1, OperandOfInteger
    <3> QED
      BY <2>1, <2>2, <2>4, <2>7, <2>5, <3>1, SatisfiesInteger
  <2> QED
    BY <2>6, <2>7
<1>3. \A id \in Ids : docs[id][c.column] \in Values(c)
  BY DEF Exact, Values
<1>4. vs \subseteq Values(c)
  OBVIOUS
<1> HIDE DEF vs
<1> QED
  BY <1>1, <1>2, <1>3, <1>4, RowsOfValues

LEMMA SelectedGT ==
  ASSUME NEW c \in Constraints, Type[c.column] = "INTEGER", Exact(c.column), c.op = "GREATER_THAN"
  PROVE  EwahGT(c) = {id \in Ids : Satisfies(docs[id][c.column], c)}
<1> DEFINE vs == {v \in Values(c) : v > (IF c.type = "DOUBLE" THEN Floor(c) ELSE Whole(c))}
<1>1. EwahGT(c) = OrOf(c, vs)
  BY DEF EwahGT
<1>2. ASSUME NEW u \in Values(c) PROVE u \in vs <=> Satisfies(u, c)
  <2>1. u \in Int
    BY DEF Values, Exact
  <2> QED
    BY <2>1, Rounding, OperandOfInteger, SatisfiesInteger
<1>3. \A id \in Ids : docs[id][c.column] \in Values(c)
  BY DEF Exact, Values
<1>4. vs \subseteq Values(c)
  OBVIOUS
<1> HIDE DEF vs
<1> QED
  BY <1>1, <1>2, <1>3, <1>4, RowsOfValues

LEMMA SelectedGTE ==
  ASSUME NEW c \in Constraints, Type[c.column] = "INTEGER", Exact(c.column), c.op = "GREATER_THAN_EQUAL"
  PROVE  EwahGTE(c) = {id \in Ids : Satisfies(docs[id][c.column], c)}
<1> DEFINE vs == {v \in Values(c) : v >= EwahBound(c)}
<1>1. EwahGTE(c) = OrOf(c, vs)
  BY DEF EwahGTE
<1>2. ASSUME NEW u \in Values(c) PROVE u \in vs <=> Satisfies(u, c)
  <2>1. u \in Int
    BY DEF Values, Exact
  <2> QED
    BY <2>1, Rounding, OperandOfInteger, SatisfiesInteger
<1>3. \A id \in Ids : docs[id][c.column] \in Values(c)
  BY DEF Exact, Values
<1>4. vs \subseteq Values(c)
  OBVIOUS
<1> HIDE DEF vs
<1> QED
  BY <1>1, <1>2, <1>3, <1>4, RowsOfValues

LEMMA IntegersAnswer ==
  ASSUME NEW c \in Constraints, Type[c.column] = "INTEGER", Exact(c.column)
  PROVE  EwahFilter(c) = {id \in Ids : Satisfies(docs[id][c.column], c)}
<1>2. CASE c.op = "EQUAL"
  BY <1>2, SelectedEQ DEF EwahFilter
<1>3. CASE c.op = "LESS_THAN"
  BY <1>3, SelectedLT DEF EwahFilter
<1>4. CASE c.op = "LESS_THAN_EQUAL"
  BY <1>4, SelectedLT DEF EwahFilter
<1>5. CASE c.op = "GREATER_THAN"
  BY <1>5, SelectedGT DEF EwahFilter
<1>6. CASE c.op = "GREATER_THAN_EQUAL"
  BY <1>6, SelectedGTE DEF EwahFilter
<1> QED
  BY <1>2, <1>3, <1>4, <1>5, <1>6, OperandOfInteger DEF Ops, LowerOps, UpperOps

LEMMA IntegerRangesAnswer ==
  ASSUME NEW c \in Constraints, NEW d \in Constraints, Exact(c.column),
         Type[c.column] = "INTEGER", d.column = c.column,
         c.op \in {"GREATER_THAN", "GREATER_THAN_EQUAL"},
         d.op \in {"LESS_THAN", "LESS_THAN_EQUAL"}
  PROVE  EwahRange(c, d) = {id \in Ids : /\ Satisfies(docs[id][c.column], c)
                                         /\ Satisfies(docs[id][c.column], d)}
<1> DEFINE low  == IF c.type = "DOUBLE" /\ c.op = "GREATER_THAN"
                   THEN Floor(c) ELSE EwahBound(c)
           from == {v \in Values(c) : IF c.op = "GREATER_THAN" THEN v > low ELSE v >= low}
           vs   == {v \in from : \/ v < EwahBound(d)
                                 \/ d.op = "LESS_THAN_EQUAL" /\ Equals(d, v)}
<1>2. EwahRange(c, d) = OrOf(c, vs)
  BY DEF EwahRange
<1>3. ASSUME NEW u \in Values(c) PROVE u \in vs <=> Satisfies(u, c) /\ Satisfies(u, d)
  <2>1. u \in Int
    BY DEF Values, Exact
  <2>2. c.type = "INTEGER" => EwahBound(c) = Floor(c)
    BY OperandOfInteger, <2>1, Rounding DEF EwahBound
  <2>3. u \in from <=> Satisfies(u, c)
    BY <2>1, <2>2, Rounding, OperandOfInteger, SatisfiesInteger
  <2>4. u < EwahBound(d) \/ (d.op = "LESS_THAN_EQUAL" /\ Equals(d, u)) <=> Satisfies(u, d)
    <3>1. CASE d.op = "LESS_THAN"
      BY <2>1, <3>1, Rounding, SatisfiesInteger
    <3>2. CASE d.op = "LESS_THAN_EQUAL"
      BY <2>1, <3>2, Rounding, OperandOfInteger, SatisfiesInteger
    <3> QED
      BY <3>1, <3>2
  <2> QED
    BY <2>3, <2>4
<1>4. \A id \in Ids : docs[id][c.column] \in Values(c)
  BY DEF Exact, Values
<1>5. vs \subseteq Values(c)
  OBVIOUS
<1> HIDE DEF vs
<1> QED
  BY <1>2, <1>3, <1>4, <1>5, RowsOfValues

-----------------------------------------------------------------------------
(* Doubles and strings *)

LEMMA OrderedHolds ==
  ASSUME NEW c \in Constraints, Type[c.column] \in {"DOUBLE", "STRING"}, NEW v \in Int,
         Type[c.column] = "STRING" => v # NullString
  PROVE  Holds(c, v) <=> Satisfies(v, c)
<1>1. /\ IsBelow(c, v) <=> v < c.operand
      /\ IsAbove(c, v) <=> c.operand < v
  BY DEF IsBelow, IsAbove, Less
<1>2. IsEqual(c, v) <=> v = c.operand
  BY <1>1, ConstraintTypes DEF IsEqual
<1>3. CASE c.op = "EQUAL"
  BY <1>2, <1>3, SatisfiesNumber DEF Holds
<1>4. CASE c.op = "LESS_THAN"
  BY <1>1, <1>4, SatisfiesNumber DEF Holds
<1>5. CASE c.op = "LESS_THAN_EQUAL"
  BY <1>1, <1>5, SatisfiesNumber, ConstraintTypes DEF Holds
<1>6. CASE c.op = "GREATER_THAN"
  BY <1>1, <1>6, SatisfiesNumber, ConstraintTypes DEF Holds
<1>7. CASE c.op = "GREATER_THAN_EQUAL"
  BY <1>1, <1>7, SatisfiesNumber, ConstraintTypes DEF Holds
<1> QED
  BY <1>3, <1>4, <1>5, <1>6, <1>7, ConstraintTypes DEF Ops, LowerOps, UpperOps

\* The loop that ends at the first key not below the operand misses none.
LEMMA OrderedUpTo ==
  ASSUME NEW c \in Constraints, Type[c.column] \in {"DOUBLE", "STRING"},
         c.op \in UpperOps, NEW keys \in SUBSET Int
  PROVE  KeysUpTo(keys, c) = {k \in keys : Holds(c, k)}
<1> DEFINE below == {k \in keys : IsBelow(c, k)}
           first == {k \in keys \ below : \A r \in keys \ below : ~Less(c.column, r, k)}
<1>1. KeysUpTo(keys, c) = below \cup {k \in first : c.op = "LESS_THAN_EQUAL" /\ IsEqual(c, k)}
  BY DEF KeysUpTo
<1>2. ASSUME NEW k \in keys, IsEqual(c, k) PROVE k \in first
  <2>1. k \notin below /\ k = c.operand
    BY <1>2, ConstraintTypes DEF IsEqual, IsBelow, IsAbove, Less
  <2>2. ASSUME NEW r \in keys \ below PROVE ~Less(c.column, r, k)
    BY <2>1, <2>2 DEF IsBelow
  <2> QED
    BY <2>1, <2>2
<1>3. ASSUME NEW k \in keys PROVE Holds(c, k) <=> IsBelow(c, k)
                                       \/ (c.op = "LESS_THAN_EQUAL" /\ IsEqual(c, k))
  <2>1. CASE c.op = "LESS_THAN"
    BY <2>1 DEF Holds
  <2>2. CASE c.op = "LESS_THAN_EQUAL"
    BY <2>2, ConstraintTypes DEF Holds, IsEqual, IsBelow, IsAbove, Less
  <2> QED
    BY <2>1, <2>2 DEF UpperOps
<1> HIDE DEF first
<1>4. first \subseteq keys
  BY DEF first
<1> QED
  BY <1>1, <1>2, <1>3, <1>4

\* The keys an index selects for a constraint.
LEMMA OrderedKeys ==
  ASSUME NEW c \in Constraints, Type[c.column] \in {"DOUBLE", "STRING"},
         NEW keys \in SUBSET Int
  PROVE  Keys(keys, c) = {k \in keys : Holds(c, k)}
BY OrderedUpTo DEF Keys, KeysFrom

LEMMA OrderedAnswer ==
  ASSUME NEW c \in Constraints, Type[c.column] \in {"DOUBLE", "STRING"}, Exact(c.column),
         NEW keys, keys = IF Type[c.column] = "STRING" THEN Values(c) \ {NullString}
                                                       ELSE Values(c)
  PROVE  OrOf(c, Keys(keys, c)) = {id \in Ids : Satisfies(docs[id][c.column], c)}
<1>1. keys \in SUBSET Int /\ keys \subseteq Values(c)
  BY DEF Values, Exact
<1>2. Keys(keys, c) = {k \in keys : Holds(c, k)}
  BY <1>1, OrderedKeys
<1>3. ASSUME NEW id \in Ids
      PROVE  docs[id][c.column] \in Keys(keys, c) <=> Satisfies(docs[id][c.column], c)
  <2>1. docs[id][c.column] \in Values(c) /\ docs[id][c.column] \in Int
    BY DEF Exact, Values
  <2>2. CASE Type[c.column] = "STRING" /\ docs[id][c.column] = NullString
    BY <1>2, <2>2 DEF Satisfies
  <2>3. CASE ~(Type[c.column] = "STRING" /\ docs[id][c.column] = NullString)
    BY <1>2, <2>1, <2>3, OrderedHolds
  <2> QED
    BY <2>2, <2>3
<1>4. Keys(keys, c) \subseteq Values(c)
  BY <1>1, <1>2
<1>5. OrOf(c, Keys(keys, c)) = {id \in Ids : docs[id][c.column] \in Keys(keys, c)}
  BY <1>4, RowsOfValues
<1> QED
  BY <1>3, <1>5

LEMMA OrderedRangesAnswer ==
  ASSUME NEW c \in Constraints, NEW d \in Constraints,
         Type[c.column] \in {"DOUBLE", "STRING"}, Exact(c.column), d.column = c.column,
         d.op \in UpperOps,
         NEW from, from = IF Type[c.column] = "STRING"
                          THEN KeysFrom(Values(c), c) \ {NullString}
                          ELSE KeysFrom(Values(c), c)
  PROVE  OrOf(c, KeysUpTo(from, d)) = {id \in Ids : /\ Satisfies(docs[id][c.column], c)
                                                    /\ Satisfies(docs[id][c.column], d)}
<1>1. from \in SUBSET Int /\ from \subseteq Values(c)
  BY DEF Values, Exact, KeysFrom
<1>2. KeysUpTo(from, d) = {k \in from : Holds(d, k)}
  BY <1>1, OrderedUpTo
<1>3. ASSUME NEW id \in Ids
      PROVE  docs[id][c.column] \in KeysUpTo(from, d)
                <=> Satisfies(docs[id][c.column], c) /\ Satisfies(docs[id][c.column], d)
  <2>1. docs[id][c.column] \in Values(c) /\ docs[id][c.column] \in Int
    BY DEF Exact, Values
  <2>2. CASE Type[c.column] = "STRING" /\ docs[id][c.column] = NullString
    BY <1>2, <2>2 DEF Satisfies
  <2>3. CASE ~(Type[c.column] = "STRING" /\ docs[id][c.column] = NullString)
    <3>1. docs[id][c.column] \in from <=> Holds(c, docs[id][c.column])
      BY <2>1, <2>3 DEF KeysFrom
    <3> QED
      BY <1>2, <2>1, <2>3, <3>1, OrderedHolds
  <2> QED
    BY <2>2, <2>3
<1>4. KeysUpTo(from, d) \subseteq Values(c)
  BY <1>1, <1>2
<1>5. OrOf(c, KeysUpTo(from, d)) = {id \in Ids : docs[id][c.column] \in KeysUpTo(from, d)}
  BY <1>4, RowsOfValues
<1> QED
  BY <1>3, <1>5

-----------------------------------------------------------------------------
LEMMA EwahAnswers == IInv => EwahIsSql
<1> SUFFICES ASSUME IInv, NEW c \in Constraints, c.column \in EwahColumns,
                    Type[c.column] # "BLOB"
             PROVE  FilterColumn(c) = {id \in Ids : Satisfies(docs[id][c.column], c)}
  BY DEF EwahIsSql
<1>1. Exact(c.column) /\ Kind[c.column] = "EWAH"
  BY DEF IInv, EwahColumns
<1>2. CASE Type[c.column] = "INTEGER"
  BY <1>1, <1>2, IntegersAnswer DEF FilterColumn, Class
<1>3. CASE Type[c.column] = "DOUBLE"
  BY <1>1, <1>3, OrderedAnswer DEF FilterColumn, Class, EwahDouble
<1>4. CASE Type[c.column] = "STRING"
  BY <1>1, <1>4, OrderedAnswer DEF FilterColumn, Class, EwahString
<1>5. Type[c.column] \in Types
  BY ConstraintTypes, ColumnsAssumption
<1> QED
  BY <1>2, <1>3, <1>4, <1>5 DEF Types

LEMMA EwahRangesAnswer == IInv => EwahRangeIsSql
<1> SUFFICES ASSUME IInv, NEW c \in Constraints, NEW d \in Constraints,
                    c.column \in EwahColumns, Type[c.column] # "BLOB",
                    d.column = c.column, c.op \in LowerOps, d.op \in UpperOps
             PROVE  FilterRange(c, d) = {id \in Ids : /\ Satisfies(docs[id][c.column], c)
                                                      /\ Satisfies(docs[id][c.column], d)}
  BY DEF EwahRangeIsSql
<1>1. Exact(c.column) /\ Kind[c.column] = "EWAH"
  BY DEF IInv, EwahColumns
<1>2. CASE Type[c.column] = "INTEGER"
  <2>1. FilterRange(c, d) = EwahRange(c, d)
    BY <1>1, <1>2 DEF FilterRange, Class
  <2> QED
    BY <1>1, <1>2, <2>1, IntegerRangesAnswer DEF LowerOps, UpperOps
<1>3. CASE Type[c.column] = "DOUBLE"
  <2>1. FilterRange(c, d) = EwahDoubleRange(c, d)
    BY <1>1, <1>3 DEF FilterRange, Class
  <2> QED
    BY <1>1, <1>3, <2>1, OrderedRangesAnswer DEF EwahDoubleRange
<1>4. CASE Type[c.column] = "STRING"
  <2>1. FilterRange(c, d) = EwahStringRange(c, d)
    BY <1>1, <1>4 DEF FilterRange, Class
  <2> QED
    BY <1>1, <1>4, <2>1, OrderedRangesAnswer DEF EwahStringRange
<1>5. Type[c.column] \in Types
  BY ConstraintTypes, ColumnsAssumption
<1> QED
  BY <1>2, <1>3, <1>4, <1>5 DEF Types

-----------------------------------------------------------------------------
(* Vectors of integers *)

LEMMA Remainder ==
  ASSUME NEW n \in Nat, NEW m \in Nat, n < m
  PROVE  n % m = n
OBVIOUS

LEMMA RangeOfIntegers == MinInt \in Int /\ MaxInt \in Int
BY ColumnsAssumption DEF MinInt, MaxInt

\* An integer in the range is itself modulo the number of integers.
LEMMA WrapInside ==
  ASSUME NEW n \in MinInt..MaxInt
  PROVE  Wrap(n) = n
<1>1. /\ MinInt \in Int /\ MaxInt \in Int /\ n \in Int
      /\ n - MinInt \in Nat /\ MaxInt - MinInt + 1 \in Nat
      /\ n - MinInt < MaxInt - MinInt + 1
  BY RangeOfIntegers
<1>2. (n - MinInt) % (MaxInt - MinInt + 1) = n - MinInt
  BY <1>1, Remainder
<1> QED
  BY <1>1, <1>2 DEF Wrap

LEMMA VectorBounds ==
  ASSUME NEW c \in Constraints, Class(c.column) = <<"VECTOR", "INTEGER">>,
         ~IsWrongInteger(c), NEW v \in Int
  PROVE  /\ c.op \in UpperOps => (v < Upper(c) <=> Satisfies(v, c))
         /\ c.op \in LowerOps => (v > Lower(c) <=> Satisfies(v, c))
<1>1. /\ Type[c.column] = "INTEGER" /\ MinInt \in Int /\ MaxInt \in Int
      /\ c.operand \in (2 * MinInt)..(2 * MaxInt)
  BY ConstraintsAssumption, RangeOfIntegers DEF Class
<1>2. /\ c.op \in Ops /\ c.type \in {"INTEGER", "DOUBLE"} /\ c.operand \in Int
      /\ c.type = "INTEGER" => c.operand % 2 = 0
  BY <1>1, OperandOfInteger
<1>3. CASE c.type = "INTEGER"
  <2>1. PICK w \in Int : w = Whole(c) /\ c.operand = 2 * w
    BY <1>1, <1>2, <1>3 DEF Whole
  <2>2. w \in MinInt..MaxInt
    BY <1>1, <2>1
  <2>3. CASE c.op = "LESS_THAN_EQUAL"
    <3>1. w + 1 \in MinInt..MaxInt
      BY <1>1, <1>3, <2>1, <2>2, <2>3 DEF IsWrongInteger
    <3>2. Upper(c) = w + 1
      BY <1>3, <2>1, <2>3, <3>1, WrapInside DEF Upper
    <3> QED
      BY <1>1, <2>1, <2>3, <3>2, SatisfiesInteger DEF LowerOps
  <2>4. CASE c.op = "GREATER_THAN_EQUAL"
    <3>1. w - 1 \in MinInt..MaxInt
      BY <1>1, <1>3, <2>1, <2>2, <2>4 DEF IsWrongInteger
    <3>2. Lower(c) = w - 1
      BY <1>3, <2>1, <2>4, <3>1, WrapInside DEF Lower
    <3> QED
      BY <1>1, <2>1, <2>4, <3>2, SatisfiesInteger DEF UpperOps
  <2>5. CASE c.op = "LESS_THAN"
    BY <1>1, <1>3, <2>1, <2>5, SatisfiesInteger DEF LowerOps, Upper
  <2>6. CASE c.op = "GREATER_THAN"
    BY <1>1, <1>3, <2>1, <2>6, SatisfiesInteger DEF UpperOps, Lower
  <2> QED
    BY <2>3, <2>4, <2>5, <2>6 DEF UpperOps, LowerOps
<1>4. CASE c.type = "DOUBLE"
  <2>1. /\ Upper(c) = Ceil(c) /\ Lower(c) = Floor(c)
        /\ v < Ceil(c) <=> 2 * v < c.operand
        /\ v > Floor(c) <=> 2 * v > c.operand
    BY <1>2, <1>4 DEF Upper, Lower, Ceil, Floor
  <2>2. c.op \in {"LESS_THAN_EQUAL", "GREATER_THAN_EQUAL"} => 2 * v # c.operand
    BY <1>2, <1>4 DEF IsWrongInteger
  <2>3. CASE c.op = "LESS_THAN_EQUAL"
    BY <1>1, <1>2, <2>1, <2>2, <2>3, SatisfiesInteger DEF LowerOps
  <2>4. CASE c.op = "GREATER_THAN_EQUAL"
    BY <1>1, <1>2, <2>1, <2>2, <2>4, SatisfiesInteger DEF UpperOps
  <2>5. CASE c.op = "LESS_THAN"
    BY <1>1, <2>1, <2>5, SatisfiesInteger DEF LowerOps
  <2>6. CASE c.op = "GREATER_THAN"
    BY <1>1, <2>1, <2>6, SatisfiesInteger DEF UpperOps
  <2> QED
    BY <2>3, <2>4, <2>5, <2>6 DEF UpperOps, LowerOps
<1> QED
  BY <1>2, <1>3, <1>4

LEMMA StoredIds ==
  ASSUME NEW col \in Columns, Docs, Stored(col)
  PROVE  /\ DOMAIN vector[col] = Ids
         /\ \A id \in Ids : docs[id][col] \in Int /\ vector[col][id] = docs[id][col]
BY DEF Docs, Stored, Ids

LEMMA VectorIntegersAnswer ==
  ASSUME NEW c \in Constraints, Docs, Stored(c.column),
         Class(c.column) = <<"VECTOR", "INTEGER">>, ~IsWrongInteger(c)
  PROVE  VectorFilter(c) = {id \in Ids : Satisfies(docs[id][c.column], c)}
<1>1. /\ DOMAIN vector[c.column] = Ids
      /\ \A id \in Ids : /\ docs[id][c.column] \in Int
                         /\ vector[c.column][id] = docs[id][c.column]
  BY StoredIds, ConstraintTypes
<1>2. Type[c.column] = "INTEGER" /\ c.op \in Ops
  BY OperandOfInteger DEF Class
<1>3. CASE c.op = "EQUAL"
  <2>1. ASSUME NEW v \in Int
        PROVE  v = (IF c.type = "INTEGER" THEN Whole(c) ELSE Trunc(c))
                  /\ (c.type = "DOUBLE" => Equals(c, v)) <=> Satisfies(v, c)
    <3>1. c.operand = 2 * v => Trunc(c) = v /\ Whole(c) = v
      BY <1>2, OperandOfInteger DEF Trunc, Floor, Ceil, Whole
    <3>2. Satisfies(v, c) <=> Equals(c, v)
      BY <1>2, <1>3, Rounding, SatisfiesInteger
    <3> QED
      BY <1>2, <3>1, <3>2, OperandOfInteger, Rounding DEF Equals
  <2>2. VectorFilter(c) = VectorEQ(c)
    BY <1>3 DEF VectorFilter
  <2>3. ASSUME NEW v \in Int, NEW w,
               w = (IF c.type = "INTEGER" THEN Whole(c) ELSE Trunc(c))
        PROVE  (v = w /\ (c.type = "DOUBLE" => Equals(c, w))) <=> Satisfies(v, c)
    BY <2>1, <2>3
  <2> QED
    BY <1>1, <2>2, <2>3 DEF VectorEQ
<1>4. CASE c.op \in UpperOps
  <2>1. VectorFilter(c) = VectorLT(c)
    BY <1>4 DEF VectorFilter, UpperOps
  <2> QED
    BY <1>1, <1>4, <2>1, VectorBounds DEF VectorLT
<1>5. CASE c.op \in LowerOps
  <2>1. VectorFilter(c) = VectorGT(c)
    BY <1>5 DEF VectorFilter, LowerOps
  <2> QED
    BY <1>1, <1>5, <2>1, VectorBounds DEF VectorGT
<1> QED
  BY <1>2, <1>3, <1>4, <1>5 DEF Ops

LEMMA VectorIntegerRangesAnswer ==
  ASSUME NEW c \in Constraints, NEW d \in Constraints, Docs, Stored(c.column),
         Class(c.column) = <<"VECTOR", "INTEGER">>, d.column = c.column,
         c.op \in LowerOps, d.op \in UpperOps, ~IsWrongInteger(c), ~IsWrongInteger(d)
  PROVE  VectorRange(c, d) = {id \in Ids : /\ Satisfies(docs[id][c.column], c)
                                           /\ Satisfies(docs[id][c.column], d)}
<1>1. /\ DOMAIN vector[c.column] = Ids
      /\ \A id \in Ids : /\ docs[id][c.column] \in Int
                         /\ vector[c.column][id] = docs[id][c.column]
  BY StoredIds, ConstraintTypes
<1>2. VectorGT(c) = {id \in Ids : Satisfies(docs[id][c.column], c)}
  BY <1>1, VectorBounds DEF VectorGT
<1>3. VectorLT(d) = {id \in Ids : Satisfies(docs[id][c.column], d)}
  BY <1>1, VectorBounds DEF VectorLT
<1> QED
  BY <1>2, <1>3 DEF VectorRange

-----------------------------------------------------------------------------
(* Vectors of doubles and strings *)

LEMMA VectorOrderedAnswer ==
  ASSUME NEW c \in Constraints, Docs, Stored(c.column),
         Type[c.column] \in {"DOUBLE", "STRING"}
  PROVE  /\ Type[c.column] = "DOUBLE" =>
               VectorDouble(c) = {id \in Ids : Satisfies(docs[id][c.column], c)}
         /\ Type[c.column] = "STRING" =>
               VectorString(c) = {id \in Ids : Satisfies(docs[id][c.column], c)}
<1>1. /\ DOMAIN vector[c.column] = Ids
      /\ \A id \in Ids : /\ docs[id][c.column] \in Int
                         /\ vector[c.column][id] = docs[id][c.column]
  BY StoredIds, ConstraintTypes
<1>2. CASE Type[c.column] = "DOUBLE"
  <2>1. \A v \in Int : Holds(c, v) <=> Satisfies(v, c)
    BY <1>2, OrderedHolds
  <2> QED
    BY <1>1, <1>2, <2>1 DEF VectorDouble, Where
<1>3. CASE Type[c.column] = "STRING"
  <2>1. \A v \in Int : Holds(c, v) /\ v # NullString <=> Satisfies(v, c)
    <3>1. ~Satisfies(NullString, c)
      BY <1>3 DEF Satisfies
    <3> QED
      BY <1>3, <3>1, OrderedHolds
  <2> QED
    BY <1>1, <1>3, <2>1 DEF VectorString, Where
<1> QED
  BY <1>2, <1>3

LEMMA VectorOrderedRangesAnswer ==
  ASSUME NEW c \in Constraints, NEW d \in Constraints, Docs, Stored(c.column),
         Type[c.column] \in {"DOUBLE", "STRING"}, d.column = c.column
  PROVE  /\ Type[c.column] = "DOUBLE" =>
               VectorDoubleRange(c, d) = {id \in Ids : /\ Satisfies(docs[id][c.column], c)
                                                       /\ Satisfies(docs[id][c.column], d)}
         /\ Type[c.column] = "STRING" =>
               VectorStringRange(c, d) = {id \in Ids : /\ Satisfies(docs[id][c.column], c)
                                                       /\ Satisfies(docs[id][c.column], d)}
<1>1. /\ DOMAIN vector[c.column] = Ids
      /\ \A id \in Ids : /\ docs[id][c.column] \in Int
                         /\ vector[c.column][id] = docs[id][c.column]
  BY StoredIds, ConstraintTypes
<1>2. CASE Type[c.column] = "DOUBLE"
  <2>1. \A v \in Int : Holds(c, v) <=> Satisfies(v, c)
    BY <1>2, OrderedHolds
  <2>2. \A v \in Int : Holds(d, v) <=> Satisfies(v, d)
    BY <1>2, OrderedHolds
  <2> QED
    BY <1>1, <1>2, <2>1, <2>2 DEF VectorDoubleRange, Where
<1>3. CASE Type[c.column] = "STRING"
  <2>1. ~Satisfies(NullString, c)
    BY <1>3 DEF Satisfies
  <2>2. \A v \in Int : v # NullString => (Holds(c, v) <=> Satisfies(v, c))
    BY <1>3, OrderedHolds
  <2>3. \A v \in Int : v # NullString => (Holds(d, v) <=> Satisfies(v, d))
    BY <1>3, OrderedHolds
  <2> QED
    BY <1>1, <1>3, <2>1, <2>2, <2>3 DEF VectorStringRange, Where
<1> QED
  BY <1>2, <1>3

-----------------------------------------------------------------------------
(* Blobs *)

\* The comparison of buffers is SQL's order of blobs.
LEMMA BufferOrder ==
  ASSUME NEW a \in Seq(0..255), NEW b \in Seq(0..255), BlobBefore(a, b)
  PROVE  BufferLess(a, b) /\ ~BufferLess(b, a)
<1> DEFINE differ == {i \in DOMAIN a \cap DOMAIN b : a[i] # b[i]}
<1>1. PICK i \in DOMAIN b : /\ \A j \in 1..(i - 1) : j \in DOMAIN a /\ a[j] = b[j]
                            /\ i \in DOMAIN a => a[i] < b[i]
  BY DEF BlobBefore
<1>2. /\ DOMAIN a = 1..Len(a) /\ Len(a) \in Nat /\ DOMAIN b = 1..Len(b) /\ Len(b) \in Nat
      /\ a = <<>> <=> Len(a) = 0
      /\ b = <<>> <=> Len(b) = 0
      /\ \A j \in DOMAIN a : a[j] \in Int
      /\ \A j \in DOMAIN b : b[j] \in Int
  <2>1. /\ \A j \in 1..Len(a) : a[j] \in 0..255
        /\ \A j \in 1..Len(b) : b[j] \in 0..255
    BY ElementOfSeq
  <2>5. \A x \in 0..255 : x \in Int
    OBVIOUS
  <2>2. /\ DOMAIN a = 1..Len(a) /\ Len(a) \in Nat
        /\ DOMAIN b = 1..Len(b) /\ Len(b) \in Nat
    OBVIOUS
  <2>3. (a = <<>> <=> Len(a) = 0) /\ (b = <<>> <=> Len(b) = 0)
    BY EmptySeq
  <2>4. /\ \A j \in DOMAIN a : a[j] \in Int
        /\ \A j \in DOMAIN b : b[j] \in Int
    BY <2>1, <2>2, <2>5, Zenon
  <2> QED
    BY <2>2, <2>3, <2>4, Zenon
<1>3. b # <<>> /\ \A j \in differ : i <= j
  BY <1>1, <1>2
<1>4. CASE i \in DOMAIN a
  <2>1. i \in differ /\ a[i] < b[i]
    BY <1>1, <1>2, <1>4
  <2>2. a # <<>> /\ differ # {}
    BY <1>2, <1>4, <2>1
  <2>3. BufferLess(a, b)
    BY <1>3, <2>1, <2>2 DEF BufferLess
  <2>4. {j \in DOMAIN b \cap DOMAIN a : b[j] # a[j]} = differ
    OBVIOUS
  <2> HIDE DEF differ
  <2>5. ~ \E k \in differ : b[k] < a[k] /\ \A j \in differ : k <= j
    <3> SUFFICES ASSUME NEW k \in differ, b[k] < a[k], \A j \in differ : k <= j
                 PROVE  FALSE
      OBVIOUS
    <3>1. k = i
      BY <1>2, <1>3, <2>1 DEF differ
    <3> QED
      BY <1>2, <2>1, <3>1, <1>4
  <2>6. ~BufferLess(b, a)
    BY <1>3, <2>2, <2>4, <2>5 DEF BufferLess
  <2> QED
    BY <2>3, <2>6
<1>5. CASE i \notin DOMAIN a
  <2>1. Len(a) = i - 1 /\ Len(a) < Len(b)
    BY <1>1, <1>2, <1>5
  <2>2. differ = {} /\ {j \in DOMAIN b \cap DOMAIN a : b[j] # a[j]} = {}
    BY <1>1, <1>2, <2>1
  <2> QED
    BY <1>2, <1>3, <2>1, <2>2 DEF BufferLess
<1> QED
  BY <1>4, <1>5

\* So that blobs compare like their places.
LEMMA BlobOrder ==
  ASSUME NEW p \in DOMAIN Blobs, NEW q \in DOMAIN Blobs
  PROVE  p \in Int /\ q \in Int /\ (BufferLess(Blobs[p], Blobs[q]) <=> p < q)
<1>1. /\ Blobs \in Seq(Seq(0..255)) /\ p \in Int /\ q \in Int
      /\ Blobs[p] \in Seq(0..255) /\ Blobs[q] \in Seq(0..255)
  BY BlobsAssumption
<1>2. CASE p < q
  BY <1>1, <1>2, BlobsAssumption, BufferOrder
<1>3. CASE q < p
  <2>1. ~BufferLess(Blobs[p], Blobs[q])
    BY <1>1, <1>3, BlobsAssumption, BufferOrder
  <2> QED
    BY <1>1, <1>3, <2>1
<1>4. CASE p = q
  <2>1. {i \in DOMAIN Blobs[p] \cap DOMAIN Blobs[p] : Blobs[p][i] # Blobs[p][i]} = {}
    OBVIOUS
  <2>2. ~BufferLess(Blobs[p], Blobs[p])
    BY <1>1, <2>1 DEF BufferLess
  <2> QED
    BY <1>1, <1>4, <2>2
<1> QED
  BY <1>1, <1>2, <1>3, <1>4

LEMMA BlobHolds ==
  ASSUME NEW c \in Constraints, Type[c.column] = "BLOB", c.type = "BLOB",
         NEW v \in DOMAIN Blobs
  PROVE  /\ IsBelow(c, v) <=> v < c.operand
         /\ IsAbove(c, v) <=> c.operand < v
         /\ IsEqual(c, v) <=> v = c.operand
         /\ ~IsNullBlob(v) => (Holds(c, v) <=> Satisfies(v, c))
<1>1. c.operand \in DOMAIN Blobs /\ c.operand \in Int /\ v \in Int
  BY ConstraintsAssumption, BlobOrder
<1>2. /\ IsBelow(c, v) <=> v < c.operand
      /\ IsAbove(c, v) <=> c.operand < v
  BY <1>1, BlobOrder DEF IsBelow, IsAbove, Less
<1>3. IsEqual(c, v) <=> v = c.operand
  BY <1>1, <1>2 DEF IsEqual
<1>4. ASSUME ~IsNullBlob(v) PROVE Holds(c, v) <=> Satisfies(v, c)
  <2>1. CASE c.op = "EQUAL"
    BY <1>3, <1>4, <2>1 DEF Holds, Satisfies
  <2>2. CASE c.op = "LESS_THAN"
    BY <1>2, <1>4, <2>2 DEF Holds, Satisfies
  <2>3. CASE c.op = "LESS_THAN_EQUAL"
    BY <1>1, <1>2, <1>4, <2>3 DEF Holds, Satisfies
  <2>4. CASE c.op = "GREATER_THAN"
    BY <1>1, <1>2, <1>4, <2>4 DEF Holds, Satisfies
  <2>5. CASE c.op = "GREATER_THAN_EQUAL"
    BY <1>1, <1>2, <1>4, <2>5 DEF Holds, Satisfies
  <2> QED
    BY <2>1, <2>2, <2>3, <2>4, <2>5, ConstraintTypes DEF Ops, LowerOps, UpperOps
<1> QED
  BY <1>2, <1>3, <1>4

\* The documents of a column of blobs.
LEMMA BlobsOfDocuments ==
  ASSUME NEW col \in Columns, Type[col] = "BLOB", NEW id, docs[id] \in Documents
  PROVE  docs[id][col] \in DOMAIN Blobs
BY ColumnsAssumption

\* Comparing with an operand that is not a blob.
LEMMA SatisfiesOther ==
  ASSUME NEW c \in Constraints, Type[c.column] = "BLOB", c.type # "BLOB", NEW v
  PROVE  Satisfies(v, c) <=> c.op \in LowerOps /\ ~IsNullBlob(v)
BY DEF Satisfies

LEMMA VectorBlobsAnswer ==
  ASSUME NEW c \in Constraints, Docs, Stored(c.column), \A id \in Ids : docs[id] \in Documents,
         Type[c.column] = "BLOB", c.type # "BLOB" => c.op \notin LowerOps
  PROVE  VectorBlob(c) = {id \in Ids : Satisfies(docs[id][c.column], c)}
<1>1. /\ DOMAIN vector[c.column] = Ids
      /\ \A id \in Ids : /\ docs[id][c.column] \in DOMAIN Blobs
                         /\ vector[c.column][id] = docs[id][c.column]
  BY StoredIds, ConstraintTypes, BlobsOfDocuments
<1>2. CASE c.type = "BLOB"
  <2>1. \A v \in DOMAIN Blobs : Holds(c, v) /\ ~IsNullBlob(v) <=> Satisfies(v, c)
    <3>1. \A v \in DOMAIN Blobs : Satisfies(v, c) => ~IsNullBlob(v)
      BY DEF Satisfies
    <3> QED
      BY <1>2, <3>1, BlobHolds
  <2> QED
    BY <1>1, <1>2, <2>1 DEF VectorBlob, Where
<1>3. CASE c.type # "BLOB"
  BY <1>1, <1>3, SatisfiesOther DEF VectorBlob, Where
<1> QED
  BY <1>2, <1>3

LEMMA VectorBlobRangesAnswer ==
  ASSUME NEW c \in Constraints, NEW d \in Constraints, Docs, Stored(c.column),
         \A id \in Ids : docs[id] \in Documents,
         Type[c.column] = "BLOB", d.column = c.column, c.op \in LowerOps, d.op \in UpperOps
  PROVE  VectorBlobRange(c, d) = {id \in Ids : /\ Satisfies(docs[id][c.column], c)
                                               /\ Satisfies(docs[id][c.column], d)}
<1>1. /\ DOMAIN vector[c.column] = Ids
      /\ \A id \in Ids : /\ docs[id][c.column] \in DOMAIN Blobs
                         /\ vector[c.column][id] = docs[id][c.column]
  BY StoredIds, ConstraintTypes, BlobsOfDocuments
<1>2. d.op \notin LowerOps
  BY DEF LowerOps, UpperOps
<1>3. \A v : Satisfies(v, c) => ~IsNullBlob(v)
  BY DEF Satisfies
<1>4. CASE d.type # "BLOB"
  <2>1. \A v : ~Satisfies(v, d)
    BY <1>2, <1>4, SatisfiesOther
  <2>2. VectorBlobRange(c, d) = {}
    BY <1>4 DEF VectorBlobRange
  <2> QED
    BY <2>1, <2>2
<1>5. CASE d.type = "BLOB" /\ c.type # "BLOB"
  <2>1. VectorBlobRange(c, d) = VectorBlob(d)
    BY <1>5 DEF VectorBlobRange
  <2>2. VectorBlob(d) = {id \in Ids : Satisfies(docs[id][c.column], d)}
    BY <1>5, VectorBlobsAnswer
  <2>3. \A v : Satisfies(v, d) => ~IsNullBlob(v)
    BY DEF Satisfies
  <2>4. \A v : Satisfies(v, d) => Satisfies(v, c)
    BY <1>5, <2>3, SatisfiesOther
  <2> QED
    BY <2>1, <2>2, <2>4
<1>6. CASE d.type = "BLOB" /\ c.type = "BLOB"
  <2>1. \A v \in DOMAIN Blobs : ~IsNullBlob(v) => (Holds(c, v) <=> Satisfies(v, c))
    BY <1>6, BlobHolds
  <2>2. \A v \in DOMAIN Blobs : ~IsNullBlob(v) => (Holds(d, v) <=> Satisfies(v, d))
    BY <1>6, BlobHolds
  <2> QED
    BY <1>1, <1>3, <1>6, <2>1, <2>2 DEF VectorBlobRange, Where
<1> QED
  BY <1>4, <1>5, <1>6

-----------------------------------------------------------------------------
(* Bitmaps of blobs *)

LEMMA BlobKeysUpTo ==
  ASSUME NEW c \in Constraints, Type[c.column] = "BLOB", c.type = "BLOB",
         c.op \in UpperOps, NEW keys \in SUBSET DOMAIN Blobs
  PROVE  KeysUpTo(keys, c) = {k \in keys : Holds(c, k)}
<1> DEFINE below == {k \in keys : IsBelow(c, k)}
           first == {k \in keys \ below : \A r \in keys \ below : ~Less(c.column, r, k)}
<1>1. KeysUpTo(keys, c) = below \cup {k \in first : c.op = "LESS_THAN_EQUAL" /\ IsEqual(c, k)}
  BY DEF KeysUpTo
<1>2. ASSUME NEW k \in keys, IsEqual(c, k) PROVE k \in first
  <2>1. k \notin below /\ k = c.operand
    BY <1>2, BlobHolds DEF IsEqual
  <2>2. ASSUME NEW r \in keys \ below PROVE ~Less(c.column, r, k)
    BY <2>1, <2>2 DEF IsBelow
  <2> QED
    BY <2>1, <2>2
<1>3. ASSUME NEW k \in keys PROVE Holds(c, k) <=> IsBelow(c, k)
                                       \/ (c.op = "LESS_THAN_EQUAL" /\ IsEqual(c, k))
  <2>1. CASE c.op = "LESS_THAN"
    BY <2>1 DEF Holds
  <2>2. CASE c.op = "LESS_THAN_EQUAL"
    <3>1. k \in Int /\ c.operand \in Int
      BY BlobsAssumption, ConstraintTypes
    <3>2. /\ IsBelow(c, k) <=> k < c.operand
          /\ IsAbove(c, k) <=> c.operand < k
          /\ IsEqual(c, k) <=> k = c.operand
      BY BlobHolds
    <3>3. Holds(c, k) <=> ~IsAbove(c, k)
      BY <2>2 DEF Holds
    <3> QED
      BY <2>2, <3>1, <3>2, <3>3
  <2> QED
    BY <2>1, <2>2 DEF UpperOps
<1> HIDE DEF first
<1>4. first \subseteq keys
  BY DEF first
<1> QED
  BY <1>1, <1>2, <1>3, <1>4

\* The keys of a map of blobs.
LEMMA BlobValues ==
  ASSUME NEW c \in Constraints, Type[c.column] = "BLOB", Exact(c.column),
         \A id \in Ids : docs[id] \in Documents
  PROVE  /\ Values(c) \subseteq DOMAIN Blobs
         /\ \A id \in Ids : docs[id][c.column] \in Values(c)
BY ConstraintTypes, BlobsOfDocuments DEF Exact, Values

\* Only the empty blob is null, and it is the least.
LEMMA NullBlobIsLeast ==
  ASSUME NEW p \in DOMAIN Blobs, NEW q \in DOMAIN Blobs, IsNullBlob(p)
  PROVE  ~(q < p)
<1>1. Blobs[p] = <<>>
  BY DEF IsNullBlob
<1>2. ~BufferLess(Blobs[q], Blobs[p])
  BY <1>1 DEF BufferLess
<1> QED
  BY <1>2, BlobOrder

\* What a bitmap index of blobs is asked and gets wrong: "greater or equal" to the null
\* blob, whose loop does not end.
LEMMA NoNullFrom ==
  ASSUME NEW c \in Constraints, Type[c.column] = "BLOB", c.type = "BLOB",
         c.op \in LowerOps, ~(c.op = "GREATER_THAN_EQUAL" /\ IsNullBlob(c.operand)),
         NEW k \in DOMAIN Blobs, Holds(c, k)
  PROVE  ~IsNullBlob(k)
<1> SUFFICES ASSUME IsNullBlob(k) PROVE FALSE
  OBVIOUS
<1>1. c.operand \in DOMAIN Blobs
  BY ConstraintsAssumption
<1>2. ~IsAbove(c, k)
  <2>1. ~(c.operand < k)
    BY <1>1, NullBlobIsLeast
  <2> QED
    BY <2>1, BlobHolds
<1>3. c.op = "GREATER_THAN_EQUAL" /\ ~IsBelow(c, k)
  BY <1>2 DEF Holds, LowerOps
<1>4. k = c.operand
  BY <1>2, <1>3, BlobHolds DEF IsEqual
<1> QED
  BY <1>3, <1>4

LEMMA EwahBlobsAnswer ==
  ASSUME NEW c \in Constraints, Type[c.column] = "BLOB", Exact(c.column),
         \A id \in Ids : docs[id] \in Documents,
         c.type # "BLOB" => c.op \notin LowerOps,
         ~(c.op = "GREATER_THAN_EQUAL" /\ IsNullBlob(c.operand))
  PROVE  EwahBlob(c) = {id \in Ids : Satisfies(docs[id][c.column], c)}
<1> DEFINE keys == {k \in Values(c) : ~IsNullBlob(k)}
<1>1. CASE c.type # "BLOB"
  <2>1. \A v : ~Satisfies(v, c)
    BY <1>1, SatisfiesOther
  <2>2. EwahBlob(c) = {}
    BY <1>1 DEF EwahBlob
  <2> QED
    BY <2>1, <2>2
<1>2. CASE c.type = "BLOB"
  <2>1. keys \subseteq DOMAIN Blobs /\ keys \subseteq Values(c)
    BY BlobValues
  <2>2. Keys(keys, c) = {k \in keys : Holds(c, k)}
    BY <1>2, <2>1, BlobKeysUpTo DEF Keys, KeysFrom
  <2>3. EwahBlob(c) = OrOf(c, Keys(keys, c))
    <3>1. CASE c.op \notin LowerOps
      BY <1>2, <3>1 DEF EwahBlob
    <3>2. CASE c.op \in LowerOps
      <4>1. KeysFrom(Values(c), c) \subseteq keys
        BY <1>2, <3>2, NoNullFrom, BlobValues DEF KeysFrom
      <4>2. Keys(keys, c) = KeysFrom(keys, c)
        BY <3>2 DEF Keys, LowerOps, UpperOps
      <4> QED
        BY <1>2, <3>2, <4>1, <4>2 DEF EwahBlob
    <3> QED
      BY <3>1, <3>2
  <2>4. OrOf(c, Keys(keys, c)) = {id \in Ids : docs[id][c.column] \in Keys(keys, c)}
    <3>1. Keys(keys, c) \subseteq Values(c)
      BY <2>1, <2>2
    <3> QED
      BY <3>1, RowsOfValues
  <2>5. ASSUME NEW v \in Values(c) PROVE v \in Keys(keys, c) <=> Satisfies(v, c)
    <3>1. v \in DOMAIN Blobs
      BY BlobValues
    <3>2. Satisfies(v, c) => ~IsNullBlob(v)
      BY DEF Satisfies
    <3> QED
      BY <1>2, <2>2, <3>1, <3>2, BlobHolds
  <2> HIDE DEF keys
  <2> QED
    BY <2>3, <2>4, <2>5, BlobValues
<1> QED
  BY <1>1, <1>2

LEMMA EwahBlobRangesAnswer ==
  ASSUME NEW c \in Constraints, NEW d \in Constraints, Type[c.column] = "BLOB",
         Exact(c.column), \A id \in Ids : docs[id] \in Documents,
         d.column = c.column, c.op \in LowerOps, d.op \in UpperOps,
         d.type = "BLOB" =>
            c.type = "BLOB" /\ ~(c.op = "GREATER_THAN_EQUAL" /\ IsNullBlob(c.operand))
  PROVE  EwahBlobRange(c, d) = {id \in Ids : /\ Satisfies(docs[id][c.column], c)
                                             /\ Satisfies(docs[id][c.column], d)}
<1> DEFINE from == KeysFrom(Values(c), c)
<1>1. CASE d.type # "BLOB"
  <2>1. \A v : ~Satisfies(v, d)
    BY <1>1, SatisfiesOther DEF LowerOps, UpperOps
  <2>2. EwahBlobRange(c, d) = {}
    BY <1>1 DEF EwahBlobRange
  <2> QED
    BY <2>1, <2>2
<1>2. CASE d.type = "BLOB"
  <2>1. from \subseteq DOMAIN Blobs /\ from \subseteq Values(c)
    BY BlobValues DEF KeysFrom
  <2>2. \A k \in from : ~IsNullBlob(k)
    BY <1>2, <2>1, NoNullFrom DEF KeysFrom
  <2>3. EwahBlobRange(c, d) = OrOf(c, KeysUpTo(from, d))
    BY <1>2, <2>2 DEF EwahBlobRange
  <2>4. KeysUpTo(from, d) = {k \in from : Holds(d, k)}
    BY <1>2, <2>1, BlobKeysUpTo
  <2>5. OrOf(c, KeysUpTo(from, d)) = {id \in Ids : docs[id][c.column] \in KeysUpTo(from, d)}
    <3>1. KeysUpTo(from, d) \subseteq Values(c)
      BY <2>1, <2>4
    <3> QED
      BY <3>1, RowsOfValues
  <2>6. ASSUME NEW v \in Values(c)
        PROVE  v \in KeysUpTo(from, d) <=> Satisfies(v, c) /\ Satisfies(v, d)
    <3>1. v \in DOMAIN Blobs
      BY BlobValues
    <3>2. Satisfies(v, c) => ~IsNullBlob(v)
      BY DEF Satisfies
    <3>3. v \in from <=> Holds(c, v)
      BY DEF KeysFrom
    <3>4. CASE IsNullBlob(v)
      BY <2>2, <2>4, <3>2, <3>4
    <3>5. CASE ~IsNullBlob(v)
      <4>1. Holds(c, v) <=> Satisfies(v, c)
        BY <1>2, <3>1, <3>5, BlobHolds
      <4>2. Holds(d, v) <=> Satisfies(v, d)
        BY <1>2, <3>1, <3>5, BlobHolds
      <4> QED
        BY <2>4, <3>3, <4>1, <4>2
    <3> QED
      BY <3>4, <3>5
  <2> HIDE DEF from
  <2> QED
    BY <2>3, <2>5, <2>6, BlobValues
<1> QED
  BY <1>1, <1>2

-----------------------------------------------------------------------------
Satisfying(c) == {id \in Ids : Satisfies(docs[id][c.column], c)}

LEMMA ColumnAnswers ==
  ASSUME IInv, NEW cs, NEW i \in DOMAIN cs, cs[i] \in Constraints,
         IsTaken(cs[i]), ~IsRange(cs, i),
         ~IsWrongInteger(cs[i]), ~IsWrongBlob(cs, i)
  PROVE  FilterColumn(cs[i]) = Satisfying(cs[i])
<1>1. PICK c \in Constraints : c = cs[i]
  OBVIOUS
<1>2. /\ c.column \in Columns /\ Kind[c.column] \in {"EWAH", "VECTOR"}
      /\ Type[c.column] \in Types
  BY <1>1, ConstraintTypes, ColumnsAssumption DEF IsTaken
<1>3. CASE Type[c.column] = "BLOB"
  <2>1. ~(c.op \in LowerOps /\ c.type # "BLOB")
    BY <1>1, <1>2, <1>3 DEF IsWrongBlob
  <2>2. CASE Kind[c.column] = "VECTOR"
    <3>1. FilterColumn(c) = VectorBlob(c)
      BY <1>3, <2>2 DEF FilterColumn, Class
    <3> QED
      BY <1>1, <1>2, <1>3, <2>1, <2>2, <3>1, VectorBlobsAnswer
         DEF IInv, VectorColumns, Satisfying
  <2>3. CASE Kind[c.column] = "EWAH"
    <3>1. FilterColumn(c) = EwahBlob(c)
      BY <1>3, <2>3 DEF FilterColumn, Class
    <3>2. ~(c.op = "GREATER_THAN_EQUAL" /\ IsNullBlob(c.operand))
      BY <1>1, <1>3, <2>3 DEF IsWrongBlob, LowerOps
    <3> QED
      BY <1>1, <1>2, <1>3, <2>1, <2>3, <3>1, <3>2, EwahBlobsAnswer
         DEF IInv, EwahColumns, Satisfying
  <2> QED
    BY <1>2, <2>2, <2>3
<1>4. CASE Type[c.column] # "BLOB" /\ Kind[c.column] = "EWAH"
  <2>1. EwahIsSql
    BY EwahAnswers
  <2> QED
    BY <1>1, <1>2, <1>4, <2>1 DEF EwahIsSql, EwahColumns, Satisfying
<1>5. CASE Type[c.column] # "BLOB" /\ Kind[c.column] = "VECTOR"
  <2>1. Docs /\ Stored(c.column)
    BY <1>2, <1>5 DEF IInv, VectorColumns
  <2>2. CASE Type[c.column] = "INTEGER"
    BY <1>1, <1>5, <2>1, <2>2, VectorIntegersAnswer DEF FilterColumn, Class, Satisfying
  <2>3. CASE Type[c.column] = "DOUBLE"
    BY <1>1, <1>5, <2>1, <2>3, VectorOrderedAnswer DEF FilterColumn, Class, Satisfying
  <2>4. CASE Type[c.column] = "STRING"
    BY <1>1, <1>5, <2>1, <2>4, VectorOrderedAnswer DEF FilterColumn, Class, Satisfying
  <2> QED
    BY <1>2, <1>5, <2>2, <2>3, <2>4 DEF Types
<1> QED
  BY <1>2, <1>3, <1>4, <1>5

LEMMA RangeAnswers ==
  ASSUME IInv, NEW cs, NEW i \in DOMAIN cs, cs[i] \in Constraints,
         cs[i + 1] \in Constraints, IsTaken(cs[i]), IsRange(cs, i),
         ~IsWrongInteger(cs[i]), ~IsWrongInteger(cs[i + 1]), ~IsWrongBlob(cs, i)
  PROVE  FilterRange(cs[i], cs[i + 1]) = Satisfying(cs[i]) \cap Satisfying(cs[i + 1])
<1>1. PICK c \in Constraints : c = cs[i]
  OBVIOUS
<1>2. PICK d \in Constraints : d = cs[i + 1]
  OBVIOUS
<1> DEFINE both == {id \in Ids : /\ Satisfies(docs[id][c.column], c)
                                 /\ Satisfies(docs[id][c.column], d)}
<1>3. /\ c.column \in Columns /\ Kind[c.column] \in {"EWAH", "VECTOR"}
      /\ Type[c.column] \in Types
      /\ d.column = c.column /\ c.op \in LowerOps /\ d.op \in UpperOps
  BY <1>1, <1>2, ConstraintTypes, ColumnsAssumption DEF IsTaken, IsRange
<1>4. Satisfying(cs[i]) \cap Satisfying(cs[i + 1]) = both
  BY <1>1, <1>2, <1>3 DEF Satisfying
<1>5. CASE Type[c.column] = "BLOB" /\ Kind[c.column] = "VECTOR"
  <2>1. FilterRange(c, d) = VectorBlobRange(c, d)
    BY <1>5 DEF FilterRange, Class
  <2> QED
    BY <1>1, <1>2, <1>3, <1>4, <1>5, <2>1, VectorBlobRangesAnswer DEF IInv, VectorColumns
<1>6. CASE Type[c.column] = "BLOB" /\ Kind[c.column] = "EWAH"
  <2>1. FilterRange(c, d) = EwahBlobRange(c, d)
    BY <1>6 DEF FilterRange, Class
  <2>2. d.type = "BLOB" =>
            c.type = "BLOB" /\ ~(c.op = "GREATER_THAN_EQUAL" /\ IsNullBlob(c.operand))
    BY <1>1, <1>2, <1>3, <1>6 DEF IsWrongBlob
  <2> QED
    BY <1>1, <1>2, <1>3, <1>4, <1>6, <2>1, <2>2, EwahBlobRangesAnswer
       DEF IInv, EwahColumns
<1>7. CASE Type[c.column] # "BLOB" /\ Kind[c.column] = "EWAH"
  <2>1. EwahRangeIsSql
    BY EwahRangesAnswer
  <2> QED
    BY <1>1, <1>2, <1>3, <1>4, <1>7, <2>1 DEF EwahRangeIsSql, EwahColumns
<1>8. CASE Type[c.column] # "BLOB" /\ Kind[c.column] = "VECTOR"
  <2>1. Docs /\ Stored(c.column)
    BY <1>3, <1>8 DEF IInv, VectorColumns
  <2>2. CASE Type[c.column] = "INTEGER"
    <3>1. FilterRange(c, d) = VectorRange(c, d) /\ Class(c.column) = <<"VECTOR", "INTEGER">>
      BY <1>8, <2>2 DEF FilterRange, Class
    <3> QED
      BY <1>1, <1>2, <1>3, <1>4, <2>1, <3>1, VectorIntegerRangesAnswer
  <2>3. CASE Type[c.column] = "DOUBLE"
    <3>1. FilterRange(c, d) = VectorDoubleRange(c, d)
      BY <1>8, <2>3 DEF FilterRange, Class
    <3> QED
      BY <1>1, <1>2, <1>3, <1>4, <2>1, <2>3, <3>1, VectorOrderedRangesAnswer
  <2>4. CASE Type[c.column] = "STRING"
    <3>1. FilterRange(c, d) = VectorStringRange(c, d)
      BY <1>8, <2>4 DEF FilterRange, Class
    <3> QED
      BY <1>1, <1>2, <1>3, <1>4, <2>1, <2>4, <3>1, VectorOrderedRangesAnswer
  <2> QED
    BY <1>3, <1>8, <2>2, <2>3, <2>4 DEF Types
<1> QED
  BY <1>3, <1>5, <1>6, <1>7, <1>8

-----------------------------------------------------------------------------
(* Induction on the natural numbers, for a set. *)
LEMMA Induction ==
  ASSUME NEW S, 0 \in S, \A n \in Nat : n \in S => n + 1 \in S
  PROVE  \A n \in Nat : n \in S
<1> DEFINE T == Nat \ S
           R == {ss \in Nat \X Nat : ss[1] < ss[2]}
<1> SUFFICES ASSUME T # {} PROVE FALSE
  OBVIOUS
<1>1. IsWellFoundedOn(R, Nat)
  BY NatLessThanWellFounded DEF OpToRel
<1>2. PICK x \in T : \A y \in T : ~(<<y, x>> \in R)
  <2> HIDE DEF R
  <2>1. T \subseteq Nat
    OBVIOUS
  <2> HIDE DEF T
  <2> QED
    BY <1>1, <2>1, WFMin
<1>3. x \in Nat /\ x # 0 /\ x - 1 \in Nat
  OBVIOUS
<1>4. <<x - 1, x>> \in R
  BY <1>3
<1>5. x - 1 \notin T
  BY <1>2, <1>4
<1>6. x - 1 \in S /\ x = (x - 1) + 1
  BY <1>3, <1>5
<1> QED
  BY <1>3, <1>6

-----------------------------------------------------------------------------
(* LogicalAND *)

\* What the i-th bitmap makes of the two buffers.
And(bms, i, old) ==
    LET combined == IF i = 2 THEN bms[1] ELSE Result(i - 2, old.b1, old.b2)
    IN  IF i % 2 = 0 THEN [old EXCEPT !.b2 = bms[i] \cap combined]
                     ELSE [old EXCEPT !.b1 = bms[i] \cap combined]

NoBuffers == [b1 |-> {}, b2 |-> {}]

LEMMA BuffersExist ==
  ASSUME NEW bms, NEW n \in Nat
  PROVE  \E f : f = [i \in 1..n |-> IF i = 1 THEN NoBuffers ELSE And(bms, i, f[i - 1])]
<1> DEFINE Upto(m, f) == f = [i \in 1..m |-> IF i = 1 THEN NoBuffers ELSE And(bms, i, f[i - 1])]
           S == {m \in Nat : \E f : Upto(m, f)}
<1>1. 0 \in S
  <2>1. Upto(0, [i \in 1..0 |-> NoBuffers])
    OBVIOUS
  <2> QED
    BY <2>1
<1>2. ASSUME NEW m \in Nat, m \in S PROVE m + 1 \in S
  <2>1. PICK f : Upto(m, f)
    BY <1>2
  <2> DEFINE g == [i \in 1..(m + 1) |->
                      IF i = m + 1 THEN IF i = 1 THEN NoBuffers ELSE And(bms, i, f[i - 1])
                                   ELSE f[i]]
  <2>2. ASSUME NEW i \in 1..(m + 1)
        PROVE  g[i] = IF i = 1 THEN NoBuffers ELSE And(bms, i, g[i - 1])
    <3>1. i # 1 => g[i - 1] = f[i - 1]
      OBVIOUS
    <3> QED
      BY <2>1, <3>1
  <2>3. Upto(m + 1, g)
    BY <2>2
  <2> HIDE DEF g, Upto
  <2> QED
    BY <2>3
<1> HIDE DEF S
<1>3. n \in S
  BY <1>1, <1>2, Induction
<1> QED
  BY <1>3 DEF S

\* The bitmaps ANDed are their intersection, whichever buffer it ends up in.
LEMMA AndIsIntersection ==
  ASSUME NEW bms, Len(bms) \in Nat \ {0}
  PROVE  LogicalAND(bms) = {x \in bms[1] : \A j \in 1..Len(bms) : x \in bms[j]}
<1> DEFINE n == Len(bms)
           buffers[i \in 1..Len(bms)] ==
               IF i = 1 THEN [b1 |-> {}, b2 |-> {}]
               ELSE LET old == buffers[i - 1]
                        combined == IF i = 2 THEN bms[1] ELSE Result(i - 2, old.b1, old.b2)
                    IN  IF i % 2 = 0 THEN [old EXCEPT !.b2 = bms[i] \cap combined]
                                     ELSE [old EXCEPT !.b1 = bms[i] \cap combined]
<1>1. LogicalAND(bms) = IF n = 0 THEN {}
                        ELSE IF n = 1 THEN bms[1]
                        ELSE Result(n - 1, buffers[n].b1, buffers[n].b2)
  BY DEF LogicalAND
<1>2. buffers = CHOOSE f :
                  f = [i \in 1..n |-> IF i = 1 THEN NoBuffers ELSE And(bms, i, f[i - 1])]
  BY DEF NoBuffers, And
<1> HIDE DEF buffers
<1>3. buffers = [i \in 1..n |-> IF i = 1 THEN NoBuffers ELSE And(bms, i, buffers[i - 1])]
  BY <1>2, BuffersExist
<1> DEFINE All(i, x) == \A j \in 1..i : x \in bms[j]
           Is(i, p, q) == /\ buffers[i] = [b1 |-> p, b2 |-> q]
                          /\ Result(i - 1, p, q) = {x \in bms[1] : All(i, x)}
           S == {m \in Nat : m + 2 <= n => \E p, q : Is(m + 2, p, q)}
<1>4. ASSUME NEW i \in 2..n, NEW p, NEW q, buffers[i - 1] = [b1 |-> p, b2 |-> q],
             i > 2 => Result(i - 2, p, q) = {x \in bms[1] : All(i - 1, x)}
      PROVE  \E r, s : Is(i, r, s)
  <2> DEFINE combined == IF i = 2 THEN bms[1] ELSE Result(i - 2, p, q)
             old == [b1 |-> p, b2 |-> q]
  <2>1. bms[i] \cap combined = {x \in bms[1] : All(i, x)}
    <3>1. CASE i = 2
      BY <3>1
    <3>2. CASE i > 2
      <4>1. \A x : All(i, x) <=> All(i - 1, x) /\ x \in bms[i]
        BY <3>2
      <4> HIDE DEF All
      <4> QED
        BY <1>4, <3>2, <4>1
    <3> QED
      BY <3>1, <3>2
  <2> HIDE DEF All
  <2>2. buffers[i] = And(bms, i, old)
    BY <1>3, <1>4
  <2>3. CASE i % 2 = 0
    <3>1. And(bms, i, old) = [old EXCEPT !.b2 = bms[i] \cap combined]
      BY <2>3 DEF And
    <3> HIDE DEF combined
    <3>2. buffers[i] = [b1 |-> p, b2 |-> bms[i] \cap combined]
      BY <2>2, <3>1
    <3>3. (i - 1) % 2 # 0
      BY <2>3
    <3>4. Is(i, p, bms[i] \cap combined)
      BY <2>1, <3>2, <3>3 DEF Result
    <3> QED
      BY <3>4
  <2>4. CASE i % 2 # 0
    <3>1. And(bms, i, old) = [old EXCEPT !.b1 = bms[i] \cap combined]
      BY <2>4 DEF And
    <3> HIDE DEF combined
    <3>2. buffers[i] = [b1 |-> bms[i] \cap combined, b2 |-> q]
      BY <2>2, <3>1
    <3>3. (i - 1) % 2 = 0
      BY <2>4
    <3>4. Is(i, bms[i] \cap combined, q)
      BY <2>1, <3>2, <3>3 DEF Result
    <3> QED
      BY <3>4
  <2> QED
    BY <2>3, <2>4
<1> HIDE DEF Is
<1>5. 0 \in S
  <2> SUFFICES ASSUME 2 <= n PROVE \E p, q : Is(2, p, q)
    OBVIOUS
  <2>1. buffers[2 - 1] = [b1 |-> {}, b2 |-> {}]
    BY <1>3 DEF NoBuffers
  <2> QED
    BY <1>4, <2>1
<1>6. ASSUME NEW m \in Nat, m \in S PROVE m + 1 \in S
  <2> SUFFICES ASSUME (m + 1) + 2 <= n PROVE \E p, q : Is((m + 1) + 2, p, q)
    OBVIOUS
  <2>1. PICK p, q : Is(m + 2, p, q)
    BY <1>6
  <2>2. PICK i \in 2..n : i = (m + 1) + 2
    OBVIOUS
  <2>3. i > 2 /\ i - 1 = m + 2 /\ i - 2 = (m + 2) - 1
    BY <2>2
  <2>4. \E r, s : Is(i, r, s)
    <3> HIDE DEF All
    <3>1. /\ buffers[i - 1] = [b1 |-> p, b2 |-> q]
          /\ Result(i - 2, p, q) = {x \in bms[1] : All(i - 1, x)}
      BY <2>1, <2>3 DEF Is
    <3> QED
      BY <1>4, <3>1
  <2> QED
    BY <2>2, <2>4
<1> HIDE DEF S
<1>7. \A m \in Nat : m \in S
  BY <1>5, <1>6, Induction
<1>8. CASE n = 1
  BY <1>1, <1>8
<1>9. CASE n >= 2
  <2>1. n - 2 \in Nat /\ (n - 2) + 2 = n
    BY <1>9
  <2>2. n - 2 \in S
    BY <1>7, <2>1
  <2>3. PICK p, q : Is(n, p, q)
    BY <2>1, <2>2 DEF S
  <2> HIDE DEF All
  <2>4. Result(n - 1, buffers[n].b1, buffers[n].b2) = {x \in bms[1] : All(n, x)}
    BY <2>3 DEF Is
  <2> QED
    BY <1>1, <1>9, <2>4 DEF All
<1>10. n = 1 \/ n >= 2
  OBVIOUS
<1> QED
  BY <1>8, <1>9, <1>10, Zenon

-----------------------------------------------------------------------------
(* The constraints taken *)

TakenStep(cs, i, before) == IF IsTaken(cs[i]) THEN Append(before, cs[i]) ELSE before

LEMMA TakenExist ==
  ASSUME NEW cs, NEW n \in Nat
  PROVE  \E f : f = [i \in 0..n |-> IF i = 0 THEN <<>> ELSE TakenStep(cs, i, f[i - 1])]
<1> DEFINE Upto(m, f) == f = [i \in 0..m |-> IF i = 0 THEN <<>> ELSE TakenStep(cs, i, f[i - 1])]
           S == {m \in Nat : \E f : Upto(m, f)}
<1>1. 0 \in S
  <2>1. Upto(0, [i \in 0..0 |-> <<>>])
    OBVIOUS
  <2> QED
    BY <2>1
<1>2. ASSUME NEW m \in Nat, m \in S PROVE m + 1 \in S
  <2>1. PICK f : Upto(m, f)
    BY <1>2
  <2> DEFINE g == [i \in 0..(m + 1) |->
                      IF i = m + 1 THEN TakenStep(cs, i, f[i - 1]) ELSE f[i]]
  <2>2. ASSUME NEW i \in 0..(m + 1)
        PROVE  g[i] = IF i = 0 THEN <<>> ELSE TakenStep(cs, i, g[i - 1])
    <3>1. i # 0 => g[i - 1] = f[i - 1]
      OBVIOUS
    <3> QED
      BY <2>1, <3>1
  <2>3. Upto(m + 1, g)
    BY <2>2
  <2> HIDE DEF g, Upto
  <2> QED
    BY <2>3
<1> HIDE DEF S
<1>3. n \in S
  BY <1>1, <1>2, Induction
<1> QED
  BY <1>3 DEF S

\* xBestIndex takes just the constraints that an index can answer.
LEMMA TakenConstraints ==
  ASSUME NEW cs \in Seq(Constraints)
  PROVE  /\ Taken(cs) \in Seq(Constraints)
         /\ \A c : (\E j \in DOMAIN Taken(cs) : Taken(cs)[j] = c)
                      <=> IsTaken(c) /\ \E i \in DOMAIN cs : cs[i] = c
<1> DEFINE n == Len(cs)
           upTo[i \in 0..Len(cs)] ==
               IF i = 0 THEN <<>>
               ELSE IF IsTaken(cs[i]) THEN Append(upTo[i - 1], cs[i])
               ELSE upTo[i - 1]
<1>1. Taken(cs) = upTo[n] /\ n \in Nat
  BY DEF Taken
<1>2. upTo = CHOOSE f : f = [i \in 0..n |-> IF i = 0 THEN <<>> ELSE TakenStep(cs, i, f[i - 1])]
  BY DEF TakenStep
<1> HIDE DEF upTo
<1>3. upTo = [i \in 0..n |-> IF i = 0 THEN <<>> ELSE TakenStep(cs, i, upTo[i - 1])]
  BY <1>1, <1>2, TakenExist
<1> DEFINE Holding(t, m) ==
              \A c : (\E j \in 1..Len(t) : t[j] = c)
                        <=> IsTaken(c) /\ \E i \in 1..m : cs[i] = c
           S == {m \in Nat : m <= n => upTo[m] \in Seq(Constraints) /\ Holding(upTo[m], m)}
<1>4. 0 \in S
  <2>1. upTo[0] = <<>>
    BY <1>1, <1>3
  <2>2. Holding(<<>>, 0)
    OBVIOUS
  <2>3. <<>> \in Seq(Constraints)
    OBVIOUS
  <2> HIDE DEF Holding
  <2> QED
    BY <2>1, <2>2, <2>3
<1>5. ASSUME NEW m \in Nat, m \in S PROVE m + 1 \in S
  <2> SUFFICES ASSUME m + 1 <= n
               PROVE  upTo[m + 1] \in Seq(Constraints) /\ Holding(upTo[m + 1], m + 1)
    OBVIOUS
  <2>0. upTo[m] \in Seq(Constraints) /\ Holding(upTo[m], m)
    <3> HIDE DEF Holding
    <3> QED
      BY <1>1, <1>5
  <2>1. PICK t \in Seq(Constraints) : t = upTo[m] /\ Holding(t, m)
    <3> HIDE DEF Holding
    <3> QED
      BY <2>0
  <2>2. upTo[m + 1] = TakenStep(cs, m + 1, t)
    BY <1>1, <1>3, <2>1
  <2>3. cs[m + 1] \in Constraints
    BY <1>1
  <2>4. \A c : (\E i \in 1..(m + 1) : cs[i] = c) <=> cs[m + 1] = c \/ \E i \in 1..m : cs[i] = c
    OBVIOUS
  <2>5. CASE IsTaken(cs[m + 1])
    <3>1. PICK u : u = Append(t, cs[m + 1])
      OBVIOUS
    <3>2. /\ u \in Seq(Constraints) /\ Len(t) \in Nat /\ Len(u) = Len(t) + 1
          /\ u[Len(u)] = cs[m + 1] /\ \A j \in 1..Len(t) : u[j] = t[j]
      BY <2>3, <3>1
    <3>3. \A c : (\E j \in 1..Len(u) : u[j] = c) <=> cs[m + 1] = c \/ \E j \in 1..Len(t) : t[j] = c
      BY <3>2
    <3>4. Holding(u, m + 1)
      BY <2>1, <2>4, <2>5, <3>3
    <3> HIDE DEF Holding
    <3> QED
      BY <2>2, <2>5, <3>1, <3>2, <3>4 DEF TakenStep
  <2>6. CASE ~IsTaken(cs[m + 1])
    <3>1. Holding(t, m + 1)
      BY <2>1, <2>4, <2>6
    <3> QED
      BY <2>1, <2>2, <2>6, <3>1 DEF TakenStep
  <2> QED
    BY <2>5, <2>6
<1> HIDE DEF S
<1>6. n \in S
  BY <1>1, <1>4, <1>5, Induction
<1>7. PICK t \in Seq(Constraints) : t = Taken(cs) /\ Holding(t, n)
  <2> HIDE DEF Holding
  <2> QED
    BY <1>1, <1>6 DEF S
<1>8. DOMAIN t = 1..Len(t) /\ DOMAIN cs = 1..n
  OBVIOUS
<1> QED
  BY <1>7, <1>8

-----------------------------------------------------------------------------
(* The constraints joined into ranges *)

PartsStep(cs, i, one, two) ==
    IF i > Len(cs) THEN <<>>
    ELSE IF IsRange(cs, i) THEN <<FilterRange(cs[i], cs[i + 1])>> \o two
    ELSE <<FilterColumn(cs[i])>> \o one

LEMMA PartsExist ==
  ASSUME NEW cs, Len(cs) \in Nat
  PROVE  \E f : f = [i \in 1..(Len(cs) + 2) |-> PartsStep(cs, i, f[i + 1], f[i + 2])]
<1> DEFINE last == Len(cs) + 2
           From(m, f) ==
              \A i \in 1..last : i > last - m =>
                  f[i] = PartsStep(cs, i, f[i + 1], f[i + 2])
           S == {m \in Nat : \E f : From(m, f)}
<1>1. 0 \in S
  <2>1. From(0, <<>>)
    OBVIOUS
  <2> QED
    BY <2>1
<1>2. ASSUME NEW m \in Nat, m \in S PROVE m + 1 \in S
  <2>1. PICK f : From(m, f)
    BY <1>2
  <2> DEFINE k == last - m
             g == [i \in 1..(last + 2) |->
                      IF i = k THEN PartsStep(cs, k, f[k + 1], f[k + 2]) ELSE f[i]]
  <2>2. ASSUME NEW i \in 1..last, i > last - (m + 1)
        PROVE  g[i] = PartsStep(cs, i, g[i + 1], g[i + 2])
    <3>1. i >= k /\ i + 1 \in 1..(last + 2) /\ i + 2 \in 1..(last + 2)
      BY <2>2
    <3>2. g[i + 1] = f[i + 1] /\ g[i + 2] = f[i + 2]
      BY <3>1
    <3>3. CASE i = k
      BY <3>2, <3>3
    <3>4. CASE i > k
      BY <2>1, <3>2, <3>4
    <3> QED
      BY <3>1, <3>3, <3>4
  <2>3. From(m + 1, g)
    BY <2>2
  <2> HIDE DEF g, From
  <2> QED
    BY <2>3
<1> HIDE DEF S
<1>3. PICK f : From(last, f)
  <2>1. last \in S
    BY <1>1, <1>2, Induction
  <2> QED
    BY <2>1 DEF S
<1> DEFINE g == [i \in 1..last |-> f[i]]
<1>4. ASSUME NEW i \in 1..last PROVE g[i] = PartsStep(cs, i, g[i + 1], g[i + 2])
  <2>1. g[i] = PartsStep(cs, i, f[i + 1], f[i + 2])
    BY <1>3
  <2>2. CASE i > Len(cs)
    BY <2>1, <2>2 DEF PartsStep
  <2>3. CASE i <= Len(cs)
    <3>1. g[i + 1] = f[i + 1] /\ g[i + 2] = f[i + 2]
      BY <2>3
    <3> QED
      BY <2>1, <3>1
  <2> QED
    BY <2>2, <2>3
<1>5. g = [i \in 1..last |-> PartsStep(cs, i, g[i + 1], g[i + 2])]
  BY <1>4
<1> QED
  BY <1>5

-----------------------------------------------------------------------------
LEMMA Prepended ==
  ASSUME NEW V, NEW X \in V, NEW t \in Seq(V), NEW u, u = <<X>> \o t
  PROVE  /\ u \in Seq(V) /\ Len(u) >= 1
         /\ \A id : (\A k \in 1..Len(u) : id \in u[k])
                       <=> id \in X /\ \A k \in 1..Len(t) : id \in t[k]
<1>2. Len(t) \in Nat /\ <<X>> \in Seq(V) /\ Len(<<X>>) = 1 /\ <<X>>[1] = X
  OBVIOUS
<1>3. /\ u \in Seq(V) /\ Len(u) = Len(t) + 1 /\ u[1] = X
      /\ \A k \in 1..Len(t) : u[k + 1] = t[k]
  <2>1. /\ u \in Seq(V) /\ Len(u) = 1 + Len(t)
        /\ \A i \in 1..(1 + Len(t)) : u[i] = IF i <= 1 THEN <<X>>[i] ELSE t[i - 1]
    BY <1>2, ConcatProperties
  <2> QED
    BY <1>2, <2>1
<1>4. ASSUME NEW id
      PROVE  (\A k \in 1..Len(u) : id \in u[k]) <=> id \in X /\ \A k \in 1..Len(t) : id \in t[k]
  <2>1. ASSUME \A k \in 1..Len(u) : id \in u[k]
        PROVE  id \in X /\ \A k \in 1..Len(t) : id \in t[k]
    <3>1. id \in X
      BY <1>2, <1>3, <2>1
    <3>2. ASSUME NEW k \in 1..Len(t) PROVE id \in t[k]
      <4>1. k + 1 \in 1..Len(u)
        BY <1>2, <1>3
      <4> QED
        BY <1>3, <2>1, <4>1
    <3> QED
      BY <3>1, <3>2
  <2>2. ASSUME id \in X, \A k \in 1..Len(t) : id \in t[k], NEW k \in 1..Len(u)
        PROVE  id \in u[k]
    <3>1. k = 1 \/ (k - 1 \in 1..Len(t) /\ k = (k - 1) + 1)
      BY <1>2, <1>3
    <3> QED
      BY <1>3, <2>2, <3>1
  <2> QED
    BY <2>1, <2>2
<1> QED
  BY <1>2, <1>3, <1>4

\* The parts have in common the rows that satisfy every constraint, however the
\* constraints are joined.
LEMMA PartsMeet ==
  ASSUME IInv, NEW cs \in Seq(Constraints), cs # <<>>, Answerable(cs),
         \A i \in DOMAIN cs : IsTaken(cs[i])
  PROVE  /\ Parts(cs) \in Seq(SUBSET Ids) /\ Len(Parts(cs)) >= 1
         /\ \A id : (\A k \in 1..Len(Parts(cs)) : id \in Parts(cs)[k])
                       <=> \A j \in 1..Len(cs) : id \in Satisfying(cs[j])
<1> DEFINE n == Len(cs)
           from[i \in 1..(Len(cs) + 2)] ==
               IF i > Len(cs) THEN <<>>
               ELSE IF IsRange(cs, i) THEN <<FilterRange(cs[i], cs[i + 1])>> \o from[i + 2]
               ELSE <<FilterColumn(cs[i])>> \o from[i + 1]
<1>1. Parts(cs) = from[1] /\ n \in Nat \ {0} /\ DOMAIN cs = 1..n
  <2>1. Len(cs) \in Nat \ {0}
    BY EmptySeq
  <2> QED
    BY <2>1 DEF Parts
<1>0. n \in Int
  BY <1>1
<1>2. from = CHOOSE f : f = [i \in 1..(n + 2) |-> PartsStep(cs, i, f[i + 1], f[i + 2])]
  BY DEF PartsStep
<1> HIDE DEF from
<1>3. from = [i \in 1..(n + 2) |-> PartsStep(cs, i, from[i + 1], from[i + 2])]
  BY <1>1, <1>2, PartsExist
<1> DEFINE Meet(i, t) ==
              /\ t \in Seq(SUBSET Ids) /\ (i <= n => Len(t) >= 1)
              /\ \A id : (\A k \in 1..Len(t) : id \in t[k])
                            <=> \A j \in i..n : id \in Satisfying(cs[j])
           S == {m \in Nat : \A i \in 1..(n + 2) : i > n - m => Meet(i, from[i])}
<1>4. 0 \in S
  <2> SUFFICES ASSUME NEW i \in 1..(n + 2), i > n PROVE Meet(i, from[i])
    <3> HIDE DEF Meet
    <3> QED
      BY <1>1
  <2>1. from[i] = <<>>
    BY <1>1, <1>3 DEF PartsStep
  <2>2. <<>> \in Seq(SUBSET Ids) /\ Len(<<>>) = 0
    OBVIOUS
  <2>3. \A id : /\ \A k \in 1..Len(<<>>) : id \in <<>>[k]
                /\ \A j \in i..n : id \in Satisfying(cs[j])
    BY <1>1
  <2>4. ~(i <= n)
    BY <1>1
  <2> QED
    BY <2>1, <2>2, <2>3, <2>4, Zenon
<1>5. ASSUME NEW m \in Nat, m \in S PROVE m + 1 \in S
  <2> SUFFICES ASSUME NEW i \in 1..(n + 2), i = n - m PROVE Meet(i, from[i])
    <3>1. \A i \in 1..(n + 2) : i > n - (m + 1) => i = n - m \/ i > n - m
      <4> HIDE DEF n
      <4> QED
        BY <1>0
    <3> HIDE DEF Meet
    <3>2. \A i \in 1..(n + 2) : i > n - m => Meet(i, from[i])
      BY <1>5
    <3>3. m + 1 \in Nat
      OBVIOUS
    <3> QED
      BY <3>1, <3>2, <3>3
  <2>1. /\ i \in 1..n /\ i + 1 \in 1..(n + 2) /\ i + 1 > n - m
        /\ i + 2 \in 1..(n + 2) /\ i + 2 > n - m
    BY <1>1
  <2>2. Meet(i + 1, from[i + 1]) /\ Meet(i + 2, from[i + 2])
    <3> HIDE DEF Meet
    <3> QED
      BY <1>5, <2>1
  <2>3. from[i] = PartsStep(cs, i, from[i + 1], from[i + 2])
    BY <1>3
  <2>4. \A c \in Constraints : Satisfying(c) \in SUBSET Ids
    BY DEF Satisfying
  <2>5. /\ cs[i] \in Constraints /\ IsTaken(cs[i]) /\ i \in DOMAIN cs
        /\ ~IsWrongInteger(cs[i]) /\ ~IsWrongBlob(cs, i)
    <3>1. i \in DOMAIN cs /\ cs[i] \in Constraints
      BY <1>1, <2>1
    <3> QED
      BY <3>1 DEF Answerable
  <2>6. CASE ~IsRange(cs, i)
    <3>1. PICK X \in SUBSET Ids : X = Satisfying(cs[i]) /\ X = FilterColumn(cs[i])
      BY <2>4, <2>5, <2>6, ColumnAnswers
    <3>2. from[i] = <<X>> \o from[i + 1]
      <4>1. ~(i > Len(cs))
        BY <1>1, <2>1
      <4> QED
        BY <2>3, <2>6, <3>1, <4>1, Zenon DEF PartsStep
    <3>3. \A id : (\A j \in i..n : id \in Satisfying(cs[j]))
                     <=> id \in X /\ \A j \in (i + 1)..n : id \in Satisfying(cs[j])
      <4>1. \A j : j \in i..n <=> j = i \/ j \in (i + 1)..n
        BY <1>1, <2>1
      <4> QED
        BY <3>1, <4>1, Zenon
    <3>4. PICK t \in Seq(SUBSET Ids) : t = from[i + 1]
      BY <2>2
    <3>5. /\ from[i] \in Seq(SUBSET Ids) /\ Len(from[i]) >= 1
          /\ \A id : (\A k \in 1..Len(from[i]) : id \in from[i][k])
                        <=> id \in X /\ \A k \in 1..Len(t) : id \in t[k]
      <4>1. X \in SUBSET Ids /\ t \in Seq(SUBSET Ids) /\ from[i] = <<X>> \o t
        BY <3>2, <3>4
      <4> QED
        BY <4>1, Prepended
    <3> QED
      BY <2>2, <3>3, <3>4, <3>5, Zenon
  <2>7. CASE IsRange(cs, i)
    <3>1. i + 1 \in DOMAIN cs /\ cs[i + 1] \in Constraints
      BY <1>1, <2>1, <2>7 DEF IsRange
    <3>2. ~IsWrongInteger(cs[i + 1])
      BY <3>1 DEF Answerable
    <3>3. PICK X \in SUBSET Ids : /\ X = FilterRange(cs[i], cs[i + 1])
                                  /\ X = Satisfying(cs[i]) \cap Satisfying(cs[i + 1])
      <4>1. FilterRange(cs[i], cs[i + 1]) = Satisfying(cs[i]) \cap Satisfying(cs[i + 1])
        BY <2>5, <2>7, <3>1, <3>2, RangeAnswers
      <4> QED
        BY <2>4, <2>5, <4>1
    <3>4. from[i] = <<X>> \o from[i + 2]
      BY <1>1, <2>1, <2>3, <2>7, <3>3 DEF PartsStep
    <3>5. \A id : (\A j \in i..n : id \in Satisfying(cs[j]))
                     <=> id \in X /\ \A j \in (i + 2)..n : id \in Satisfying(cs[j])
      <4>1. \A j : j \in i..n <=> j = i \/ j = i + 1 \/ j \in (i + 2)..n
        <5>1. i \in 1..n /\ i + 1 \in 1..n
          BY <1>1, <2>1, <3>1
        <5> HIDE DEF n
        <5> QED
          BY <1>0, <5>1
      <4>2. \A id : id \in X <=> id \in Satisfying(cs[i]) /\ id \in Satisfying(cs[i + 1])
        BY <3>3
      <4> QED
        BY <4>1, <4>2, Zenon
    <3>6. PICK t \in Seq(SUBSET Ids) : t = from[i + 2]
      BY <2>2
    <3>7. /\ from[i] \in Seq(SUBSET Ids) /\ Len(from[i]) >= 1
          /\ \A id : (\A k \in 1..Len(from[i]) : id \in from[i][k])
                        <=> id \in X /\ \A k \in 1..Len(t) : id \in t[k]
      <4>1. X \in SUBSET Ids /\ t \in Seq(SUBSET Ids) /\ from[i] = <<X>> \o t
        BY <3>4, <3>6
      <4> QED
        BY <4>1, Prepended
    <3> QED
      BY <2>2, <3>5, <3>6, <3>7, Zenon
  <2> QED
    BY <2>6, <2>7
<1> HIDE DEF S
<1>6. n \in S
  BY <1>1, <1>4, <1>5, Induction
<1>7. Meet(1, from[1])
  <2>1. 1 \in 1..(n + 2) /\ 1 > n - n
    BY <1>1
  <2> HIDE DEF Meet
  <2> QED
    BY <1>6, <2>1 DEF S
<1>8. 1 <= n
  BY <1>1
<1> QED
  BY <1>1, <1>7, <1>8, Zenon

LEMMA FilterAnswers ==
  ASSUME IInv, NEW cs \in Seq(Constraints), cs # <<>>, Answerable(cs),
         \A i \in DOMAIN cs : IsTaken(cs[i])
  PROVE  Filter(cs) = {id \in Ids : \A i \in DOMAIN cs : id \in Satisfying(cs[i])}
<1>1. PICK t \in Seq(SUBSET Ids) :
        /\ t = Parts(cs) /\ Len(t) >= 1
        /\ \A id : (\A k \in 1..Len(t) : id \in t[k])
                      <=> \A j \in 1..Len(cs) : id \in Satisfying(cs[j])
  BY PartsMeet, Zenon
<1>2. Len(t) \in Nat \ {0} /\ t[1] \in SUBSET Ids /\ 1 \in 1..Len(t)
  BY <1>1
<1>3. Filter(cs) = {x \in t[1] : \A j \in 1..Len(t) : x \in t[j]}
  BY <1>1, <1>2, AndIsIntersection DEF Filter
<1>4. DOMAIN cs = 1..Len(cs)
  OBVIOUS
<1> QED
  BY <1>1, <1>2, <1>3, <1>4

-----------------------------------------------------------------------------
\* The value SQLite sees of a row is that of the document.
LEMMA ColumnValues ==
  ASSUME IInv, NEW col \in Columns, NEW id \in Ids
  PROVE  ColumnValue(col, id) = docs[id][col]
<1>1. CASE Kind[col] = "VECTOR"
  BY <1>1, StoredIds DEF ColumnValue, HasValue, IInv, VectorColumns
<1>2. CASE Kind[col] # "VECTOR"
  BY <1>2 DEF ColumnValue, HasValue
<1> QED
  BY <1>1, <1>2

LEMMA SelectAnswers ==
  ASSUME IInv, NEW cs \in Seq(Constraints), Answerable(Taken(cs))
  PROVE  Select(cs) = {id \in Ids : \A i \in DOMAIN cs : Satisfies(docs[id][cs[i].column], cs[i])}
<1>1. PICK t \in Seq(Constraints) :
        /\ t = Taken(cs)
        /\ \A c : (\E j \in DOMAIN t : t[j] = c)
                     <=> IsTaken(c) /\ \E i \in DOMAIN cs : cs[i] = c
  BY TakenConstraints, Zenon
<1>2. ASSUME NEW i \in DOMAIN cs PROVE cs[i] \in Constraints /\ cs[i].column \in Columns
  BY ConstraintTypes
<1>3. Scan(cs) = {id \in Ids : \A i \in DOMAIN cs : IsTaken(cs[i]) => id \in Satisfying(cs[i])}
  <2>1. \A id : (\A j \in DOMAIN t : id \in Satisfying(t[j]))
                   <=> \A i \in DOMAIN cs : IsTaken(cs[i]) => id \in Satisfying(cs[i])
    BY <1>1
  <2>2. CASE t = <<>>
    <3>1. DOMAIN t = {}
      BY <2>2
    <3>2. Scan(cs) = Ids
      BY <1>1, <2>2 DEF Scan
    <3> QED
      BY <2>1, <3>1, <3>2
  <2>3. CASE t # <<>>
    <3>1. \A j \in DOMAIN t : IsTaken(t[j])
      BY <1>1
    <3>2. Scan(cs) = Filter(t)
      BY <1>1, <2>3 DEF Scan
    <3>3. Filter(t) = {id \in Ids : \A j \in DOMAIN t : id \in Satisfying(t[j])}
      BY <1>1, <2>3, <3>1, FilterAnswers
    <3> QED
      BY <2>1, <3>2, <3>3
  <2> QED
    BY <2>2, <2>3
<1>4. ASSUME NEW id \in Ids, NEW i \in DOMAIN cs
      PROVE  /\ ColumnValue(cs[i].column, id) = docs[id][cs[i].column]
             /\ id \in Satisfying(cs[i]) <=> Satisfies(docs[id][cs[i].column], cs[i])
  BY <1>2, ColumnValues DEF Satisfying
<1>5. ASSUME NEW id \in Ids
      PROVE  id \in Select(cs)
                <=> \A i \in DOMAIN cs : Satisfies(docs[id][cs[i].column], cs[i])
  BY <1>3, <1>4 DEF Select
<1>6. Select(cs) \subseteq Ids
  BY <1>3 DEF Select
<1> QED
  BY <1>5, <1>6

-----------------------------------------------------------------------------
\* Under an EWAH index every comparison of integers, doubles or strings gives
\* exactly the rows SQL asks for.
THEOREM EwahAnswersSql == Spec => []EwahIsSql
BY EwahAnswers, Inductive, PTL

\* Joining a lower and an upper bound into one range loses and adds no row.
THEOREM EwahRangesAnswerSql == Spec => []EwahRangeIsSql
BY EwahRangesAnswer, Inductive, PTL

\* Every SELECT gives the rows SQL asks for, whatever the types of columns and
\* operands, whichever columns have an index, and however constraints are joined into
\* ranges and their bitmaps combined: but for the operands that an index is known to
\* get wrong.
THEOREM QueriesAnswerSql ==
  ASSUME \A cs \in Queries : cs \in Seq(Constraints) /\ Answerable(Taken(cs))
  PROVE  Spec => []FilterIsSql
<1>1. IInv => FilterIsSql
  BY SelectAnswers DEF FilterIsSql
<1> QED
  BY <1>1, Inductive, PTL
=============================================================================
