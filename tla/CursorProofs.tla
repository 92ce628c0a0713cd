---------------------------- MODULE CursorProofs ----------------------------
(***************************************************************************)
(* The virtual table that SQLite reads through cursors: the rows of a      *)
(* cursor, the columns of the table, and the values of both.               *)
(*                                                                         *)
(* Rows.  Every pass of a cursor delivers the ids of its bitmap, in order, *)
(* each once, for every bitmap and every VECTOR_SIZE.  EachRowOnce speaks  *)
(* of what has been delivered; it is inductive together with where the     *)
(* rest of the bitmap is: first in the span, from the row that is read     *)
(* next, then behind the iterator.                                         *)
(*                                                                         *)
(* Columns.  For every schema the walk that creates the table lists the    *)
(* names that GetFieldType gives a type of SQLite.  The argument is by the *)
(* names the walk has passed: the calls on the stack go along the          *)
(* prefixes, each is done with so many fields, and a name is passed if it  *)
(* agrees with the prefixes up to a call that is done with its next token. *)
(* The columns are the readable names that are passed; when the walk       *)
(* leaves the root object, those are all.                                  *)
(*                                                                         *)
(* Values.  A sub-document is overwritten level by level, so that what is  *)
(* read through it is of the document at hand, whatever it held before.    *)
(***************************************************************************)
EXTENDS Cursor, Documents, FiniteSetTheorems, SequenceTheorems,
        WellFoundedInduction, TLAPS

\* Rows of the span that this pass has delivered already.
Consumed == IF state = "row" THEN index + 1
            ELSE IF state = "eof" /\ SpanHasMore THEN index
            ELSE Len(span)

Delivered == \A i \in 1..Len(visited) : visited[i] = filtered[i]

InSpan == \A i \in 1..(Len(span) - Consumed) :
              span[Consumed + i] = filtered[Len(visited) + i]

Behind == \A i \in 1..Len(rest) :
              rest[i] = filtered[Len(visited) + (Len(span) - Consumed) + i]

Complete == Len(filtered) = Len(visited) + (Len(span) - Consumed) + Len(rest)

Pass == state \in {"eof", "row", "end"} =>
            /\ Delivered /\ InSpan /\ Behind /\ Complete
            /\ state = "end" => rest = <<>>

\* The document that is parsed is the one noted.
Noted == document # NoDocument => documentID = document

-----------------------------------------------------------------------------
\* What a bitmap's iterator delivers is a sequence of ids.
LEMMA BitmapsAreSequences == Bitmaps \subseteq Seq(Ids)
<1> SUFFICES ASSUME NEW n \in 0..Cardinality(Ids), NEW s \in [1..n -> Ids]
             PROVE  s \in Seq(Ids)
  BY DEF Bitmaps
<1>1. CASE Cardinality(Ids) \in Nat
  BY <1>1
<1>2. Cardinality(Ids) \in Nat
  BY CursorAssumption, FS_CardinalityType
<1> QED
  BY <1>1, <1>2

\* A batch is not empty and fits the vector.
LEMMA BatchSizeRange ==
  ASSUME rest \in Seq(Ids), rest # <<>>
  PROVE  BatchSize \in 1..Len(rest) /\ BatchSize <= VectorSize
BY CursorAssumption DEF BatchSize

\* IDSequence::Next splits the ids behind the iterator.
LEMMA NextVectorSplits ==
  ASSUME rest \in Seq(Ids), NextVector
  PROVE  /\ span' \in Seq(Ids) /\ rest' \in Seq(Ids)
         /\ Len(span') \in 1..Len(rest) /\ Len(span') <= VectorSize
         /\ Len(rest') = Len(rest) - Len(span')
         /\ \A i \in 1..Len(span') : span'[i] = rest[i]
         /\ \A i \in 1..Len(rest') : rest'[i] = rest[Len(span') + i]
<1>1. BatchSize \in 1..Len(rest) /\ BatchSize <= VectorSize
  BY BatchSizeRange DEF NextVector
<1>2. span' = SubSeq(rest, 1, BatchSize) /\ rest' = SubSeq(rest, BatchSize + 1, Len(rest))
  BY DEF NextVector
<1>3. /\ span' \in Seq(Ids) /\ Len(span') = BatchSize
      /\ \A i \in 1..BatchSize : span'[i] = rest[i]
  BY <1>1, <1>2
<1>4. /\ rest' \in Seq(Ids) /\ Len(rest') = Len(rest) - BatchSize
      /\ \A i \in 1..(Len(rest) - BatchSize) : rest'[i] = rest[BatchSize + i]
  BY <1>1, <1>2
<1> QED
  BY <1>1, <1>3, <1>4

-----------------------------------------------------------------------------
LEMMA TypeInit == Init => TypeOK
BY CursorAssumption DEF Init, TypeOK

LEMMA TypeStep == TypeOK /\ [Step]_vars => TypeOK'
<1> SUFFICES ASSUME TypeOK, [Step]_vars PROVE TypeOK'
  OBVIOUS
<1> USE CursorAssumption DEF TypeOK
<1>1. CASE Open
  BY <1>1 DEF Open
<1>2. CASE Close
  BY <1>2 DEF Close
<1>3. CASE Filter
  BY <1>3, BitmapsAreSequences DEF Filter
<1>4. CASE FilterFails
  BY <1>4 DEF FilterFails
<1>5. CASE EofInSpan
  BY <1>5 DEF EofInSpan, SpanHasMore, Visit
<1>6. CASE EofNextVector
  BY <1>6, NextVectorSplits DEF EofNextVector, Visit
<1>7. CASE EofAtEnd
  BY <1>7 DEF EofAtEnd
<1>8. CASE Next
  BY <1>8 DEF Next
<1>9. CASE ColumnCached \/ ColumnIndexed
  BY <1>9 DEF ColumnCached, ColumnIndexed, Answer
<1>10. CASE ColumnFetched
  <2>1. index \in 0..(Len(span) - 1) /\ index + 1 \in 1..Len(span)
    BY <1>10 DEF ColumnFetched
  <2>2. Rowid \in Ids
    BY <2>1 DEF Rowid
  <2> QED
    BY <1>10, <2>2 DEF ColumnFetched
<1>11. CASE ColumnFails
  BY <1>11 DEF ColumnFails
<1>12. CASE UNCHANGED vars
  BY <1>12 DEF vars
<1> QED
  BY <1>1, <1>2, <1>3, <1>4, <1>5, <1>6, <1>7, <1>8, <1>9, <1>10, <1>11, <1>12
     DEF Step

\* Every variable keeps its type, and idSeq_index is inside the span whenever
\* xRowid or xColumn reads there.
THEOREM TypeCorrect == Spec => []TypeOK
BY TypeInit, TypeStep, PTL DEF Spec

-----------------------------------------------------------------------------
LEMMA PassStep == TypeOK /\ TypeOK' /\ Pass /\ [Step]_vars => Pass'
<1> SUFFICES ASSUME TypeOK, TypeOK', Pass, [Step]_vars PROVE Pass'
  OBVIOUS
<1> USE DEF Pass, Delivered, InSpan, Behind, Complete, Consumed, SpanHasMore
<1>1. CASE Open \/ Close \/ FilterFails \/ ColumnFails
  BY <1>1 DEF Open, Close, FilterFails, ColumnFails
<1>2. CASE Filter
  BY <1>2 DEF Filter, TypeOK
<1>3. CASE EofInSpan
  <2>1. /\ Consumed = index /\ Consumed' = index + 1 /\ index \in 0..(Len(span) - 1)
        /\ state = "eof" /\ state' = "row"
    BY <1>3 DEF EofInSpan, Visit, TypeOK
  <2>2. /\ Len(visited') = Len(visited) + 1
        /\ visited'[Len(visited) + 1] = span[index + 1]
        /\ \A i \in 1..Len(visited) : visited'[i] = visited[i]
    BY <1>3 DEF EofInSpan, Visit, TypeOK
  <2>3. span[index + 1] = filtered[Len(visited) + 1]
    <3>1. 1 \in 1..(Len(span) - index)
      BY <2>1
    <3> HIDE DEF Consumed
    <3> QED
      BY <2>1, <3>1
  <2>len. Len(span) \in Nat /\ Len(visited) \in Nat /\ Len(rest) \in Nat /\ Len(filtered) \in Nat
    BY DEF TypeOK
  <2>same. rest' = rest /\ span' = span /\ filtered' = filtered
    BY <1>3 DEF EofInSpan
  <2> HIDE DEF Consumed
  <2>4. Delivered'
    <3> SUFFICES ASSUME NEW i \in 1..(Len(visited) + 1)
                 PROVE  visited'[i] = filtered[i]
      BY <2>2, <2>same
    <3>1. CASE i \in 1..Len(visited)
      BY <3>1, <2>1, <2>2
    <3>2. CASE i = Len(visited) + 1
      BY <3>2, <2>2, <2>3
    <3> QED
      BY <3>1, <3>2, <2>len
  <2>5. InSpan'
    <3> SUFFICES ASSUME NEW i \in 1..(Len(span) - (index + 1))
                 PROVE  span[(index + 1) + i] = filtered[Len(visited) + 1 + i]
      BY <2>1, <2>2, <2>same
    <3>1. i + 1 \in 1..(Len(span) - index)
      BY <2>1, <2>len
    <3>2. span[index + (i + 1)] = filtered[Len(visited) + (i + 1)]
      BY <3>1, <2>1
    <3>3. index + (i + 1) = (index + 1) + i /\ Len(visited) + (i + 1) = Len(visited) + 1 + i
      BY <2>1, <2>len
    <3> QED
      BY <3>2, <3>3
  <2>6. Behind' /\ Complete'
    <3>1. Len(visited') + (Len(span) - (index + 1)) = Len(visited) + (Len(span) - index)
      BY <2>1, <2>2, <2>len
    <3> QED
      BY <3>1, <2>1, <2>2, <2>same
  <2> QED
    BY <2>1, <2>4, <2>5, <2>6
<1>4. CASE EofNextVector
  <2>1. /\ Consumed = Len(span) /\ Consumed' = 1
        /\ state = "eof" /\ state' = "row"
    BY <1>4 DEF EofNextVector, Visit, TypeOK
  <2>2. /\ Len(span') \in 1..Len(rest) /\ Len(rest') = Len(rest) - Len(span')
        /\ \A i \in 1..Len(span') : span'[i] = rest[i]
        /\ \A i \in 1..Len(rest') : rest'[i] = rest[Len(span') + i]
    BY <1>4, NextVectorSplits DEF EofNextVector, TypeOK
  <2>3. /\ Len(visited') = Len(visited) + 1
        /\ visited'[Len(visited) + 1] = span'[1]
        /\ \A i \in 1..Len(visited) : visited'[i] = visited[i]
    BY <1>4, <2>2 DEF EofNextVector, Visit, TypeOK
  <2> HIDE DEF Consumed
  <2>4. /\ Len(filtered) = Len(visited) + Len(rest)
        /\ \A i \in 1..Len(rest) : rest[i] = filtered[Len(visited) + i]
    BY <2>1 DEF TypeOK
  <2>5. filtered' = filtered
    BY <1>4 DEF EofNextVector
  <2>len. Len(visited) \in Nat /\ Len(rest) \in Nat /\ Len(span') \in Nat
    BY DEF TypeOK
  <2>6. Delivered'
    <3> SUFFICES ASSUME NEW i \in 1..(Len(visited) + 1)
                 PROVE  visited'[i] = filtered[i]
      BY <2>3, <2>5
    <3>1. CASE i \in 1..Len(visited)
      BY <3>1, <2>1, <2>3
    <3>2. CASE i = Len(visited) + 1
      <4>1. 1 \in 1..Len(span') /\ 1 \in 1..Len(rest)
        BY <2>2, <2>len
      <4>2. span'[1] = filtered[Len(visited) + 1]
        BY <4>1, <2>2, <2>4
      <4> QED
        BY <3>2, <4>2, <2>3
    <3> QED
      BY <3>1, <3>2, <2>len
  <2>7. InSpan'
    <3> SUFFICES ASSUME NEW i \in 1..(Len(span') - 1)
                 PROVE  span'[1 + i] = filtered[Len(visited) + 1 + i]
      BY <2>1, <2>3, <2>5
    <3>1. 1 + i \in 1..Len(span') /\ 1 + i \in 1..Len(rest)
      BY <2>2 DEF TypeOK
    <3>2. span'[1 + i] = filtered[Len(visited) + (1 + i)]
      BY <3>1, <2>2, <2>4
    <3> QED
      BY <3>2 DEF TypeOK
  <2>8. Behind'
    <3> SUFFICES ASSUME NEW i \in 1..Len(rest')
                 PROVE  rest'[i] = filtered[Len(visited) + 1 + (Len(span') - 1) + i]
      BY <2>1, <2>3, <2>5
    <3>1. Len(span') + i \in 1..Len(rest)
      BY <2>2 DEF TypeOK
    <3>2. rest'[i] = filtered[Len(visited) + (Len(span') + i)]
      BY <3>1, <2>2, <2>4
    <3> QED
      BY <3>2 DEF TypeOK
  <2>9. Complete'
    <3>1. Len(visited) + Len(rest) =
            (Len(visited) + 1) + (Len(span') - 1) + (Len(rest) - Len(span'))
      BY <2>len
    <3>2. Len(filtered') = Len(visited) + Len(rest)
      BY <2>4, <2>5
    <3> QED
      BY <3>1, <3>2, <2>1, <2>2, <2>3
  <2> QED
    BY <2>1, <2>6, <2>7, <2>8, <2>9
<1>5. CASE EofAtEnd
  BY <1>5 DEF EofAtEnd, TypeOK
<1>6. CASE Next
  <2>1. Consumed' = Consumed /\ state = "row" /\ state' = "eof"
    BY <1>6 DEF Next, TypeOK
  <2>2. UNCHANGED <<rest, span, filtered, visited>>
    BY <1>6 DEF Next
  <2> HIDE DEF Consumed
  <2> QED
    BY <2>1, <2>2
<1>7. CASE ColumnCached \/ ColumnIndexed
  <2>1. UNCHANGED <<state, rest, span, index, filtered, visited>>
    BY <1>7 DEF ColumnCached, ColumnIndexed
  <2> QED
    BY <2>1
<1>8. CASE ColumnFetched
  BY <1>8 DEF ColumnFetched
<1>9. CASE UNCHANGED vars
  BY <1>9 DEF vars
<1> QED
  BY <1>1, <1>2, <1>3, <1>4, <1>5, <1>6, <1>7, <1>8, <1>9 DEF Step

\* Where the rest of the bitmap is entails what has been delivered.
LEMMA PassEntails == TypeOK /\ Pass => EachRowOnce
<1> SUFFICES ASSUME TypeOK, Pass, state \in {"eof", "row", "end"}
             PROVE  /\ IsPrefix(visited, filtered)
                    /\ state = "end" => visited = filtered
  BY DEF EachRowOnce
<1>1. Consumed \in 0..Len(span)
  BY DEF Consumed, SpanHasMore, TypeOK
<1>2. Len(visited) <= Len(filtered) /\ Delivered
  BY <1>1 DEF Pass, Complete, TypeOK
<1>3. SubSeq(visited, 1, Len(visited)) = SubSeq(filtered, 1, Len(visited))
  BY <1>2 DEF Delivered, TypeOK
<1>4. ASSUME state = "end" PROVE visited = filtered
  <2>1. Len(visited) = Len(filtered)
    BY <1>4 DEF Pass, Complete, Consumed, TypeOK
  <2>2. visited \in Seq(Ids) /\ filtered \in Seq(Ids)
    BY DEF TypeOK
  <2>3. \A i \in 1..Len(visited) : visited[i] = filtered[i]
    BY <1>2 DEF Delivered
  <2> HIDE DEF TypeOK, Pass
  <2> QED
    BY <2>1, <2>2, <2>3
<1> QED
  BY <1>2, <1>3, <1>4 DEF IsPrefix

\* For every bitmap, vector size and number of passes, a pass delivers exactly the
\* rows of its bitmap, wherever the pass before was left.
THEOREM RowsAreDeliveredOnce == Spec => []EachRowOnce
<1>1. Init => Pass
  BY DEF Init, Pass
<1> QED
  BY <1>1, TypeCorrect, PassStep, PassEntails, PTL DEF Spec

\* A column is read from the document of its row, however long a parsed document
\* stays.
THEOREM ColumnsAreOfTheirRow == Spec => []ColumnIsOfTheRow
<1> DEFINE CInv == Noted /\ ColumnIsOfTheRow
<1>1. Init => CInv
  BY DEF Init, Noted, ColumnIsOfTheRow
<1>2. TypeOK /\ CInv /\ [Step]_vars => CInv'
  <2> SUFFICES ASSUME TypeOK, Noted, ColumnIsOfTheRow, [Step]_vars
               PROVE  Noted' /\ ColumnIsOfTheRow'
    OBVIOUS
  <2> USE DEF Noted, ColumnIsOfTheRow
  <2>1. CASE Open
    BY <2>1 DEF Open
  <2>2. CASE \/ Close \/ Filter \/ FilterFails
             \/ EofInSpan \/ EofNextVector \/ EofAtEnd \/ Next \/ ColumnFails
    BY <2>2 DEF Close, Filter, FilterFails, EofInSpan, EofNextVector, EofAtEnd,
                Next, ColumnFails
  <2>3. CASE ColumnCached
    BY <2>3 DEF ColumnCached, Cached, Answer
  <2>4. CASE ColumnIndexed \/ ColumnFetched
    BY <2>4 DEF ColumnIndexed, ColumnFetched, Answer
  <2>5. CASE UNCHANGED vars
    BY <2>5 DEF vars
  <2> QED
    BY <2>1, <2>2, <2>3, <2>4, <2>5 DEF Step
<1>3. CInv => ColumnIsOfTheRow
  OBVIOUS
<1> QED
  BY <1>1, <1>2, <1>3, TypeCorrect, PTL DEF Spec

-----------------------------------------------------------------------------
(* Induction on the natural numbers, for a set. *)
LEMMA Induction ==
  ASSUME NEW S, 0 \in S, \A n \in Nat : n \in S => n + 1 \in S
  PROVE  \A n \in Nat : n \in S
<1> DEFINE T == Nat \ S
           R == {ss \in Nat \X Nat : ss[1] < ss[2]}
<1> SUFFICES ASSUME T # {} PROVE FALSE
  OBVIOUS
<1>1. IsWellFoundedOn(R, Nat)
  BY NatLessThanWellFounded DEF OpToRel
<1>2. PICK x \in T : \A y \in T : ~(<<y, x>> \in R)
  <2> HIDE DEF R
  <2>1. T \subseteq Nat
    OBVIOUS
  <2> HIDE DEF T
  <2> QED
    BY <1>1, <2>1, WFMin
<1>3. x \in Nat /\ x # 0 /\ x - 1 \in Nat
  OBVIOUS
<1>4. <<x - 1, x>> \in R
  BY <1>3
<1>5. x - 1 \notin T
  BY <1>2, <1>4
<1>6. x - 1 \in S /\ x = (x - 1) + 1
  BY <1>3, <1>5
<1> QED
  BY <1>3, <1>6

-----------------------------------------------------------------------------
(* Fields by their names. *)

\* The objects of a schema.
Tables(s) == DOMAIN s.fields
FieldRecords == [name : STRING \ {""}, type : STRING, elem : STRING, object : STRING]

\* What IsSchema says of a field.
LEMMA FieldsOfSchema ==
  ASSUME NEW s, IsSchema(s), NEW o \in Tables(s)
  PROVE  /\ s.fields[o] \in Seq(FieldRecords)
         /\ DOMAIN s.fields[o] = 1..Len(s.fields[o])
         /\ \A i, j \in 1..Len(s.fields[o]) :
               s.fields[o][i].name = s.fields[o][j].name => i = j
         /\ \A i \in 1..Len(s.fields[o]) :
               /\ s.fields[o][i] \in FieldRecords
               /\ s.fields[o][i].type = "Obj" => s.fields[o][i].object \in Tables(s)
               /\ s.fields[o][i].type # "Obj" => s.fields[o][i].object = NoObject
<1>1. s.fields[o] \in Seq(FieldRecords)
  BY DEF IsSchema, Tables, FieldRecords
<1>2. DOMAIN s.fields[o] = 1..Len(s.fields[o])
  BY <1>1
<1>3. \A i \in 1..Len(s.fields[o]) : s.fields[o][i] \in FieldRecords
  BY <1>1
<1> QED
  BY <1>1, <1>2, <1>3 DEF IsSchema, Tables

\* A field is found by its name.
LEMMA FieldIsFound ==
  ASSUME NEW s, IsSchema(s), NEW o \in Tables(s), NEW j \in 1..Len(s.fields[o])
  PROVE  LookupByKey(s, o, s.fields[o][j].name) = s.fields[o][j]
<1> DEFINE F == s.fields[o]
           found == {f \in ToSet(F) : f.name = F[j].name}
<1>1. /\ DOMAIN F = 1..Len(F)
      /\ \A i, k \in 1..Len(F) : F[i].name = F[k].name => i = k
  BY FieldsOfSchema
<1>2. found = {F[j]}
  BY <1>1 DEF ToSet
<1>3. o # NoObject
  BY DEF IsSchema, Tables
<1> QED
  BY <1>2, <1>3 DEF LookupByKey

\* What is found is a field of the object that has the name, or no field is found.
LEMMA FoundIsField ==
  ASSUME NEW s, IsSchema(s), NEW o \in Tables(s), NEW name,
         LookupByKey(s, o, name) # NoField
  PROVE  \E j \in 1..Len(s.fields[o]) :
            s.fields[o][j].name = name /\ LookupByKey(s, o, name) = s.fields[o][j]
<1> DEFINE F == s.fields[o]
           found == {f \in ToSet(F) : f.name = name}
<1>1. o # NoObject /\ DOMAIN F = 1..Len(F)
  BY FieldsOfSchema DEF IsSchema, Tables
<1>2. found # {} /\ LookupByKey(s, o, name) = CHOOSE f \in found : TRUE
  BY <1>1 DEF LookupByKey
<1>3. LookupByKey(s, o, name) \in found
  BY <1>2
<1> QED
  BY <1>1, <1>3 DEF ToSet

\* The object of the field that is found is an object of the schema or none.
LEMMA FoundObject ==
  ASSUME NEW s, IsSchema(s), NEW o \in Tables(s) \cup {NoObject}, NEW name
  PROVE  LookupByKey(s, o, name).object \in Tables(s) \cup {NoObject}
<1>1. CASE LookupByKey(s, o, name) = NoField
  <2>1. NoField.object = NoObject
    BY DEF NoField
  <2> QED
    BY <1>1, <2>1
<1>2. CASE LookupByKey(s, o, name) # NoField
  <2>1. o \in Tables(s)
    BY <1>2 DEF LookupByKey
  <2>2. PICK j \in 1..Len(s.fields[o]) : LookupByKey(s, o, name) = s.fields[o][j]
    BY <1>2, <2>1, FoundIsField
  <2> QED
    BY <2>1, <2>2, FieldsOfSchema
<1> QED
  BY <1>1, <1>2

-----------------------------------------------------------------------------
(* The objects that a name leads to. *)

\* objects is what the recursive function of Objects is, up to n.
AreObjects(s, tokens, n, objects) ==
    objects = [k \in 0..n |-> IF k = 0 THEN Root
                              ELSE LookupByKey(s, objects[k - 1], tokens[k]).object]

\* There are such objects, for names of any length.
LEMMA ObjectsExist ==
  ASSUME NEW s, NEW tokens, NEW n \in Nat
  PROVE  \E f : AreObjects(s, tokens, n, f)
<1> DEFINE S == {m \in Nat : \E f : AreObjects(s, tokens, m, f)}
<1>1. 0 \in S
  <2>1. AreObjects(s, tokens, 0, [k \in 0..0 |-> Root])
    BY DEF AreObjects
  <2> QED
    BY <2>1
<1>2. ASSUME NEW m \in Nat, m \in S PROVE m + 1 \in S
  <2>1. PICK f : AreObjects(s, tokens, m, f)
    BY <1>2
  <2> DEFINE g == [k \in 0..(m + 1) |->
                      IF k = m + 1 THEN LookupByKey(s, f[m], tokens[m + 1]).object ELSE f[k]]
  <2>2. ASSUME NEW k \in 0..(m + 1)
        PROVE  g[k] = IF k = 0 THEN Root ELSE LookupByKey(s, g[k - 1], tokens[k]).object
    <3>1. CASE k = m + 1
      <4>1. k # 0 /\ g[k] = LookupByKey(s, f[m], tokens[k]).object /\ g[k - 1] = f[m]
        BY <3>1
      <4> HIDE DEF g
      <4> QED
        BY <4>1
    <3>2. CASE k # m + 1
      <4>1. k \in 0..m /\ g[k] = f[k] /\ (k # 0 => g[k - 1] = f[k - 1])
        BY <3>2
      <4>2. f[k] = IF k = 0 THEN Root ELSE LookupByKey(s, f[k - 1], tokens[k]).object
        BY <2>1, <4>1 DEF AreObjects
      <4> HIDE DEF g
      <4> QED
        BY <4>1, <4>2
    <3> QED
      BY <3>1, <3>2
  <2>3. g = [k \in 0..(m + 1) |-> g[k]]
    OBVIOUS
  <2> HIDE DEF g
  <2>4. AreObjects(s, tokens, m + 1, g)
    BY <2>2, <2>3 DEF AreObjects
  <2> QED
    BY <2>4
<1> HIDE DEF S
<1>3. n \in S
  BY <1>1, <1>2, Induction
<1> QED
  BY <1>3 DEF S

\* Objects begins with the root and goes on by the fields that are found.
LEMMA ObjectsAre ==
  ASSUME NEW s, IsSchema(s), NEW tokens, Len(tokens) \in Nat
  PROVE  /\ Objects(s, tokens)[0] = Root
         /\ \A k \in 1..Len(tokens) :
               Objects(s, tokens)[k] = LookupByKey(s, Objects(s, tokens)[k - 1], tokens[k]).object
         /\ \A k \in 0..Len(tokens) : Objects(s, tokens)[k] \in Tables(s) \cup {NoObject}
<1> DEFINE Is(f) == AreObjects(s, tokens, Len(tokens), f)
           O == Objects(s, tokens)
<1>1. \E f : Is(f)
  BY ObjectsExist
<1>2. O = CHOOSE f : Is(f)
  BY DEF Objects, AreObjects
<1>3. Is(O)
  <2> HIDE DEF Is, O
  <2> QED
    BY <1>1, <1>2
<1>4. \A k \in 0..Len(tokens) :
         O[k] = IF k = 0 THEN Root ELSE LookupByKey(s, O[k - 1], tokens[k]).object
  <2> HIDE DEF O
  <2> QED
    BY <1>3 DEF AreObjects
<1> HIDE DEF O, Is
<1>5. O[0] = Root /\ \A k \in 1..Len(tokens) : O[k] = LookupByKey(s, O[k - 1], tokens[k]).object
  BY <1>4
<1> DEFINE S == {k \in Nat : k <= Len(tokens) => O[k] \in Tables(s) \cup {NoObject}}
<1>6. 0 \in S
  BY <1>5 DEF IsSchema, Tables
<1>7. ASSUME NEW k \in Nat, k \in S PROVE k + 1 \in S
  <2> SUFFICES ASSUME k + 1 <= Len(tokens) PROVE O[k + 1] \in Tables(s) \cup {NoObject}
    OBVIOUS
  <2>1. O[k] \in Tables(s) \cup {NoObject}
    BY <1>7
  <2>2. O[k + 1] = LookupByKey(s, O[k], tokens[k + 1]).object
    BY <1>5
  <2> QED
    BY <2>1, <2>2, FoundObject
<1>8. \A k \in Nat : k \in S
  <2> HIDE DEF S
  <2> QED
    BY <1>6, <1>7, Induction
<1> QED
  BY <1>5, <1>8 DEF O

\* Names that begin with the same tokens lead to the same objects.
LEMMA ObjectsAgree ==
  ASSUME NEW s, IsSchema(s), NEW p, NEW q, Len(p) \in Nat, Len(q) \in Nat,
         NEW n \in Nat, n <= Len(p), n <= Len(q), \A i \in 1..n : p[i] = q[i]
  PROVE  Objects(s, p)[n] = Objects(s, q)[n]
<1> DEFINE S == {k \in Nat : k <= n => Objects(s, p)[k] = Objects(s, q)[k]}
<1>1. 0 \in S
  BY ObjectsAre
<1>2. ASSUME NEW k \in Nat, k \in S PROVE k + 1 \in S
  <2> SUFFICES ASSUME k + 1 <= n PROVE Objects(s, p)[k + 1] = Objects(s, q)[k + 1]
    OBVIOUS
  <2>1. Objects(s, p)[k] = Objects(s, q)[k] /\ p[k + 1] = q[k + 1]
    BY <1>2
  <2>2. /\ Objects(s, p)[k + 1] = LookupByKey(s, Objects(s, p)[k], p[k + 1]).object
        /\ Objects(s, q)[k + 1] = LookupByKey(s, Objects(s, q)[k], q[k + 1]).object
    <3>1. k + 1 \in 1..Len(p) /\ k + 1 \in 1..Len(q) /\ (k + 1) - 1 = k
      OBVIOUS
    <3> QED
      BY <3>1, ObjectsAre
  <2> QED
    BY <2>1, <2>2
<1>3. \A k \in Nat : k \in S
  <2> HIDE DEF S
  <2> QED
    BY <1>1, <1>2, Induction
<1> QED
  BY <1>3

\* After a token that is no table and no struct there is no object.
LEMMA NoObjectStays ==
  ASSUME NEW s, IsSchema(s), NEW p, Len(p) \in Nat,
         NEW n \in 0..Len(p), Objects(s, p)[n] = NoObject
  PROVE  \A k \in n..Len(p) : Objects(s, p)[k] = NoObject
<1> DEFINE S == {d \in Nat : n + d <= Len(p) => Objects(s, p)[n + d] = NoObject}
<1>1. 0 \in S
  OBVIOUS
<1>2. ASSUME NEW d \in Nat, d \in S PROVE d + 1 \in S
  <2> SUFFICES ASSUME n + (d + 1) <= Len(p) PROVE Objects(s, p)[n + (d + 1)] = NoObject
    OBVIOUS
  <2>1. Objects(s, p)[n + d] = NoObject
    BY <1>2
  <2>2. n + (d + 1) \in 1..Len(p) /\ (n + (d + 1)) - 1 = n + d
    OBVIOUS
  <2>3. Objects(s, p)[n + (d + 1)] = LookupByKey(s, NoObject, p[n + (d + 1)]).object
    BY <2>1, <2>2, ObjectsAre
  <2> QED
    BY <2>3 DEF LookupByKey, NoField
<1>3. \A d \in Nat : d \in S
  <2> HIDE DEF S
  <2> QED
    BY <1>1, <1>2, Induction
<1>4. \A k \in n..Len(p) : k - n \in Nat /\ n + (k - n) = k
  OBVIOUS
<1> QED
  BY <1>3, <1>4

-----------------------------------------------------------------------------
(* Types of names. *)

\* COMPLEX is the type of a field of type Obj, and of no other.
LEMMA ComplexIsObj ==
  ASSUME NEW field
  PROVE  GetType(field) = "COMPLEX" <=> field.type = "Obj"
<1>1. CASE field.type = "Vector" /\ field.elem \in Bytes
  BY <1>1 DEF GetType
<1>2. CASE ~(field.type = "Vector" /\ field.elem \in Bytes)
  <2>1. GetType(field) = MapFlatbuffersToJonoonDBType(field.type)
    BY <1>2 DEF GetType
  <2>2. "Obj" \notin {"None", "UType", "Bool", "Short", "UShort", "Int"} \cup Bytes
    BY DEF Bytes
  <2> QED
    BY <2>1, <2>2 DEF MapFlatbuffersToJonoonDBType
<1> QED
  BY <1>1, <1>2

\* Paths are the names of one to MaxDepth tokens.
LEMMA PathsAre ==
  /\ \A p : p \in Paths <=> p \in Seq(Names) /\ Len(p) \in 1..MaxDepth
<1> SUFFICES ASSUME NEW p
             PROVE  p \in Paths <=> p \in Seq(Names) /\ Len(p) \in 1..MaxDepth
  OBVIOUS
<1>1. p \in SeqOf(Names, MaxDepth) <=> \E m \in 0..MaxDepth : p \in [1..m -> Names]
  BY DEF SeqOf
<1>2. MaxDepth \in Nat
  BY DocumentsAssumption
<1>3. ASSUME p \in Paths PROVE p \in Seq(Names) /\ Len(p) \in 1..MaxDepth
  <2>1. PICK m \in 0..MaxDepth : p \in [1..m -> Names]
    BY <1>1, <1>3 DEF Paths
  <2>2. p \in Seq(Names) /\ Len(p) = m
    BY <1>2, <2>1
  <2>3. p # <<>>
    BY <1>3 DEF Paths
  <2> QED
    BY <2>2, <2>3
<1>4. ASSUME p \in Seq(Names), Len(p) \in 1..MaxDepth PROVE p \in Paths
  <2>1. p \in [1..Len(p) -> Names] /\ Len(p) \in 0..MaxDepth /\ p # <<>>
    BY <1>2, <1>4
  <2> QED
    BY <1>1, <2>1 DEF Paths
<1> QED
  BY <1>3, <1>4

\* The names of fields are names.
LEMMA NamesAre ==
  ASSUME IsSchema(schema), NEW o \in Tables(schema), NEW j \in 1..Len(schema.fields[o])
  PROVE  schema.fields[o][j].name \in Names
<1>1. DOMAIN schema.fields[o] = 1..Len(schema.fields[o])
  BY FieldsOfSchema
<1>2. schema.fields[o][j] \in ToSet(schema.fields[o])
  BY <1>1 DEF ToSet
<1> QED
  BY <1>2 DEF Names, Tables

\* The type of a name is that of the field that its last token finds.
LEMMA KindIs ==
  ASSUME IsSchema(schema), NEW S, NEW p \in Seq(S), p # <<>>,
         NEW field, field = LookupByKey(schema, Objects(schema, p)[Len(p) - 1], p[Len(p)])
  PROVE  Kind(p) = IF field = NoField THEN "throws" ELSE GetType(field)
<1>1. p[Len(p)] = Last(p) /\ Len(p) \in Nat \ {0}
  BY DEF Last
<1>2. Front(p) = SubSeq(p, 1, Len(p) - 1)
  BY DEF Front
<1>3. PICK n \in Nat : n = Len(p) - 1
  BY <1>1
<1>4. Len(Front(p)) = n /\ \A i \in 1..n : Front(p)[i] = p[i]
  <2>1. \A i \in 1..n : p[i] \in S
    BY <1>1, <1>3
  <2>2. /\ Len(Front(p)) = IF 1 <= n THEN n - 1 + 1 ELSE 0
        /\ \A i \in 1..(n - 1 + 1) : Front(p)[i] = p[1 + i - 1]
    BY <1>2, <1>3, <2>1, SubSeqProperties
  <2>3. \A i \in 1..n : i \in 1..(n - 1 + 1) /\ 1 + i - 1 = i
    OBVIOUS
  <2> QED
    BY <2>2, <2>3
<1>5. Objects(schema, Front(p))[n] = Objects(schema, p)[n]
  <2>1. n <= Len(p) /\ n <= Len(Front(p)) /\ Len(Front(p)) \in Nat /\ Len(p) \in Nat
    BY <1>1, <1>3, <1>4
  <2> QED
    BY ONLY IsSchema(schema), <1>4, <2>1, ObjectsAgree
<1>6. ObjectAt(schema, Front(p)) = Objects(schema, p)[Len(p) - 1]
  BY <1>3, <1>4, <1>5 DEF ObjectAt
<1> QED
  BY <1>1, <1>6 DEF Kind, GetFieldType

\* A name with a type: each token is a field of the object before it, and each but
\* the last has type Obj.
LEMMA NamesOfFields ==
  ASSUME IsSchema(schema), NEW S, NEW p \in Seq(S), p # <<>>, Kind(p) # "throws"
  PROVE  \A l \in 1..Len(p) :
            /\ Objects(schema, p)[l - 1] \in Tables(schema)
            /\ \E j \in 1..Len(schema.fields[Objects(schema, p)[l - 1]]) :
                  LET f == schema.fields[Objects(schema, p)[l - 1]][j]
                  IN  /\ f.name = p[l]
                      /\ f.type = "Obj" <=> Objects(schema, p)[l] # NoObject
                      /\ l < Len(p) => f.type = "Obj"
                      /\ l = Len(p) => Kind(p) = GetType(f)
<1> DEFINE O == Objects(schema, p)
<1>1. Len(p) \in Nat \ {0} /\ Len(p) - 1 \in 0..Len(p)
  OBVIOUS
<1>2. O[Len(p) - 1] # NoObject
  <2> SUFFICES ASSUME O[Len(p) - 1] = NoObject PROVE Kind(p) = "throws"
    OBVIOUS
  <2>1. LookupByKey(schema, O[Len(p) - 1], p[Len(p)]) = NoField
    BY DEF LookupByKey
  <2> QED
    BY <2>1, KindIs
<1>3. \A l \in 1..Len(p) : O[l - 1] # NoObject
  <2> SUFFICES ASSUME NEW l \in 1..Len(p), O[l - 1] = NoObject PROVE FALSE
    OBVIOUS
  <2>1. l - 1 \in 0..Len(p) /\ Len(p) - 1 \in (l - 1)..Len(p)
    OBVIOUS
  <2> QED
    BY <1>1, <1>2, <2>1, NoObjectStays
<1> SUFFICES ASSUME NEW l \in 1..Len(p)
             PROVE  /\ O[l - 1] \in Tables(schema)
                    /\ \E j \in 1..Len(schema.fields[O[l - 1]]) :
                          LET f == schema.fields[O[l - 1]][j]
                          IN  /\ f.name = p[l]
                              /\ f.type = "Obj" <=> O[l] # NoObject
                              /\ l < Len(p) => f.type = "Obj"
                              /\ l = Len(p) => Kind(p) = GetType(f)
  OBVIOUS
<1>4. O[l - 1] \in Tables(schema)
  <2>1. l - 1 \in 0..Len(p)
    OBVIOUS
  <2>2. O[l - 1] \in Tables(schema) \cup {NoObject}
    BY <1>1, <2>1, ObjectsAre
  <2> QED
    BY <1>3, <2>2
<1> DEFINE found == LookupByKey(schema, O[l - 1], p[l])
<1>5. O[l] = found.object
  BY <1>1, ObjectsAre
<1>6. l < Len(p) => O[l] # NoObject
  <2> SUFFICES ASSUME l < Len(p) PROVE O[l] # NoObject
    OBVIOUS
  <2>1. l + 1 \in 1..Len(p) /\ (l + 1) - 1 = l
    OBVIOUS
  <2> QED
    BY <1>3, <2>1
<1>7. l = Len(p) => Kind(p) = IF found = NoField THEN "throws" ELSE GetType(found)
  <2> HIDE DEF O
  <2> QED
    BY KindIs DEF O
<1>8. found # NoField
  <2>1. NoField.object = NoObject
    BY DEF NoField
  <2> HIDE DEF O, found
  <2> QED
    BY <1>5, <1>6, <1>7, <2>1
<1>9. PICK j \in 1..Len(schema.fields[O[l - 1]]) :
         schema.fields[O[l - 1]][j].name = p[l] /\ found = schema.fields[O[l - 1]][j]
  BY <1>4, <1>8, FoundIsField
<1> DEFINE f == schema.fields[O[l - 1]][j]
<1>10. f.type = "Obj" <=> O[l] # NoObject
  <2>1. NoObject \notin Tables(schema)
    BY DEF IsSchema, Tables
  <2>2. /\ f.type = "Obj" => f.object \in Tables(schema)
        /\ f.type # "Obj" => f.object = NoObject
    BY <1>4, FieldsOfSchema
  <2> QED
    BY <1>5, <1>9, <2>1, <2>2
<1>11. l = Len(p) => Kind(p) = GetType(f)
  BY <1>7, <1>8, <1>9
<1> HIDE DEF O, found
<1> QED
  BY <1>4, <1>6, <1>9, <1>10, <1>11

-----------------------------------------------------------------------------
(* The walk. *)

\* What a call remembers.
Frames == [object : Tables(schema), next : Nat \ {0}]

\* Fields that the l-th call goes over, and how many of them it is done with: a
\* call that has made another is not done with the field it made that for.
FieldsOf(stk, l) == schema.fields[stk[l].object]
Done(stk, l) == IF l = Len(stk) THEN stk[l].next - 1 ELSE stk[l].next - 2

\* The calls are made along the prefixes.
Calls(stk, pre) ==
    /\ stk \in Seq(Frames) /\ Len(stk) \in 1..MaxDepth
    /\ pre \in Seq(Names) /\ Len(pre) = Len(stk) - 1
    /\ \A l \in 1..Len(stk) :
          /\ stk[l].object = Objects(schema, pre)[l - 1]
          /\ Done(stk, l) \in 0..Len(FieldsOf(stk, l))
    /\ \A l \in 1..Len(pre) :
          /\ Done(stk, l) + 1 \in 1..Len(FieldsOf(stk, l))
          /\ FieldsOf(stk, l)[Done(stk, l) + 1].name = pre[l]
          /\ FieldsOf(stk, l)[Done(stk, l) + 1].type = "Obj"

\* The walk has passed a name: it agrees with the prefixes up to a call that is
\* done with its next token.
PassedAt(stk, pre, p, l) ==
    /\ l <= Len(p) /\ \A i \in 1..(l - 1) : p[i] = pre[i]
    /\ \E j \in 1..Done(stk, l) : FieldsOf(stk, l)[j].name = p[l]

Passed(stk, pre, p) == \E l \in 1..Len(stk) : PassedAt(stk, pre, p, l)

\* The names of columns.
Readable == {p \in Paths : Kind(p) \in ColumnTypes}

\* The columns are the readable names that have been passed.
Listed(cols, stk, pre) ==
    /\ cols \in Seq([tokens : Readable, type : ColumnTypes])
    /\ \A c \in 1..Len(cols) :
          /\ cols[c].type = Kind(cols[c].tokens)
          /\ Passed(stk, pre, cols[c].tokens)
    /\ \A p \in Readable : Passed(stk, pre, p) =>
          \E c \in 1..Len(cols) : cols[c].tokens = p
    /\ \A c, d \in 1..Len(cols) : cols[c].tokens = cols[d].tokens => c = d

\* The same when the walk is over.
AllListed(cols) ==
    /\ cols \in Seq([tokens : Readable, type : ColumnTypes])
    /\ \A c \in 1..Len(cols) : cols[c].type = Kind(cols[c].tokens)
    /\ \A p \in Readable : \E c \in 1..Len(cols) : cols[c].tokens = p
    /\ \A c, d \in 1..Len(cols) : cols[c].tokens = cols[d].tokens => c = d

\* The types of what the calls are made of.
LEMMA CallsTypes ==
  ASSUME NEW stk, NEW pre, Calls(stk, pre)
  PROVE  /\ stk \in Seq(Frames) /\ Len(stk) \in Nat \ {0} /\ Len(stk) <= MaxDepth
         /\ pre \in Seq(Names) /\ Len(pre) = Len(stk) - 1 /\ Len(pre) \in Nat
         /\ \A l \in 1..Len(stk) :
               /\ stk[l] \in Frames /\ stk[l].next \in Nat \ {0}
               /\ stk[l].object \in Tables(schema)
               /\ Done(stk, l) \in Nat /\ Done(stk, l) <= Len(FieldsOf(stk, l))
         /\ Done(stk, Len(stk)) = stk[Len(stk)].next - 1
<1>1. /\ stk \in Seq(Frames) /\ Len(stk) \in Nat \ {0} /\ Len(stk) <= MaxDepth
      /\ pre \in Seq(Names) /\ Len(pre) = Len(stk) - 1 /\ Len(pre) \in Nat
  BY DocumentsAssumption DEF Calls
<1>2. ASSUME NEW l \in 1..Len(stk)
      PROVE  /\ stk[l] \in Frames /\ stk[l].next \in Nat \ {0}
             /\ stk[l].object \in Tables(schema)
  <2>1. stk[l] \in Frames
    BY <1>1
  <2> QED
    BY <2>1 DEF Frames
<1>3. ASSUME NEW l \in 1..Len(stk)
      PROVE  Done(stk, l) \in Nat /\ Done(stk, l) <= Len(FieldsOf(stk, l))
  BY DEF Calls
<1> QED
  BY <1>1, <1>2, <1>3 DEF Done

\* No two fields of a call have the same name.
LEMMA FieldsOfCall ==
  ASSUME IsSchema(schema), NEW stk, NEW pre, Calls(stk, pre), NEW l \in 1..Len(stk)
  PROVE  /\ Len(FieldsOf(stk, l)) \in Nat
         /\ \A i, k \in 1..Len(FieldsOf(stk, l)) :
               FieldsOf(stk, l)[i].name = FieldsOf(stk, l)[k].name => i = k
<1>1. stk[l].object \in Tables(schema)
  BY CallsTypes
<1>2. /\ Len(schema.fields[stk[l].object]) \in Nat
      /\ \A i, k \in 1..Len(schema.fields[stk[l].object]) :
            schema.fields[stk[l].object][i].name = schema.fields[stk[l].object][k].name
               => i = k
  BY <1>1, FieldsOfSchema
<1> QED
  BY <1>2 DEF FieldsOf

\* The field that the last call goes on to.
LEMMA NextField ==
  ASSUME IsSchema(schema), NEW stk, NEW pre, Calls(stk, pre), NEW L, L = Len(stk),
         stk[L].next <= Len(FieldsOf(stk, L))
  PROVE  /\ stk[L].next \in 1..Len(FieldsOf(stk, L))
         /\ FieldsOf(stk, L)[stk[L].next].name \in Names
         /\ FieldsOf(stk, L)[stk[L].next].name # ""
         /\ LookupByKey(schema, stk[L].object, FieldsOf(stk, L)[stk[L].next].name)
               = FieldsOf(stk, L)[stk[L].next]
         /\ FieldsOf(stk, L)[stk[L].next].type = "Obj" =>
               FieldsOf(stk, L)[stk[L].next].object \in Tables(schema)
<1> DEFINE o == stk[L].object
           j == stk[L].next
           field == FieldsOf(stk, L)[j]
<1>1. L \in 1..Len(stk) /\ j \in Nat \ {0} /\ o \in Tables(schema)
  BY CallsTypes
<1>2. j \in 1..Len(FieldsOf(stk, L))
  <2>1. Len(FieldsOf(stk, L)) \in Nat
    BY <1>1, FieldsOfCall
  <2> HIDE DEF j
  <2> QED
    BY <1>1, <2>1 DEF j
<1>3. FieldsOf(stk, L) = schema.fields[o]
  BY DEF FieldsOf
<1> HIDE DEF o, j, field
<1>4. j \in 1..Len(schema.fields[o]) /\ field = schema.fields[o][j]
  BY <1>2, <1>3 DEF j, field
<1>5. field.name \in Names
  BY <1>1, <1>4, NamesAre
<1>6. LookupByKey(schema, o, field.name) = field
  BY <1>1, <1>4, FieldIsFound
<1>7. field \in FieldRecords /\ (field.type = "Obj" => field.object \in Tables(schema))
  BY <1>1, <1>4, FieldsOfSchema
<1>8. field.name # ""
  BY <1>7 DEF FieldRecords
<1> QED
  BY <1>2, <1>5, <1>6, <1>7, <1>8 DEF o, j, field

\* A readable name has a token for each field on the way.
LEMMA ReadableAre ==
  ASSUME IsSchema(schema), NEW p \in Readable
  PROVE  /\ p \in Seq(Names) /\ Len(p) \in 1..MaxDepth /\ p # <<>>
         /\ Kind(p) # "throws" /\ Kind(p) \in ColumnTypes
<1>1. p \in Paths /\ Kind(p) \in ColumnTypes
  BY DEF Readable
<1>2. p \in Seq(Names) /\ Len(p) \in 1..MaxDepth
  BY <1>1, PathsAre
<1>3. "throws" \notin ColumnTypes
  BY DEF ColumnTypes
<1> QED
  BY <1>1, <1>2, <1>3

\* A name that agrees with the prefixes up to a call, and that has a type, has one
\* of the call's fields for its next token.
LEMMA NextToken ==
  ASSUME IsSchema(schema), NEW stk, NEW pre, Calls(stk, pre),
         NEW p \in Readable, NEW l \in 1..Len(stk), l <= Len(p),
         \A i \in 1..(l - 1) : p[i] = pre[i]
  PROVE  /\ stk[l].object \in Tables(schema)
         /\ Objects(schema, p)[l - 1] = stk[l].object
         /\ \E j \in 1..Len(FieldsOf(stk, l)) :
               /\ FieldsOf(stk, l)[j].name = p[l]
               /\ l < Len(p) => FieldsOf(stk, l)[j].type = "Obj"
               /\ l = Len(p) => GetType(FieldsOf(stk, l)[j]) \in ColumnTypes
<1>1. /\ p \in Seq(Names) /\ p # <<>> /\ Len(p) \in Nat
      /\ Kind(p) # "throws" /\ Kind(p) \in ColumnTypes
  BY ReadableAre
<1>2. /\ stk[l].object \in Tables(schema) /\ stk[l].object = Objects(schema, pre)[l - 1]
      /\ Len(pre) \in Nat /\ Len(pre) = Len(stk) - 1 /\ Len(stk) \in Nat
  <2>1. stk \in Seq(Frames) /\ pre \in Seq(Names) /\ Len(pre) = Len(stk) - 1
    BY DEF Calls
  <2>2. stk[l] \in Frames
    BY <2>1
  <2>3. stk[l].object \in Tables(schema)
    BY <2>2 DEF Frames
  <2>4. stk[l].object = Objects(schema, pre)[l - 1]
    BY DEF Calls
  <2> QED
    BY <2>1, <2>3, <2>4
<1>3. Objects(schema, p)[l - 1] = Objects(schema, pre)[l - 1]
  <2>1. l - 1 \in Nat /\ l - 1 <= Len(p) /\ l - 1 <= Len(pre)
    BY <1>1, <1>2
  <2> QED
    BY <1>1, <1>2, <2>1, ObjectsAgree
<1>4. l \in 1..Len(p)
  BY <1>1
<1>5. PICK j \in 1..Len(schema.fields[Objects(schema, p)[l - 1]]) :
         LET f == schema.fields[Objects(schema, p)[l - 1]][j]
         IN  /\ f.name = p[l]
             /\ l < Len(p) => f.type = "Obj"
             /\ l = Len(p) => Kind(p) = GetType(f)
  BY <1>1, <1>4, NamesOfFields
<1> QED
  BY <1>1, <1>2, <1>3, <1>5 DEF FieldsOf

\* What a name looks like that has the name of a call's field for its next token.
LEMMA FieldOfToken ==
  ASSUME IsSchema(schema), NEW stk, NEW pre, Calls(stk, pre),
         NEW p \in Readable, NEW l \in 1..Len(stk), l <= Len(p),
         \A i \in 1..(l - 1) : p[i] = pre[i],
         NEW j \in 1..Len(FieldsOf(stk, l)), FieldsOf(stk, l)[j].name = p[l]
  PROVE  /\ l < Len(p) => FieldsOf(stk, l)[j].type = "Obj"
         /\ l = Len(p) => GetType(FieldsOf(stk, l)[j]) \in ColumnTypes
<1>1. PICK k \in 1..Len(FieldsOf(stk, l)) :
         /\ FieldsOf(stk, l)[k].name = p[l]
         /\ l < Len(p) => FieldsOf(stk, l)[k].type = "Obj"
         /\ l = Len(p) => GetType(FieldsOf(stk, l)[k]) \in ColumnTypes
  BY NextToken
<1>2. \A i, m \in 1..Len(FieldsOf(stk, l)) :
         FieldsOf(stk, l)[i].name = FieldsOf(stk, l)[m].name => i = m
  BY ONLY IsSchema(schema), Calls(stk, pre), l \in 1..Len(stk), FieldsOfCall
<1>3. k = j
  BY <1>1, <1>2
<1> QED
  BY <1>1, <1>3

\* A readable name does not end in a table.
LEMMA ComplexIsNoColumn == "COMPLEX" \notin ColumnTypes
BY DEF ColumnTypes

\* A readable name that goes along the prefixes up to a call that is not the last
\* goes on behind it.
LEMMA BehindTable ==
  ASSUME IsSchema(schema), NEW stk, NEW pre, Calls(stk, pre),
         NEW p \in Readable, NEW l \in 1..Len(stk), l <= Len(p),
         \A i \in 1..(l - 1) : p[i] = pre[i],
         NEW j \in 1..Len(FieldsOf(stk, l)), FieldsOf(stk, l)[j].name = p[l],
         FieldsOf(stk, l)[j].type = "Obj"
  PROVE  l < Len(p)
<1>1. GetType(FieldsOf(stk, l)[j]) \notin ColumnTypes
  BY ComplexIsObj, ComplexIsNoColumn
<1>2. l # Len(p)
  BY <1>1, FieldOfToken
<1> QED
  BY <1>2, ReadableAre

\* The last call goes on to its next field.
Advances(stk, adv, L) ==
    /\ adv \in Seq(Frames) /\ Len(adv) = L
    /\ adv[L].next = stk[L].next + 1
    /\ \A l \in 1..L : adv[l].object = stk[l].object /\ FieldsOf(adv, l) = FieldsOf(stk, l)
    /\ \A l \in 1..(L - 1) : adv[l] = stk[l] /\ Done(adv, l) = Done(stk, l)
    /\ Done(adv, L) = Done(stk, L) + 1

LEMMA Advance ==
  ASSUME NEW stk, NEW pre, Calls(stk, pre), NEW L, L = Len(stk),
         NEW adv, adv = [stk EXCEPT ![L].next = @ + 1]
  PROVE  Advances(stk, adv, L)
<1>1. /\ stk \in Seq(Frames) /\ L \in Nat \ {0}
      /\ stk[L] \in Frames /\ stk[L].next \in Nat \ {0}
      /\ Done(stk, L) = stk[L].next - 1
  BY CallsTypes
<1>2. L \in 1..L /\ DOMAIN stk = 1..L
  BY <1>1
<1> DEFINE frame == [stk[L] EXCEPT !.next = @ + 1]
<1>3. frame \in Frames /\ frame.next = stk[L].next + 1 /\ frame.object = stk[L].object
  BY <1>1 DEF Frames
<1>4. adv = [stk EXCEPT ![L] = frame]
  OBVIOUS
<1> HIDE DEF frame
<1>5. adv \in Seq(Frames) /\ Len(adv) = L /\ adv[L] = frame /\ \A l \in 1..(L - 1) : adv[l] = stk[l]
  BY <1>1, <1>2, <1>3, <1>4
<1>6. \A l \in 1..L : adv[l].object = stk[l].object
  BY <1>1, <1>3, <1>5
<1> QED
  BY <1>1, <1>3, <1>5, <1>6 DEF FieldsOf, Done, Advances

\* The calls are still made along the prefixes.
LEMMA AdvanceCalls ==
  ASSUME NEW stk, NEW pre, Calls(stk, pre), NEW L, L = Len(stk),
         stk[L].next <= Len(FieldsOf(stk, L)),
         NEW adv, Advances(stk, adv, L)
  PROVE  Calls(adv, pre)
<1>1. /\ adv \in Seq(Frames) /\ Len(adv) = L
      /\ \A l \in 1..L : adv[l].object = stk[l].object /\ FieldsOf(adv, l) = FieldsOf(stk, l)
      /\ \A l \in 1..(L - 1) : adv[l] = stk[l] /\ Done(adv, l) = Done(stk, l)
      /\ Done(adv, L) = Done(stk, L) + 1
  BY DEF Advances
<1>2. /\ L \in Nat \ {0} /\ L \in 1..MaxDepth /\ pre \in Seq(Names) /\ Len(pre) = L - 1
      /\ Done(stk, L) = stk[L].next - 1 /\ stk[L].next \in Nat \ {0}
  BY CallsTypes, DocumentsAssumption
<1>3. \A l \in 1..L : Done(adv, l) \in 0..Len(FieldsOf(adv, l))
  <2> SUFFICES ASSUME NEW l \in 1..L PROVE Done(adv, l) \in 0..Len(FieldsOf(stk, l))
    BY <1>1
  <2>1. CASE l = L
    <3>1. Done(adv, L) = stk[L].next
      BY <1>1, <1>2
    <3>2. Done(stk, L) \in 0..Len(FieldsOf(stk, L))
      BY <1>2 DEF Calls
    <3> QED
      BY <2>1, <3>1, <3>2, <1>2
  <2>2. CASE l \in 1..(L - 1)
    BY <1>1, <2>2 DEF Calls
  <2> QED
    BY <1>2, <2>1, <2>2
<1>4. \A l \in 1..L : adv[l].object = Objects(schema, pre)[l - 1]
  BY <1>1 DEF Calls
<1>5. \A l \in 1..Len(pre) :
          /\ Done(adv, l) + 1 \in 1..Len(FieldsOf(adv, l))
          /\ FieldsOf(adv, l)[Done(adv, l) + 1].name = pre[l]
          /\ FieldsOf(adv, l)[Done(adv, l) + 1].type = "Obj"
  <2> SUFFICES ASSUME NEW l \in 1..Len(pre)
               PROVE  /\ Done(adv, l) + 1 \in 1..Len(FieldsOf(adv, l))
                      /\ FieldsOf(adv, l)[Done(adv, l) + 1].name = pre[l]
                      /\ FieldsOf(adv, l)[Done(adv, l) + 1].type = "Obj"
    OBVIOUS
  <2>1. Done(adv, l) = Done(stk, l) /\ FieldsOf(adv, l) = FieldsOf(stk, l)
    BY <1>1, <1>2
  <2> QED
    BY <2>1 DEF Calls
<1> QED
  BY <1>1, <1>2, <1>3, <1>4, <1>5 DEF Calls

\* It passes the names that have the field for their next token.
LEMMA AdvancePasses ==
  ASSUME NEW stk, NEW pre, Calls(stk, pre), NEW L, L = Len(stk),
         stk[L].next <= Len(FieldsOf(stk, L)),
         NEW adv, Advances(stk, adv, L), NEW p
  PROVE  Passed(adv, pre, p) <=>
            \/ Passed(stk, pre, p)
            \/ /\ L <= Len(p) /\ \A i \in 1..(L - 1) : p[i] = pre[i]
               /\ FieldsOf(stk, L)[stk[L].next].name = p[L]
<1>1. /\ Len(adv) = L
      /\ \A l \in 1..L : FieldsOf(adv, l) = FieldsOf(stk, l)
      /\ \A l \in 1..(L - 1) : Done(adv, l) = Done(stk, l)
      /\ Done(adv, L) = Done(stk, L) + 1
  BY DEF Advances
<1>2. L \in Nat \ {0} /\ Done(stk, L) = stk[L].next - 1 /\ stk[L].next \in Nat \ {0}
  BY CallsTypes
<1>3. \A l \in 1..(L - 1) : PassedAt(adv, pre, p, l) <=> PassedAt(stk, pre, p, l)
  <2> SUFFICES ASSUME NEW l \in 1..(L - 1)
               PROVE  PassedAt(adv, pre, p, l) <=> PassedAt(stk, pre, p, l)
    OBVIOUS
  <2>1. l \in 1..L
    BY <1>2
  <2> QED
    BY <1>1, <2>1 DEF PassedAt
<1>4. PassedAt(adv, pre, p, L) <=>
         \/ PassedAt(stk, pre, p, L)
         \/ /\ L <= Len(p) /\ \A i \in 1..(L - 1) : p[i] = pre[i]
            /\ FieldsOf(stk, L)[stk[L].next].name = p[L]
  <2>1. L \in 1..L
    BY <1>2
  <2>2. FieldsOf(adv, L) = FieldsOf(stk, L) /\ Done(adv, L) = stk[L].next
    BY <1>1, <1>2, <2>1
  <2>3. (\E j \in 1..stk[L].next : FieldsOf(stk, L)[j].name = p[L]) <=>
          \/ \E j \in 1..(stk[L].next - 1) : FieldsOf(stk, L)[j].name = p[L]
          \/ FieldsOf(stk, L)[stk[L].next].name = p[L]
    BY <1>2
  <2> QED
    BY <1>2, <2>2, <2>3 DEF PassedAt
<1>5. 1..L = 1..(L - 1) \cup {L}
  BY <1>2
<1>6. Passed(adv, pre, p) <=>
         PassedAt(adv, pre, p, L) \/ \E l \in 1..(L - 1) : PassedAt(adv, pre, p, l)
  BY <1>1, <1>5 DEF Passed
<1>7. Passed(stk, pre, p) <=>
         PassedAt(stk, pre, p, L) \/ \E l \in 1..(L - 1) : PassedAt(stk, pre, p, l)
  BY <1>1, <1>5 DEF Passed
<1> QED
  BY <1>3, <1>4, <1>6, <1>7

\* A call for the field: the calls are made along one prefix more.
Enters(stk, pre, stk2, pre2, L, field) ==
    /\ stk2 \in Seq(Frames) /\ Len(stk2) = L + 1
    /\ pre2 \in Seq(Names) /\ Len(pre2) = L
    /\ \A i \in 1..(L - 1) : pre2[i] = pre[i]
    /\ pre2[L] = field.name
    /\ \A l \in 1..L : /\ stk2[l].object = stk[l].object
                       /\ FieldsOf(stk2, l) = FieldsOf(stk, l)
                       /\ Done(stk2, l) = Done(stk, l)
    /\ stk2[L + 1].object = field.object /\ Done(stk2, L + 1) = 0

LEMMA Enter ==
  ASSUME NEW stk, NEW pre, Calls(stk, pre), NEW L, L = Len(stk),
         NEW adv, Advances(stk, adv, L),
         NEW field, field.name \in Names, field.object \in Tables(schema),
         NEW stk2, stk2 = Append(adv, [object |-> field.object, next |-> 1]),
         NEW pre2, pre2 = Append(pre, field.name)
  PROVE  Enters(stk, pre, stk2, pre2, L, field)
<1> DEFINE frame == [object |-> field.object, next |-> 1]
<1>1. frame \in Frames /\ frame.object = field.object /\ frame.next = 1
  BY DEF Frames
<1> HIDE DEF frame
<1>2. /\ L \in Nat \ {0} /\ pre \in Seq(Names) /\ Len(pre) = L - 1
      /\ Done(stk, L) = stk[L].next - 1 /\ stk[L].next \in Nat \ {0}
      /\ stk \in Seq(Frames)
  BY CallsTypes
<1>3. /\ adv \in Seq(Frames) /\ Len(adv) = L /\ adv[L].next = stk[L].next + 1
      /\ \A l \in 1..L : adv[l].object = stk[l].object
      /\ \A l \in 1..(L - 1) : adv[l] = stk[l]
  BY DEF Advances
<1>4. stk2 = Append(adv, frame)
  BY DEF frame
<1>5. /\ stk2 \in Seq(Frames) /\ Len(stk2) = L + 1 /\ stk2[L + 1] = frame
      /\ \A l \in 1..L : stk2[l] = adv[l]
  BY <1>1, <1>2, <1>3, <1>4
<1>6. /\ pre2 \in Seq(Names) /\ Len(pre2) = L /\ pre2[L] = field.name
      /\ \A i \in 1..(L - 1) : pre2[i] = pre[i]
  BY <1>2
<1>7. ASSUME NEW l \in 1..L
      PROVE  /\ stk2[l].object = stk[l].object
             /\ FieldsOf(stk2, l) = FieldsOf(stk, l)
             /\ Done(stk2, l) = Done(stk, l)
  <2>1. stk2[l].object = stk[l].object
    BY <1>3, <1>5
  <2>2. Done(stk2, l) = stk2[l].next - 2
    BY <1>2, <1>5 DEF Done
  <2>3. ASSUME l = L PROVE Done(stk2, l) = Done(stk, l)
    <3>1. stk2[L] = adv[L]
      BY <2>3, <1>5
    <3>2. Done(stk2, L) = (stk[L].next + 1) - 2
      BY <2>2, <2>3, <3>1, <1>3
    <3>3. (stk[L].next + 1) - 2 = stk[L].next - 1
      BY <1>2
    <3> QED
      BY <2>3, <3>2, <3>3, <1>2
  <2>4. ASSUME l # L PROVE Done(stk2, l) = Done(stk, l)
    <3>1. l \in 1..(L - 1)
      BY <1>2, <2>4
    <3>2. stk2[l] = stk[l]
      BY <3>1, <1>3, <1>5
    <3>3. Done(stk, l) = stk[l].next - 2
      BY <2>4 DEF Done
    <3> QED
      BY <2>2, <3>2, <3>3
  <2>5. Done(stk2, l) = Done(stk, l)
    BY <2>3, <2>4
  <2> QED
    BY <2>1, <2>5 DEF FieldsOf
<1>8. stk2[L + 1].object = field.object /\ Done(stk2, L + 1) = 0
  BY <1>1, <1>5 DEF Done
<1> QED
  BY <1>5, <1>6, <1>7, <1>8 DEF Enters

\* And the new prefix leads to its object.
LEMMA EnterCalls ==
  ASSUME IsSchema(schema), NEW stk, NEW pre, Calls(stk, pre), NEW L, L = Len(stk),
         L # MaxDepth, stk[L].next <= Len(FieldsOf(stk, L)),
         NEW field, field = FieldsOf(stk, L)[stk[L].next], field.type = "Obj",
         NEW stk2, NEW pre2, Enters(stk, pre, stk2, pre2, L, field)
  PROVE  Calls(stk2, pre2)
<1>1. /\ L \in Nat \ {0} /\ L <= MaxDepth /\ pre \in Seq(Names) /\ Len(pre) = L - 1
      /\ Done(stk, L) = stk[L].next - 1 /\ stk[L].next \in Nat \ {0}
      /\ stk[L].object \in Tables(schema)
  BY CallsTypes
<1>2. /\ stk2 \in Seq(Frames) /\ Len(stk2) = L + 1
      /\ pre2 \in Seq(Names) /\ Len(pre2) = L
      /\ \A i \in 1..(L - 1) : pre2[i] = pre[i]
      /\ pre2[L] = field.name
      /\ \A l \in 1..L : /\ stk2[l].object = stk[l].object
                         /\ FieldsOf(stk2, l) = FieldsOf(stk, l)
                         /\ Done(stk2, l) = Done(stk, l)
      /\ stk2[L + 1].object = field.object /\ Done(stk2, L + 1) = 0
  BY DEF Enters
<1>3. Len(stk2) \in 1..MaxDepth
  BY <1>1, <1>2, DocumentsAssumption
<1>4. \A k \in 0..(L - 1) : Objects(schema, pre2)[k] = Objects(schema, pre)[k]
  <2> SUFFICES ASSUME NEW k \in 0..(L - 1)
               PROVE  Objects(schema, pre2)[k] = Objects(schema, pre)[k]
    OBVIOUS
  <2>1. /\ k \in Nat /\ k <= Len(pre2) /\ k <= Len(pre)
        /\ Len(pre2) \in Nat /\ Len(pre) \in Nat
        /\ \A i \in 1..k : pre2[i] = pre[i]
    BY <1>1, <1>2
  <2> QED
    BY ONLY IsSchema(schema), <2>1, ObjectsAgree
<1>5. Objects(schema, pre2)[L] = field.object
  <2>1. Objects(schema, pre2)[L] = LookupByKey(schema, Objects(schema, pre2)[L - 1], pre2[L]).object
    <3>1. L \in 1..Len(pre2) /\ Len(pre2) \in Nat
      BY <1>1, <1>2
    <3> QED
      BY <3>1, ObjectsAre
  <2>2. Objects(schema, pre2)[L - 1] = stk[L].object
    <3>1. L - 1 \in 0..(L - 1) /\ L \in 1..Len(stk)
      BY <1>1
    <3>2. stk[L].object = Objects(schema, pre)[L - 1]
      BY <3>1 DEF Calls
    <3> QED
      BY <1>4, <3>1, <3>2
  <2>3. LookupByKey(schema, stk[L].object, field.name) = field
    BY NextField
  <2> QED
    BY ONLY <1>2, <2>1, <2>2, <2>3
<1>6. ASSUME NEW l \in 1..(L + 1)
      PROVE  /\ stk2[l].object = Objects(schema, pre2)[l - 1]
             /\ Done(stk2, l) \in 0..Len(FieldsOf(stk2, l))
  <2>1. CASE l = L + 1
    <3>1. field.object \in Tables(schema)
      BY NextField
    <3>2. Len(schema.fields[field.object]) \in Nat
      BY <3>1, FieldsOfSchema
    <3>3. FieldsOf(stk2, l) = schema.fields[field.object]
      BY <2>1, <1>2 DEF FieldsOf
    <3>4. (L + 1) - 1 = L
      BY <1>1
    <3>5. stk2[l].object = Objects(schema, pre2)[l - 1]
      BY <2>1, <1>2, <1>5, <3>4
    <3>6. Done(stk2, l) = 0
      BY <2>1, <1>2
    <3> QED
      BY ONLY <3>2, <3>3, <3>5, <3>6
  <2>2. CASE l \in 1..L
    <3>1. stk[l].object = Objects(schema, pre)[l - 1] /\ Done(stk, l) \in 0..Len(FieldsOf(stk, l))
      BY <2>2 DEF Calls
    <3>2. l - 1 \in 0..(L - 1)
      BY <1>1, <2>2
    <3> QED
      BY <1>2, <1>4, <2>2, <3>1, <3>2
  <2> QED
    BY <1>1, <2>1, <2>2
<1>7. ASSUME NEW l \in 1..L
      PROVE  /\ Done(stk2, l) + 1 \in 1..Len(FieldsOf(stk2, l))
             /\ FieldsOf(stk2, l)[Done(stk2, l) + 1].name = pre2[l]
             /\ FieldsOf(stk2, l)[Done(stk2, l) + 1].type = "Obj"
  <2>1. FieldsOf(stk2, l) = FieldsOf(stk, l) /\ Done(stk2, l) = Done(stk, l)
    BY <1>2
  <2>2. CASE l = L
    <3>1. Done(stk, L) + 1 = stk[L].next
      BY <1>1
    <3>3. stk[L].next \in 1..Len(FieldsOf(stk, L))
      BY NextField
    <3> QED
      BY <2>1, <2>2, <3>1, <3>3, <1>2
  <2>3. CASE l \in 1..(L - 1)
    <3>1. l \in 1..Len(pre) /\ pre2[l] = pre[l]
      BY <1>1, <1>2, <2>3
    <3> QED
      BY <2>1, <3>1 DEF Calls
  <2> QED
    BY <1>1, <2>2, <2>3
<1>8. Len(pre2) = Len(stk2) - 1
  BY <1>1, <1>2
<1> QED
  BY <1>2, <1>3, <1>6, <1>7, <1>8 DEF Calls

\* A new call has passed nothing.
LEMMA EnterPasses ==
  ASSUME NEW stk, NEW pre, Calls(stk, pre), NEW L, L = Len(stk),
         NEW field, NEW stk2, NEW pre2, Enters(stk, pre, stk2, pre2, L, field), NEW p
  PROVE  Passed(stk2, pre2, p) <=> Passed(stk, pre, p)
<1>1. L \in Nat \ {0}
  BY CallsTypes
<1>2. /\ Len(stk2) = L + 1 /\ \A i \in 1..(L - 1) : pre2[i] = pre[i]
      /\ \A l \in 1..L : FieldsOf(stk2, l) = FieldsOf(stk, l) /\ Done(stk2, l) = Done(stk, l)
      /\ Done(stk2, L + 1) = 0
  BY DEF Enters
<1>3. \A l \in 1..L : PassedAt(stk2, pre2, p, l) <=> PassedAt(stk, pre, p, l)
  <2> SUFFICES ASSUME NEW l \in 1..L
               PROVE  PassedAt(stk2, pre2, p, l) <=> PassedAt(stk, pre, p, l)
    OBVIOUS
  <2>1. \A i \in 1..(l - 1) : pre2[i] = pre[i]
    BY <1>1, <1>2
  <2> QED
    BY <1>2, <2>1 DEF PassedAt
<1>4. ~PassedAt(stk2, pre2, p, L + 1)
  BY <1>2 DEF PassedAt
<1>5. 1..(L + 1) = 1..L \cup {L + 1}
  BY <1>1
<1> QED
  BY <1>2, <1>3, <1>4, <1>5 DEF Passed

\* The last call ends: the one before it is done with the field.
Leaves(stk, pre, stk2, pre2, L) ==
    /\ stk2 \in Seq(Frames) /\ Len(stk2) = L - 1
    /\ pre2 \in Seq(Names) /\ Len(pre2) = L - 2
    /\ \A i \in 1..(L - 2) : pre2[i] = pre[i]
    /\ \A l \in 1..(L - 1) : stk2[l] = stk[l] /\ FieldsOf(stk2, l) = FieldsOf(stk, l)
    /\ \A l \in 1..(L - 2) : Done(stk2, l) = Done(stk, l)
    /\ Done(stk2, L - 1) = Done(stk, L - 1) + 1

LEMMA Leave ==
  ASSUME NEW stk, NEW pre, Calls(stk, pre), NEW L, L = Len(stk), L # 1,
         NEW stk2, stk2 = Front(stk), NEW pre2, pre2 = Front(pre)
  PROVE  Leaves(stk, pre, stk2, pre2, L)
<1>1. /\ L \in Nat \ {0} /\ stk \in Seq(Frames) /\ pre \in Seq(Names) /\ Len(pre) = L - 1
      /\ \A l \in 1..L : stk[l].next \in Nat \ {0}
  BY CallsTypes
<1>2. PICK n \in Nat : n = L - 2
  BY <1>1
<1>3. stk2 = SubSeq(stk, 1, n + 1) /\ pre2 = SubSeq(pre, 1, n)
  <2>1. L - 1 = n + 1 /\ Len(pre) - 1 = n
    BY <1>1, <1>2
  <2> QED
    BY <2>1 DEF Front
<1>4. /\ stk2 \in Seq(Frames) /\ Len(stk2) = n + 1
      /\ \A l \in 1..(n + 1) : stk2[l] = stk[l]
  BY <1>1, <1>2, <1>3
<1>5. /\ pre2 \in Seq(Names) /\ Len(pre2) = n
      /\ \A i \in 1..n : pre2[i] = pre[i]
  BY <1>1, <1>2, <1>3
<1>6. \A l \in 1..n : Done(stk2, l) = Done(stk, l)
  BY <1>2, <1>4 DEF Done
<1>7. Done(stk2, n + 1) = Done(stk, n + 1) + 1
  <2>1. stk2[n + 1] = stk[n + 1] /\ stk[n + 1].next \in Nat \ {0} /\ n + 1 # L
    BY <1>1, <1>2, <1>4
  <2>2. Done(stk2, n + 1) = stk[n + 1].next - 1 /\ Done(stk, n + 1) = stk[n + 1].next - 2
    BY <1>4, <2>1 DEF Done
  <2> QED
    BY <2>1, <2>2
<1>8. \A l \in 1..(n + 1) : FieldsOf(stk2, l) = FieldsOf(stk, l)
  BY <1>4 DEF FieldsOf
<1>9. L - 1 = n + 1
  BY <1>1, <1>2
<1> QED
  BY <1>2, <1>4, <1>5, <1>6, <1>7, <1>8, <1>9 DEF Leaves

\* The calls that are left are made along the prefixes that are left.
LEMMA LeaveCalls ==
  ASSUME IsSchema(schema), NEW stk, NEW pre, Calls(stk, pre), NEW L, L = Len(stk), L # 1,
         NEW stk2, NEW pre2, Leaves(stk, pre, stk2, pre2, L)
  PROVE  Calls(stk2, pre2)
<1>1. /\ L \in Nat \ {0} /\ L <= MaxDepth /\ Len(pre) = L - 1
  BY CallsTypes
<1>2. /\ stk2 \in Seq(Frames) /\ Len(stk2) = L - 1
      /\ pre2 \in Seq(Names) /\ Len(pre2) = L - 2
      /\ \A i \in 1..(L - 2) : pre2[i] = pre[i]
      /\ \A l \in 1..(L - 1) : stk2[l] = stk[l] /\ FieldsOf(stk2, l) = FieldsOf(stk, l)
      /\ \A l \in 1..(L - 2) : Done(stk2, l) = Done(stk, l)
      /\ Done(stk2, L - 1) = Done(stk, L - 1) + 1
  BY DEF Leaves
<1>3. Len(stk2) \in 1..MaxDepth /\ Len(pre2) = Len(stk2) - 1
  BY <1>1, <1>2, DocumentsAssumption
<1>4. ASSUME NEW l \in 1..(L - 1)
      PROVE  /\ stk2[l].object = Objects(schema, pre2)[l - 1]
             /\ Done(stk2, l) \in 0..Len(FieldsOf(stk2, l))
  <2>1. stk2[l].object = Objects(schema, pre)[l - 1]
    <3>1. l \in 1..Len(stk) /\ stk2[l] = stk[l]
      BY <1>1, <1>2
    <3>2. stk[l].object = Objects(schema, pre)[l - 1]
      BY <3>1 DEF Calls
    <3> QED
      BY <3>1, <3>2
  <2>2. Objects(schema, pre2)[l - 1] = Objects(schema, pre)[l - 1]
    <3>1. /\ l - 1 \in Nat /\ l - 1 <= Len(pre2) /\ l - 1 <= Len(pre)
          /\ Len(pre2) \in Nat /\ Len(pre) \in Nat
          /\ \A i \in 1..(l - 1) : pre2[i] = pre[i]
      BY <1>1, <1>2
    <3> QED
      BY ONLY IsSchema(schema), <3>1, ObjectsAgree
  <2>3. CASE l = L - 1
    <3>1. Done(stk, l) + 1 \in 1..Len(FieldsOf(stk, l))
      <4>1. l \in 1..Len(pre)
        BY <1>1
      <4> QED
        BY ONLY Calls(stk, pre), <4>1 DEF Calls
    <3>2. Done(stk2, l) \in 0..Len(FieldsOf(stk2, l))
      BY <1>2, <2>3, <3>1
    <3> QED
      BY <2>1, <2>2, <3>2
  <2>4. CASE l \in 1..(L - 2)
    <3>1. Done(stk, l) \in 0..Len(FieldsOf(stk, l))
      BY <1>1 DEF Calls
    <3> QED
      BY <1>2, <2>1, <2>2, <2>4, <3>1
  <2> QED
    BY <1>1, <2>3, <2>4
<1>5. ASSUME NEW l \in 1..(L - 2)
      PROVE  /\ Done(stk2, l) + 1 \in 1..Len(FieldsOf(stk2, l))
             /\ FieldsOf(stk2, l)[Done(stk2, l) + 1].name = pre2[l]
             /\ FieldsOf(stk2, l)[Done(stk2, l) + 1].type = "Obj"
  <2>1. l \in 1..Len(pre) /\ l \in 1..(L - 1)
    BY <1>1
  <2>2. FieldsOf(stk2, l) = FieldsOf(stk, l) /\ Done(stk2, l) = Done(stk, l) /\ pre2[l] = pre[l]
    BY <1>2, <2>1
  <2> QED
    BY <2>1, <2>2 DEF Calls
<1> QED
  BY <1>2, <1>3, <1>4, <1>5 DEF Calls

\* With a call that has passed all of its fields ends nothing that a readable name
\* could tell.
LEMMA LeavePasses ==
  ASSUME IsSchema(schema), NEW stk, NEW pre, Calls(stk, pre), NEW L, L = Len(stk), L # 1,
         Done(stk, L) = Len(FieldsOf(stk, L)),
         NEW stk2, NEW pre2, Leaves(stk, pre, stk2, pre2, L), NEW p \in Readable
  PROVE  Passed(stk2, pre2, p) <=> Passed(stk, pre, p)
<1>1. L \in Nat \ {0} /\ Len(pre) = L - 1 /\ Len(p) \in Nat
  BY CallsTypes, ReadableAre
<1>n. PICK n \in Nat \ {0} : n = L - 1
  BY <1>1
<1>2. /\ Len(stk2) = n
      /\ \A i \in 1..(n - 1) : pre2[i] = pre[i]
      /\ \A l \in 1..n : FieldsOf(stk2, l) = FieldsOf(stk, l)
      /\ \A l \in 1..(n - 1) : Done(stk2, l) = Done(stk, l)
      /\ Done(stk2, n) = Done(stk, n) + 1
  BY <1>n DEF Leaves
<1>3. /\ Done(stk, n) \in Nat /\ Done(stk, n) + 1 \in 1..Len(FieldsOf(stk, n))
      /\ FieldsOf(stk, n)[Done(stk, n) + 1].name = pre[n]
      /\ FieldsOf(stk, n)[Done(stk, n) + 1].type = "Obj"
  <2>1. n \in 1..Len(stk) /\ n \in 1..Len(pre)
    BY <1>1, <1>n
  <2>2. Done(stk, n) \in Nat
    BY <2>1, CallsTypes
  <2> QED
    BY <2>1, <2>2 DEF Calls
<1>4. \A l \in 1..(n - 1) : PassedAt(stk2, pre2, p, l) <=> PassedAt(stk, pre, p, l)
  <2> SUFFICES ASSUME NEW l \in 1..(n - 1)
               PROVE  PassedAt(stk2, pre2, p, l) <=> PassedAt(stk, pre, p, l)
    OBVIOUS
  <2>1. \A i \in 1..(l - 1) : pre2[i] = pre[i]
    BY <1>2
  <2>2. FieldsOf(stk2, l) = FieldsOf(stk, l) /\ Done(stk2, l) = Done(stk, l)
    BY <1>2
  <2>3. (\A i \in 1..(l - 1) : p[i] = pre2[i]) <=> \A i \in 1..(l - 1) : p[i] = pre[i]
    BY <2>1
  <2> QED
    BY ONLY <2>2, <2>3 DEF PassedAt
<1> DEFINE Along == n <= Len(p) /\ \A i \in 1..(n - 1) : p[i] = pre[i]
<1>5. PassedAt(stk2, pre2, p, n) <=> PassedAt(stk, pre, p, n) \/ (Along /\ p[n] = pre[n])
  <2>1. (\E j \in 1..(Done(stk, n) + 1) : FieldsOf(stk, n)[j].name = p[n]) <=>
          \/ \E j \in 1..Done(stk, n) : FieldsOf(stk, n)[j].name = p[n]
          \/ p[n] = pre[n]
    BY <1>3
  <2>2. (\A i \in 1..(n - 1) : p[i] = pre2[i]) <=> \A i \in 1..(n - 1) : p[i] = pre[i]
    BY <1>2
  <2>3. FieldsOf(stk2, n) = FieldsOf(stk, n) /\ Done(stk2, n) = Done(stk, n) + 1
    BY <1>2
  <2> QED
    BY <2>1, <2>2, <2>3 DEF PassedAt
<1>6. PassedAt(stk, pre, p, L) <=> Along /\ p[n] = pre[n]
  <2>1. ASSUME PassedAt(stk, pre, p, L) PROVE Along /\ p[n] = pre[n]
    BY <1>1, <1>n, <2>1 DEF PassedAt
  <2>2. ASSUME Along, p[n] = pre[n] PROVE PassedAt(stk, pre, p, L)
    <3>1. n < Len(p)
      <4>1. n \in 1..Len(stk) /\ n <= Len(p) /\ \A i \in 1..(n - 1) : p[i] = pre[i]
        BY <1>1, <1>n, <2>2
      <4> QED
        BY <1>3, <2>2, <4>1, BehindTable
    <3>2. L \in 1..Len(stk) /\ L <= Len(p) /\ \A i \in 1..(L - 1) : p[i] = pre[i]
      BY <1>1, <1>n, <2>2, <3>1
    <3>3. \E j \in 1..Len(FieldsOf(stk, L)) : FieldsOf(stk, L)[j].name = p[L]
      BY <3>2, NextToken
    <3> QED
      BY <3>2, <3>3 DEF PassedAt
  <2> QED
    BY <2>1, <2>2
<1> HIDE DEF Along
<1>7. 1..L = 1..(n - 1) \cup {n, L} /\ 1..n = 1..(n - 1) \cup {n}
  BY <1>1, <1>n
<1>8. Passed(stk2, pre2, p) <=>
         PassedAt(stk2, pre2, p, n) \/ \E l \in 1..(n - 1) : PassedAt(stk2, pre2, p, l)
  BY <1>2, <1>7 DEF Passed
<1>9. Passed(stk, pre, p) <=>
         \/ PassedAt(stk, pre, p, L) \/ PassedAt(stk, pre, p, n)
         \/ \E l \in 1..(n - 1) : PassedAt(stk, pre, p, l)
  BY <1>7 DEF Passed
<1> QED
  BY <1>4, <1>5, <1>6, <1>8, <1>9

-----------------------------------------------------------------------------
(* The columns. *)

\* A walk that begins has passed nothing.
LEMMA StartLists ==
  ASSUME IsSchema(schema), NEW stk, stk = <<[object |-> Root, next |-> 1]>>
  PROVE  Calls(stk, <<>>) /\ Listed(<<>>, stk, <<>>)
<1>1. stk \in Seq(Frames) /\ Len(stk) = 1 /\ stk[1].object = Root /\ stk[1].next = 1
  <2>1. Root \in Tables(schema)
    BY DEF IsSchema, Tables
  <2>2. [object |-> Root, next |-> 1] \in Frames
    BY <2>1 DEF Frames
  <2> QED
    BY <2>2
<1>2. Done(stk, 1) = 0
  BY <1>1 DEF Done
<1>3. Objects(schema, <<>>)[0] = Root
  BY ObjectsAre
<1>4. Len(FieldsOf(stk, 1)) \in Nat
  <2>1. Root \in Tables(schema)
    BY DEF IsSchema, Tables
  <2> QED
    BY <1>1, <2>1, FieldsOfSchema DEF FieldsOf
<1>5. Calls(stk, <<>>)
  <2>1. 1 \in 1..MaxDepth
    BY DocumentsAssumption
  <2>2. <<>> \in Seq(Names) /\ Len(<<>>) = 0
    OBVIOUS
  <2> QED
    BY <1>1, <1>2, <1>3, <1>4, <2>1, <2>2 DEF Calls
<1>6. \A p : ~Passed(stk, <<>>, p)
  BY <1>1, <1>2 DEF Passed, PassedAt
<1>7. Listed(<<>>, stk, <<>>)
  BY <1>6 DEF Listed
<1> QED
  BY <1>5, <1>7

\* The types of the columns.
LEMMA ColumnsTypes ==
  ASSUME NEW cols \in Seq([tokens : Readable, type : ColumnTypes])
  PROVE  Len(cols) \in Nat /\ \A c \in 1..Len(cols) : cols[c].tokens \in Readable
<1>1. /\ Len(cols) \in Nat
      /\ \A c \in 1..Len(cols) : cols[c] \in [tokens : Readable, type : ColumnTypes]
  BY ElementOfSeq, LenProperties
<1>2. \A x \in [tokens : Readable, type : ColumnTypes] : x.tokens \in Readable
  OBVIOUS
<1> QED
  BY <1>1, <1>2

\* The columns are those of any walk that has passed the same readable names.
LEMMA ListedKept ==
  ASSUME NEW cols, NEW stk, NEW pre, Listed(cols, stk, pre), NEW stk2, NEW pre2,
         \A p \in Readable : Passed(stk2, pre2, p) <=> Passed(stk, pre, p)
  PROVE  Listed(cols, stk2, pre2)
<1>1. cols \in Seq([tokens : Readable, type : ColumnTypes])
  BY DEF Listed
<1>2. \A c \in 1..Len(cols) : cols[c].tokens \in Readable
  BY <1>1, ColumnsTypes
<1> QED
  BY <1>1, <1>2 DEF Listed

\* A union, a vector or a table is passed by no readable name.
LEMMA SkipLists ==
  ASSUME IsSchema(schema), NEW cols, NEW stk, NEW pre, Calls(stk, pre),
         Listed(cols, stk, pre), NEW L, L = Len(stk),
         stk[L].next <= Len(FieldsOf(stk, L)),
         GetType(FieldsOf(stk, L)[stk[L].next]) \notin ColumnTypes \cup {"COMPLEX"},
         NEW adv, Advances(stk, adv, L)
  PROVE  Listed(cols, adv, pre)
<1>1. L \in 1..Len(stk) /\ stk[L].next \in 1..Len(FieldsOf(stk, L))
  <2>1. L \in 1..Len(stk)
    BY CallsTypes
  <2>2. stk[L].next \in 1..Len(FieldsOf(stk, L))
    BY ONLY IsSchema(schema), Calls(stk, pre), L = Len(stk),
            stk[L].next <= Len(FieldsOf(stk, L)), NextField
  <2> QED
    BY <2>1, <2>2
<1>2. ASSUME NEW p \in Readable, L <= Len(p), \A i \in 1..(L - 1) : p[i] = pre[i],
             FieldsOf(stk, L)[stk[L].next].name = p[L]
      PROVE  FALSE
  <2> DEFINE f == FieldsOf(stk, L)[stk[L].next]
  <2>1. /\ L < Len(p) => f.type = "Obj"
        /\ L = Len(p) => GetType(f) \in ColumnTypes
    BY <1>1, <1>2, FieldOfToken
  <2>2. f.type # "Obj" /\ GetType(f) \notin ColumnTypes
    BY ComplexIsObj
  <2>3. Len(p) \in Nat /\ L \in Nat
    BY <1>1, ReadableAre
  <2> HIDE DEF f
  <2> QED
    BY <1>2, <2>1, <2>2, <2>3
<1>3. \A p \in Readable : Passed(adv, pre, p) <=> Passed(stk, pre, p)
  BY <1>2, AdvancePasses
<1> QED
  BY <1>3, ListedKept

\* A field of a scalar type, a string or a blob is passed by the name that is
\* added, and by no other.
LEMMA AddLists ==
  ASSUME IsSchema(schema), NEW cols, NEW stk, NEW pre, Calls(stk, pre),
         Listed(cols, stk, pre), NEW L, L = Len(stk),
         stk[L].next <= Len(FieldsOf(stk, L)),
         NEW field, field = FieldsOf(stk, L)[stk[L].next], GetType(field) \in ColumnTypes,
         NEW adv, Advances(stk, adv, L),
         NEW q, q = Append(pre, field.name),
         NEW column, column.tokens = q, column.type = GetType(field),
         column \in [tokens : {q}, type : ColumnTypes],
         NEW cols2, cols2 = Append(cols, column)
  PROVE  Listed(cols2, adv, pre)
<1>1. /\ L \in 1..Len(stk) /\ L \in Nat \ {0} /\ L <= MaxDepth /\ stk[L].next \in Nat \ {0}
      /\ pre \in Seq(Names) /\ Len(pre) = L - 1 /\ stk[L].object \in Tables(schema)
      /\ Done(stk, L) = stk[L].next - 1
  BY CallsTypes
<1>2. /\ stk[L].next \in 1..Len(FieldsOf(stk, L))
      /\ field.name \in Names /\ field.name # ""
      /\ LookupByKey(schema, stk[L].object, field.name) = field
  <2>1. /\ stk[L].next \in 1..Len(FieldsOf(stk, L))
        /\ FieldsOf(stk, L)[stk[L].next].name \in Names
        /\ FieldsOf(stk, L)[stk[L].next].name # ""
        /\ LookupByKey(schema, stk[L].object, FieldsOf(stk, L)[stk[L].next].name)
              = FieldsOf(stk, L)[stk[L].next]
    BY ONLY IsSchema(schema), Calls(stk, pre), L = Len(stk),
            stk[L].next <= Len(FieldsOf(stk, L)), NextField
  <2> QED
    BY <2>1
<1>3. /\ q \in Seq(Names) /\ Len(q) = L /\ q[L] = field.name /\ q # <<>>
      /\ \A i \in 1..(L - 1) : q[i] = pre[i]
  <2>1. pre \in Seq(Names) /\ field.name \in Names /\ Len(pre) = L - 1 /\ L \in Nat \ {0}
    BY <1>1, <1>2
  <2>2. /\ q \in Seq(Names) /\ Len(q) = Len(pre) + 1 /\ q[Len(pre) + 1] = field.name
        /\ \A i \in 1..Len(pre) : q[i] = pre[i]
    <3>1. PICK x \in Names : x = field.name
      BY <2>1
    <3>2. /\ Append(pre, x) \in Seq(Names) /\ Len(Append(pre, x)) = Len(pre) + 1
          /\ Append(pre, x)[Len(pre) + 1] = x
          /\ \A i \in 1..Len(pre) : Append(pre, x)[i] = pre[i]
      <4>1. pre \in Seq(Names) /\ x \in Names
        BY <2>1
      <4> QED
        BY ONLY <4>1, AppendProperties
    <3> QED
      BY ONLY <3>1, <3>2, q = Append(pre, field.name)
  <2>3. Len(pre) + 1 = L /\ L # 0
    BY ONLY <2>1
  <2>4. Len(q) = L /\ q[L] = field.name
    BY ONLY <2>2, <2>3
  <2>5. q # <<>>
    BY ONLY <2>3, <2>4
  <2>6. \A i \in 1..(L - 1) : q[i] = pre[i]
    BY ONLY <2>1, <2>2
  <2> QED
    BY ONLY <2>2, <2>4, <2>5, <2>6
<1>4. Kind(q) = GetType(field)
  <2>1. Objects(schema, q)[L - 1] = stk[L].object
    <3>1. /\ L - 1 \in Nat /\ L - 1 <= Len(q) /\ L - 1 <= Len(pre)
          /\ Len(q) \in Nat /\ Len(pre) \in Nat
          /\ \A i \in 1..(L - 1) : q[i] = pre[i]
      BY ONLY <1>1, <1>3
    <3>2. Objects(schema, q)[L - 1] = Objects(schema, pre)[L - 1]
      BY ONLY IsSchema(schema), <3>1, ObjectsAgree
    <3> QED
      BY <1>1, <3>2 DEF Calls
  <2>2. field # NoField
    <3>1. NoField.name = "" /\ field.name # ""
      BY <1>2 DEF NoField
    <3> QED
      BY <3>1
  <2>3. field = LookupByKey(schema, Objects(schema, q)[Len(q) - 1], q[Len(q)])
    BY <1>2, <1>3, <2>1
  <2> QED
    BY <1>3, <2>2, <2>3, KindIs
<1>5. q \in Readable
  <2>1. Len(q) \in 1..MaxDepth
    BY <1>1, <1>3, DocumentsAssumption
  <2>2. q \in Paths
    BY <1>3, <2>1, PathsAre
  <2> QED
    BY <1>4, <2>2 DEF Readable
<1>6. ~Passed(stk, pre, q)
  <2> SUFFICES ASSUME NEW l \in 1..L, PassedAt(stk, pre, q, l) PROVE FALSE
    BY DEF Passed
  <2>1. PICK j \in 1..Done(stk, l) : FieldsOf(stk, l)[j].name = q[l]
    BY DEF PassedAt
  <2>l. l \in 1..Len(stk)
    OBVIOUS
  <2>2. Done(stk, l) \in Nat /\ Done(stk, l) <= Len(FieldsOf(stk, l))
    BY ONLY Calls(stk, pre), <2>l, CallsTypes
  <2>3. /\ Len(FieldsOf(stk, l)) \in Nat
        /\ \A i, k \in 1..Len(FieldsOf(stk, l)) :
              FieldsOf(stk, l)[i].name = FieldsOf(stk, l)[k].name => i = k
    BY ONLY IsSchema(schema), Calls(stk, pre), <2>l, FieldsOfCall
  <2>4. /\ Done(stk, l) + 1 \in 1..Len(FieldsOf(stk, l))
        /\ FieldsOf(stk, l)[Done(stk, l) + 1].name = q[l]
    <3>1. CASE l = L
      <4>1. Done(stk, l) + 1 = stk[L].next
        BY <1>1, <3>1
      <4> QED
        BY <1>2, <1>3, <3>1, <4>1
    <3>2. CASE l \in 1..(L - 1)
      <4>1. l \in 1..Len(pre)
        BY <1>1, <3>2
      <4> QED
        BY <1>3, <3>2, <4>1 DEF Calls
    <3> QED
      BY <1>1, <3>1, <3>2
  <2>5. j \in 1..Len(FieldsOf(stk, l)) /\ j # Done(stk, l) + 1
    BY <2>1, <2>2, <2>3
  <2> QED
    BY ONLY <2>1, <2>3, <2>4, <2>5
<1>7. \A p \in Readable : Passed(adv, pre, p) <=> Passed(stk, pre, p) \/ p = q
  <2>1. Passed(adv, pre, q)
    <3>1. L <= Len(q) /\ FieldsOf(stk, L)[stk[L].next].name = q[L]
      BY <1>1, <1>3
    <3> QED
      BY <1>3, <3>1, AdvancePasses
  <2>2. ASSUME NEW p \in Readable, L <= Len(p), \A i \in 1..(L - 1) : p[i] = pre[i],
               FieldsOf(stk, L)[stk[L].next].name = p[L]
        PROVE  p = q
    <3>1. L < Len(p) => field.type = "Obj"
      <4>1. stk[L].next \in 1..Len(FieldsOf(stk, L)) /\ L \in 1..Len(stk)
        BY <1>1, <1>2
      <4>2. L < Len(p) => FieldsOf(stk, L)[stk[L].next].type = "Obj"
        BY ONLY IsSchema(schema), Calls(stk, pre), <2>2, <4>1, FieldOfToken
      <4> QED
        BY <4>2
    <3>2. field.type # "Obj"
      BY ComplexIsObj, ComplexIsNoColumn
    <3>3. p \in Seq(Names) /\ Len(p) = L
      BY <1>1, <2>2, <3>1, <3>2, ReadableAre
    <3>4. \A i \in 1..L : p[i] = q[i]
      <4> SUFFICES ASSUME NEW i \in 1..L PROVE p[i] = q[i]
        OBVIOUS
      <4>1. i = L \/ i \in 1..(L - 1)
        BY <1>1
      <4> QED
        BY <1>3, <2>2, <4>1
    <3> QED
      BY ONLY <1>3, <3>3, <3>4
  <2>3. ASSUME NEW p \in Readable
        PROVE  Passed(adv, pre, p) <=>
                 \/ Passed(stk, pre, p)
                 \/ /\ L <= Len(p) /\ \A i \in 1..(L - 1) : p[i] = pre[i]
                    /\ FieldsOf(stk, L)[stk[L].next].name = p[L]
    <3>1. L = Len(stk) /\ stk[L].next <= Len(FieldsOf(stk, L))
      OBVIOUS
    <3> QED
      BY ONLY Calls(stk, pre), Advances(stk, adv, L), <3>1, AdvancePasses
  <2> QED
    BY ONLY <2>1, <2>2, <2>3
<1>8. /\ cols2 \in Seq([tokens : Readable, type : ColumnTypes]) /\ Len(cols2) = Len(cols) + 1
      /\ cols2[Len(cols) + 1] = column /\ \A c \in 1..Len(cols) : cols2[c] = cols[c]
      /\ Len(cols) \in Nat /\ \A c \in 1..Len(cols) : cols[c].tokens \in Readable
  <2>1. cols \in Seq([tokens : Readable, type : ColumnTypes])
    BY DEF Listed
  <2>2. {q} \subseteq Readable
    BY <1>5
  <2>3. column \in [tokens : Readable, type : ColumnTypes]
    BY <2>2
  <2>4. /\ Append(cols, column) \in Seq([tokens : Readable, type : ColumnTypes])
        /\ Len(Append(cols, column)) = Len(cols) + 1
        /\ Append(cols, column)[Len(cols) + 1] = column
        /\ \A c \in 1..Len(cols) : Append(cols, column)[c] = cols[c]
    BY ONLY <2>1, <2>3, AppendProperties
  <2>5. Len(cols) \in Nat /\ \A c \in 1..Len(cols) : cols[c].tokens \in Readable
    BY ONLY <2>1, ColumnsTypes
  <2>6. cols2 = Append(cols, column)
    OBVIOUS
  <2> QED
    BY ONLY <2>4, <2>5, <2>6
<1>9. \A c \in 1..(Len(cols) + 1) : c \in 1..Len(cols) \/ c = Len(cols) + 1
  BY <1>8
<1>10. ASSUME NEW c \in 1..Len(cols2)
       PROVE  /\ cols2[c].type = Kind(cols2[c].tokens)
              /\ Passed(adv, pre, cols2[c].tokens)
  <2>1. CASE c \in 1..Len(cols)
    BY <1>7, <1>8, <2>1 DEF Listed
  <2>2. CASE c = Len(cols) + 1
    BY <1>4, <1>5, <1>7, <1>8, <2>2
  <2> QED
    BY <1>8, <1>9, <2>1, <2>2
<1>11. ASSUME NEW p \in Readable, Passed(adv, pre, p)
       PROVE  \E c \in 1..Len(cols2) : cols2[c].tokens = p
  <2>1. CASE p = q
    <3>1. Len(cols) + 1 \in 1..Len(cols2)
      BY <1>8
    <3> QED
      BY <1>8, <2>1, <3>1
  <2>2. CASE Passed(stk, pre, p)
    <3>1. PICK c \in 1..Len(cols) : cols[c].tokens = p
      BY <2>2 DEF Listed
    <3>2. c \in 1..Len(cols2)
      BY <1>8
    <3> QED
      BY <1>8, <3>1, <3>2
  <2> QED
    BY <1>7, <1>11, <2>1, <2>2
<1>12. \A c \in 1..Len(cols) : cols[c].tokens # q
  <2>1. \A c \in 1..Len(cols) : Passed(stk, pre, cols[c].tokens)
    BY DEF Listed
  <2> QED
    BY ONLY <1>6, <2>1
<1>13. ASSUME NEW c \in 1..Len(cols2), NEW d \in 1..Len(cols2),
              cols2[c].tokens = cols2[d].tokens
       PROVE  c = d
  <2>1. CASE c \in 1..Len(cols) /\ d \in 1..Len(cols)
    BY <1>8, <1>13, <2>1 DEF Listed
  <2>2. CASE c = Len(cols) + 1 \/ d = Len(cols) + 1
    BY <1>8, <1>9, <1>12, <1>13, <2>2
  <2> QED
    BY <1>8, <1>9, <2>1, <2>2
<1> QED
  BY <1>8, <1>10, <1>11, <1>13 DEF Listed

\* When the call for the root ends, every readable name has been passed.
LEMMA EndLists ==
  ASSUME IsSchema(schema), NEW cols, NEW stk, NEW pre, Calls(stk, pre),
         Listed(cols, stk, pre), Len(stk) = 1, Done(stk, 1) = Len(FieldsOf(stk, 1))
  PROVE  AllListed(cols)
<1>1. ASSUME NEW p \in Readable PROVE Passed(stk, pre, p)
  <2>1. 1 \in 1..Len(stk) /\ 1 <= Len(p) /\ \A i \in 1..(1 - 1) : p[i] = pre[i]
    BY ReadableAre
  <2>2. \E j \in 1..Len(FieldsOf(stk, 1)) : FieldsOf(stk, 1)[j].name = p[1]
    BY <2>1, NextToken
  <2> QED
    BY <2>1, <2>2 DEF Passed, PassedAt
<1> QED
  BY <1>1 DEF Listed, AllListed

-----------------------------------------------------------------------------
(* The walk and its columns are an invariant. *)

\* Until the walk is over, the columns are those it has passed; then, all.
WalkInv ==
    /\ schema \in AllSchemas
    /\ pc = "types" => columns = <<>> /\ prefixes = <<>>
    /\ pc = "table" => Calls(stack, prefixes) /\ Listed(columns, stack, prefixes)
    /\ pc \in {"open", "index"} => AllListed(columns)

\* What is said of the schema stays while the schema does.
LEMMA SchemaStays ==
  ASSUME schema' = schema
  PROVE  /\ Names' = Names /\ Paths' = Paths /\ Readable' = Readable
         /\ Documents' = Documents
<1>1. Names' = Names
  BY DEF Names
<1>2. Paths' = Paths
  BY <1>1 DEF Paths
<1>3. Readable' = Readable
  BY <1>2 DEF Readable, Kind
<1>4. Documents' = Documents
  BY <1>2 DEF Documents, Kind
<1> QED
  BY <1>1, <1>2, <1>3, <1>4

\* What is said of the walk, of its next state.
LEMMA WalkStays ==
  ASSUME schema' = schema
  PROVE  /\ Calls(stack', prefixes') => Calls(stack, prefixes)'
         /\ Listed(columns', stack', prefixes') => Listed(columns, stack, prefixes)'
         /\ AllListed(columns') => AllListed(columns)'
<1>1. Names' = Names /\ Readable' = Readable
  BY SchemaStays
<1>2. Calls(stack', prefixes') => Calls(stack, prefixes)'
  BY <1>1 DEF Calls, Frames, Tables, FieldsOf, Done
<1>3. ASSUME Listed(columns', stack', prefixes') PROVE Listed(columns, stack, prefixes)'
  <2>1. /\ (columns \in Seq([tokens : Readable, type : ColumnTypes]))'
        /\ (\A c, d \in 1..Len(columns) : columns[c].tokens = columns[d].tokens => c = d)'
    BY <1>1, <1>3 DEF Listed
  <2>2. (\A c \in 1..Len(columns) : columns[c].type = Kind(columns[c].tokens))'
    BY <1>3 DEF Listed, Kind
  <2>3. (\A c \in 1..Len(columns) : Passed(stack, prefixes, columns[c].tokens))'
    BY <1>3 DEF Listed, Passed, PassedAt, FieldsOf, Done
  <2>4. (\A p \in Readable : Passed(stack, prefixes, p) =>
            \E c \in 1..Len(columns) : columns[c].tokens = p)'
    <3> SUFFICES ASSUME NEW p \in Readable, Passed(stack, prefixes, p)'
                 PROVE  (\E c \in 1..Len(columns) : columns[c].tokens = p)'
      BY <1>1
    <3>1. Passed(stack', prefixes', p)
      BY DEF Passed, PassedAt, FieldsOf, Done
    <3> QED
      BY <1>3, <3>1 DEF Listed
  <2> QED
    BY <2>1, <2>2, <2>3, <2>4 DEF Listed
<1>4. AllListed(columns') => AllListed(columns)'
  BY <1>1 DEF AllListed, Kind
<1> QED
  BY <1>2, <1>3, <1>4

LEMMA WalkInit == DocumentsInit => WalkInv
BY DEF DocumentsInit, WalkInv

LEMMA SchemaIs == WalkInv => IsSchema(schema)
BY DocumentsAssumption DEF WalkInv

\* The field that the last call comes to.
LEMMA FieldIs ==
  ASSUME Calls(stack, prefixes), IsSchema(schema), NEW L, L = Len(stack)
  PROVE  /\ Frame = stack[L]
         /\ Field = FieldsOf(stack, L)[stack[L].next]
         /\ Advanced = [stack EXCEPT ![L].next = @ + 1]
         /\ InTable => stack[L].next <= Len(FieldsOf(stack, L))
         /\ pc = "table" /\ ~InTable => Done(stack, L) = Len(FieldsOf(stack, L))
<1>1. Frame = stack[L]
  BY DEF Frame, Last
<1>2. /\ L \in 1..Len(stack) /\ stack[L].next \in Nat \ {0}
      /\ Done(stack, L) <= Len(FieldsOf(stack, L)) /\ Done(stack, L) = stack[L].next - 1
  BY CallsTypes
<1>3. Len(FieldsOf(stack, L)) \in Nat
  BY <1>2, FieldsOfCall
<1>4. InTable <=> pc = "table" /\ stack[L].next <= Len(FieldsOf(stack, L))
  BY <1>1 DEF InTable, FieldsOf
<1> QED
  BY <1>1, <1>2, <1>3, <1>4 DEF Field, Advanced, FieldsOf

LEMMA WalkStep == WalkInv /\ [DocumentsNext]_documentsVars => WalkInv'
<1> SUFFICES ASSUME WalkInv, [DocumentsNext]_documentsVars PROVE WalkInv'
  OBVIOUS
<1>s. IsSchema(schema) /\ schema \in AllSchemas
  BY SchemaIs DEF WalkInv
<1>1. CASE CreateIndexers
  <2>1. /\ schema' = schema /\ columns' = columns /\ prefixes' = prefixes
        /\ columns = <<>> /\ prefixes = <<>>
    BY <1>1 DEF CreateIndexers, WalkInv
  <2>2. \/ pc' = "table" /\ stack' = <<[object |-> Root, next |-> 1]>>
        \/ pc' = "refused"
    BY <1>1 DEF CreateIndexers
  <2>3. CASE pc' = "table" /\ stack' = <<[object |-> Root, next |-> 1]>>
    <3>1. Calls(stack', prefixes') /\ Listed(columns', stack', prefixes')
      BY <1>s, <2>1, <2>3, StartLists
    <3> QED
      BY <1>s, <2>1, <2>3, <3>1, WalkStays DEF WalkInv
  <2>4. CASE pc' = "refused"
    BY <1>s, <2>1, <2>4 DEF WalkInv
  <2> QED
    BY <2>2, <2>3, <2>4
<1>2. CASE EnterField \/ SkipField \/ AddColumn \/ RefuseField \/ LeaveObject
  <2>1. schema' = schema /\ pc = "table"
    BY <1>2 DEF EnterField, SkipField, AddColumn, RefuseField, LeaveObject, InTable
  <2>2. Calls(stack, prefixes) /\ Listed(columns, stack, prefixes)
    BY <2>1 DEF WalkInv
  <2> DEFINE L == Len(stack)
  <2>3. /\ Field = FieldsOf(stack, L)[stack[L].next]
        /\ Advanced = [stack EXCEPT ![L].next = @ + 1]
        /\ InTable => stack[L].next <= Len(FieldsOf(stack, L))
        /\ ~InTable => Done(stack, L) = Len(FieldsOf(stack, L))
    BY <1>s, <2>1, <2>2, FieldIs
  <2>4. Advances(stack, Advanced, L)
    BY <2>2, <2>3, Advance
  <2>5. /\ L \in Nat \ {0} /\ L \in 1..Len(stack)
        /\ stack[L].next \in Nat \ {0} /\ stack[L].object \in Tables(schema)
    BY <2>2, CallsTypes
  <2> HIDE DEF L
  <2>l. L = Len(stack)
    BY DEF L
  <2>w. ASSUME pc' = "table", Calls(stack', prefixes'), Listed(columns', stack', prefixes')
        PROVE  WalkInv'
    BY <1>s, <2>1, <2>w, WalkStays DEF WalkInv
  <2>6. CASE EnterField
    <3>1. CASE Len(stack) = MaxDepth
      BY <1>s, <2>1, <2>6, <3>1 DEF EnterField, WalkInv
    <3>2. CASE Len(stack) # MaxDepth
      <4>1. /\ InTable /\ GetType(Field) = "COMPLEX" /\ pc' = "table" /\ columns' = columns
            /\ prefixes' = Append(prefixes, Field.name)
            /\ stack' = Append(Advanced, [object |-> Field.object, next |-> 1])
        BY <2>1, <2>6, <3>2 DEF EnterField
      <4>2. Field.type = "Obj"
        BY <4>1, ComplexIsObj
      <4>3. Field.name \in Names /\ Field.object \in Tables(schema)
        BY <1>s, <2>2, <2>3, <2>l, <4>1, <4>2, NextField
      <4>4. Enters(stack, prefixes, stack', prefixes', L, Field)
        BY <2>2, <2>l, <2>4, <4>1, <4>3, Enter
      <4>5. Calls(stack', prefixes')
        BY <1>s, <2>2, <2>3, <2>l, <3>2, <4>1, <4>2, <4>4, EnterCalls
      <4>6. Listed(columns', stack', prefixes')
        <5>1. \A p \in Readable : Passed(stack', prefixes', p) <=> Passed(stack, prefixes, p)
          BY <2>2, <2>l, <4>4, EnterPasses
        <5> QED
          BY <2>2, <4>1, <5>1, ListedKept
      <4> QED
        BY <2>w, <4>1, <4>5, <4>6
    <3> QED
      BY <3>1, <3>2
  <2>7. CASE SkipField
    <3>1. /\ InTable /\ GetType(Field) \in {"UNION", "VECTOR"} /\ pc' = "table"
          /\ stack' = Advanced /\ prefixes' = prefixes /\ columns' = columns
      BY <2>1, <2>7 DEF SkipField
    <3>2. GetType(FieldsOf(stack, L)[stack[L].next]) \notin ColumnTypes \cup {"COMPLEX"}
      BY <2>3, <3>1 DEF ColumnTypes
    <3>3. Calls(Advanced, prefixes)
      BY <2>2, <2>3, <2>l, <2>4, <3>1, AdvanceCalls
    <3>4. Listed(columns, Advanced, prefixes)
      BY <1>s, <2>2, <2>3, <2>l, <2>4, <3>1, <3>2, SkipLists
    <3> QED
      BY <2>w, <3>1, <3>3, <3>4
  <2>8. CASE AddColumn
    <3> DEFINE q == Append(prefixes, Field.name)
               column == [tokens |-> q, type |-> GetType(Field)]
    <3>1. /\ InTable /\ GetType(Field) \in ColumnTypes /\ pc' = "table"
          /\ stack' = Advanced /\ prefixes' = prefixes /\ columns' = Append(columns, column)
      BY <2>1, <2>8 DEF AddColumn
    <3>2. /\ column.tokens = q /\ column.type = GetType(Field)
          /\ column \in [tokens : {q}, type : ColumnTypes]
      <4>1. GetType(Field) \in ColumnTypes
        BY <3>1
      <4> HIDE DEF q
      <4> QED
        BY <4>1
    <3>3. Calls(Advanced, prefixes)
      BY <2>2, <2>3, <2>l, <2>4, <3>1, AdvanceCalls
    <3>4. Listed(columns', Advanced, prefixes)
      <4>1. q = Append(prefixes, Field.name)
        OBVIOUS
      <4> HIDE DEF q, column
      <4> QED
        BY <1>s, <2>2, <2>3, <2>l, <2>4, <3>1, <3>2, <4>1, AddLists
    <3> QED
      BY <2>w, <3>1, <3>3, <3>4
  <2>9. CASE RefuseField
    BY <1>s, <2>1, <2>9 DEF RefuseField, WalkInv
  <2>10. CASE LeaveObject
    <3>1. ~InTable /\ columns' = columns /\ Done(stack, L) = Len(FieldsOf(stack, L))
      BY <2>3, <2>10 DEF LeaveObject
    <3>2. CASE L = 1
      <4>1. pc' = "open"
        BY <2>10, <2>l, <3>2 DEF LeaveObject
      <4>2. AllListed(columns)
        BY <1>s, <2>2, <2>l, <3>1, <3>2, EndLists
      <4> QED
        BY <1>s, <2>1, <3>1, <4>1, <4>2, WalkStays DEF WalkInv
    <3>3. CASE L # 1
      <4>1. pc' = "table" /\ stack' = Front(stack) /\ prefixes' = Front(prefixes)
        BY <2>1, <2>10, <2>l, <3>3 DEF LeaveObject
      <4>2. Leaves(stack, prefixes, stack', prefixes', L)
        BY <2>2, <2>l, <3>3, <4>1, Leave
      <4>3. Calls(stack', prefixes')
        BY <1>s, <2>2, <2>l, <3>3, <4>2, LeaveCalls
      <4>4. \A p \in Readable : Passed(stack', prefixes', p) <=> Passed(stack, prefixes, p)
        BY <1>s, <2>2, <2>l, <3>1, <3>3, <4>2, LeavePasses
      <4> QED
        BY <2>2, <2>w, <3>1, <4>1, <4>3, <4>4, ListedKept
    <3> QED
      BY <3>2, <3>3
  <2> QED
    BY <1>2, <2>6, <2>7, <2>8, <2>9, <2>10
<1>3. CASE \/ ReserveID \/ Insert \/ InsertThrows \/ InsertAborts \/ Inserted
           \/ ReadColumn
  <2>1. /\ schema' = schema /\ columns' = columns /\ pc \in {"open", "index"}
        /\ pc' \in {"open", "index", "aborted"}
    BY <1>3 DEF ReserveID, Insert, InsertThrows, InsertAborts, Inserted, ReadColumn
  <2>2. AllListed(columns)'
    BY <2>1, WalkStays DEF WalkInv
  <2> QED
    BY <1>s, <2>1, <2>2 DEF WalkInv
<1>4. CASE UNCHANGED documentsVars
  <2>1. UNCHANGED <<schema, pc, columns, prefixes, stack>>
    BY <1>4 DEF documentsVars
  <2> QED
    BY <2>1, WalkStays DEF WalkInv
<1> QED
  BY <1>1, <1>2, <1>3, <1>4 DEF DocumentsNext

\* For every schema: the names of the table's columns are those that have a type
\* of SQLite, each once and with that type.
THEOREM ColumnsAreRight == DocumentsSpec => []ColumnsAreTheReadable
<1>1. WalkInv => ColumnsAreTheReadable
  <2> SUFFICES ASSUME WalkInv, pc = "open"
               PROVE  /\ ToSet(columns) = {[tokens |-> p, type |-> Kind(p)] : p \in Readable}
                      /\ IsInjective(columns)
    BY DEF ColumnsAreTheReadable, Readable
  <2>1. AllListed(columns)
    BY DEF WalkInv
  <2>2. /\ columns \in Seq([tokens : Readable, type : ColumnTypes])
        /\ Len(columns) \in Nat /\ \A c \in 1..Len(columns) : columns[c].tokens \in Readable
    BY <2>1, ColumnsTypes DEF AllListed
  <2>3. /\ DOMAIN columns = 1..Len(columns)
        /\ \A c \in 1..Len(columns) :
              columns[c] = [tokens |-> columns[c].tokens, type |-> columns[c].type]
    <3>1. DOMAIN columns = 1..Len(columns)
      BY <2>2, LenProperties
    <3>2. \A c \in 1..Len(columns) : columns[c] \in [tokens : Readable, type : ColumnTypes]
      BY <2>2, ElementOfSeq
    <3>3. \A x \in [tokens : Readable, type : ColumnTypes] :
             x = [tokens |-> x.tokens, type |-> x.type]
      OBVIOUS
    <3> QED
      BY <3>1, <3>2, <3>3
  <2>4. \A c \in 1..Len(columns) :
           columns[c] = [tokens |-> columns[c].tokens, type |-> Kind(columns[c].tokens)]
    BY <2>1, <2>3 DEF AllListed
  <2>5. ToSet(columns) \subseteq {[tokens |-> p, type |-> Kind(p)] : p \in Readable}
    BY <2>2, <2>3, <2>4 DEF ToSet
  <2>6. ASSUME NEW p \in Readable PROVE [tokens |-> p, type |-> Kind(p)] \in ToSet(columns)
    <3>1. PICK c \in 1..Len(columns) : columns[c].tokens = p
      BY <2>1 DEF AllListed
    <3>2. columns[c] = [tokens |-> p, type |-> Kind(p)]
      BY <2>4, <3>1
    <3> QED
      BY <2>3, <3>2 DEF ToSet
  <2>7. IsInjective(columns)
    <3>1. ASSUME NEW c \in 1..Len(columns), NEW d \in 1..Len(columns), columns[c] = columns[d]
          PROVE  c = d
      BY <2>1, <3>1 DEF AllListed
    <3> QED
      BY <2>3, <3>1 DEF IsInjective
  <2> QED
    BY <2>5, <2>6, <2>7
<1> QED
  BY <1>1, WalkInit, WalkStep, PTL DEF DocumentsSpec

\* The walk runs out of stack only for a table that is a part of itself: the safety
\* half of WalkEnds.
OverflowsIfRecursive == pc = "overflow" => Recursive(schema)

\* A name of as many tables as there are in the schema or more is a cycle.
LEMMA DeepIsRecursive ==
  ASSUME IsSchema(schema), NEW p \in Seq(Names), Cardinality(Tables(schema)) <= Len(p),
         Objects(schema, p)[Len(p)] # NoObject
  PROVE  Recursive(schema)
<1>1. PICK n \in Nat : n = Cardinality(Tables(schema))
  BY FS_CardinalityType DEF IsSchema, Tables
<1>2. Len(p) \in Nat /\ n <= Len(p)
  BY <1>1
<1> DEFINE path == [i \in 1..n |-> p[i]]
<1>3. path \in [1..n -> Names] /\ Len(path) = n /\ \A i \in 1..n : path[i] = p[i]
  BY <1>2
<1> HIDE DEF path
<1>4. ObjectAt(schema, path) = Objects(schema, p)[n]
  <2>1. n <= Len(path) /\ Len(path) \in Nat /\ \A i \in 1..n : path[i] = p[i]
    BY <1>3
  <2>2. Objects(schema, path)[n] = Objects(schema, p)[n]
    BY ONLY IsSchema(schema), <1>2, <2>1, ObjectsAgree
  <2> QED
    BY <1>3, <2>2 DEF ObjectAt
<1>5. Objects(schema, p)[n] # NoObject
  <2>1. n \in 0..Len(p) /\ Len(p) \in n..Len(p)
    BY <1>2
  <2> QED
    BY <1>2, <2>1, NoObjectStays
<1> QED
  BY <1>1, <1>3, <1>4, <1>5 DEF Recursive, Names, Tables

\* For every schema whose tables fit the stack: a walk that fills it has come to a
\* table within itself.
THEOREM OverflowIsRecursion == DocumentsSpec => []OverflowsIfRecursive
<1>1. DocumentsInit => OverflowsIfRecursive
  BY DEF DocumentsInit, OverflowsIfRecursive
<1>2. WalkInv /\ OverflowsIfRecursive /\ [DocumentsNext]_documentsVars => OverflowsIfRecursive'
  <2> SUFFICES ASSUME WalkInv, OverflowsIfRecursive, [DocumentsNext]_documentsVars,
                      pc' = "overflow"
               PROVE  Recursive(schema')
    BY DEF OverflowsIfRecursive
  <2>s. IsSchema(schema) /\ schema \in AllSchemas
    BY SchemaIs DEF WalkInv
  <2>1. CASE EnterField
    <3> DEFINE L == Len(stack)
               p == Append(prefixes, Field.name)
    <3>1. schema' = schema /\ InTable /\ pc = "table" /\ GetType(Field) = "COMPLEX" /\ L = MaxDepth
      BY <2>1 DEF EnterField, InTable
    <3>2. Calls(stack, prefixes)
      BY <3>1 DEF WalkInv
    <3>3. /\ L \in Nat \ {0} /\ stack[L].next \in Nat \ {0} /\ stack[L].object \in Tables(schema)
          /\ L \in 1..Len(stack) /\ prefixes \in Seq(Names) /\ Len(prefixes) = L - 1
      BY <3>2, CallsTypes
    <3>4. /\ Field = FieldsOf(stack, L)[stack[L].next]
          /\ stack[L].next <= Len(FieldsOf(stack, L))
      BY <2>s, <3>1, <3>2, FieldIs
    <3> HIDE DEF L
    <3>6. /\ Field.name \in Names /\ Field.object # NoObject
          /\ LookupByKey(schema, stack[L].object, Field.name) = Field
      <4>1. Field.type = "Obj"
        BY <3>1, ComplexIsObj
      <4>2. L = Len(stack)
        BY DEF L
      <4>3. /\ Field.name \in Names /\ Field.object \in Tables(schema)
            /\ LookupByKey(schema, stack[L].object, Field.name) = Field
        BY <2>s, <3>2, <3>4, <4>1, <4>2, NextField
      <4>4. NoObject \notin Tables(schema)
        BY <2>s DEF IsSchema, Tables
      <4> QED
        BY <4>3, <4>4
    <3>7. /\ p \in Seq(Names) /\ Len(p) = L /\ p[L] = Field.name
          /\ \A i \in 1..(L - 1) : p[i] = prefixes[i]
      BY <3>3, <3>6
    <3> HIDE DEF p
    <3>8. Objects(schema, p)[L - 1] = stack[L].object
      <4>1. /\ L - 1 \in Nat /\ L - 1 <= Len(p) /\ L - 1 <= Len(prefixes)
            /\ Len(p) \in Nat /\ Len(prefixes) \in Nat
            /\ \A i \in 1..(L - 1) : p[i] = prefixes[i]
        BY <3>3, <3>7
      <4>2. Objects(schema, p)[L - 1] = Objects(schema, prefixes)[L - 1]
        BY ONLY <2>s, <4>1, ObjectsAgree
      <4> QED
        BY <3>2, <3>3, <4>2 DEF Calls
    <3>9. Objects(schema, p)[L] = Field.object
      <4>1. L \in 1..Len(p) /\ Len(p) \in Nat
        BY <3>3, <3>7
      <4>2. Objects(schema, p)[L] = LookupByKey(schema, Objects(schema, p)[L - 1], p[L]).object
        BY <2>s, <4>1, ObjectsAre
      <4> QED
        BY <3>6, <3>7, <3>8, <4>2
    <3>10. Cardinality(Tables(schema)) <= Len(p)
      BY <2>s, <3>1, <3>7, DocumentsAssumption DEF Tables
    <3> QED
      BY <2>s, <3>1, <3>6, <3>7, <3>9, <3>10, DeepIsRecursive
  <2>2. CASE \/ CreateIndexers \/ SkipField \/ AddColumn \/ RefuseField \/ LeaveObject
             \/ ReserveID \/ Insert \/ InsertThrows \/ InsertAborts \/ Inserted
             \/ ReadColumn
    BY <2>2 DEF CreateIndexers, SkipField, AddColumn, RefuseField, LeaveObject, InTable,
                ReserveID, Insert, InsertThrows, InsertAborts, Inserted, ReadColumn
  <2>3. CASE UNCHANGED documentsVars
    BY <2>3 DEF documentsVars, OverflowsIfRecursive
  <2> QED
    BY <2>1, <2>2, <2>3 DEF DocumentsNext
<1> QED
  BY <1>1, <1>2, WalkInit, WalkStep, PTL DEF DocumentsSpec

-----------------------------------------------------------------------------
(* Values. *)

\* level is what the recursive function of Levels is, up to n.
Levelled(id, tokens, subDoc, n, level) ==
    level = [k \in 0..n |->
               IF k = 0 THEN [ok |-> TRUE, node |-> subDoc]
               ELSE LET before == level[k - 1]
                        parent == IF k = 1 THEN RootNode(id) ELSE before.node
                        next   == TryGetDocumentValue(parent, tokens[k])
                    IN  IF before.ok /\ next.ok THEN next
                        ELSE [ok |-> FALSE, node |-> before.node]]

\* There are such levels, for names of any length.
LEMMA LevelsExist ==
  ASSUME NEW id, NEW tokens, NEW subDoc, NEW n \in Nat
  PROVE  \E f : Levelled(id, tokens, subDoc, n, f)
<1> DEFINE Level(k, before) ==
               LET parent == IF k = 1 THEN RootNode(id) ELSE before.node
                   next   == TryGetDocumentValue(parent, tokens[k])
               IN  IF before.ok /\ next.ok THEN next
                   ELSE [ok |-> FALSE, node |-> before.node]
           Upto(m, f) == f = [k \in 0..m |-> IF k = 0 THEN [ok |-> TRUE, node |-> subDoc]
                                             ELSE Level(k, f[k - 1])]
           S == {m \in Nat : \E f : Upto(m, f)}
<1> HIDE DEF Level
<1>1. 0 \in S
  <2>1. Upto(0, [k \in 0..0 |-> [ok |-> TRUE, node |-> subDoc]])
    OBVIOUS
  <2> QED
    BY <2>1
<1>2. ASSUME NEW m \in Nat, m \in S PROVE m + 1 \in S
  <2>1. PICK f : Upto(m, f)
    BY <1>2
  <2> DEFINE g == [k \in 0..(m + 1) |-> IF k = m + 1 THEN Level(m + 1, f[m]) ELSE f[k]]
  <2>2. ASSUME NEW k \in 0..(m + 1)
        PROVE  g[k] = IF k = 0 THEN [ok |-> TRUE, node |-> subDoc] ELSE Level(k, g[k - 1])
    <3>1. CASE k = m + 1
      <4>1. k # 0 /\ g[k] = Level(k, f[m]) /\ g[k - 1] = f[m]
        BY <3>1
      <4> HIDE DEF g
      <4> QED
        BY <4>1
    <3>2. CASE k # m + 1
      <4>1. k \in 0..m /\ g[k] = f[k] /\ (k # 0 => g[k - 1] = f[k - 1])
        BY <3>2
      <4>2. f[k] = IF k = 0 THEN [ok |-> TRUE, node |-> subDoc] ELSE Level(k, f[k - 1])
        BY <2>1, <4>1
      <4> HIDE DEF g
      <4> QED
        BY <4>1, <4>2
    <3> QED
      BY <3>1, <3>2
  <2>3. g = [k \in 0..(m + 1) |-> g[k]]
    OBVIOUS
  <2> HIDE DEF g
  <2>4. Upto(m + 1, g)
    BY <2>2, <2>3
  <2> QED
    BY <2>4
<1> HIDE DEF S
<1>3. n \in S
  BY <1>1, <1>2, Induction
<1>4. PICK f : Upto(n, f)
  BY <1>3 DEF S
<1> QED
  BY <1>4 DEF Levelled, Level

\* r is the sub-document of id that the first n tokens lead to, if there is one.
Reaches(r, id, tokens, n) ==
    /\ r.ok <=> \A m \in 1..n : SubSeq(tokens, 1, m) \in docs[id].present
    /\ r.ok => r.node.id = id /\ r.node.path = SubSeq(tokens, 1, n)

\* A level is there if all tables down to it are present, and is then the field of
\* the document itself.
LEMMA LevelsAre ==
  ASSUME NEW id, NEW S, NEW tokens \in Seq(S), tokens # <<>>, NEW subDoc,
         NEW n \in 1..(Len(tokens) - 1)
  PROVE  Reaches(Levels(id, tokens, subDoc)[n], id, tokens, n)
<1> DEFINE N == Len(tokens) - 1
           Is(f) == Levelled(id, tokens, subDoc, N, f)
           f == Levels(id, tokens, subDoc)
<1>1. N \in Nat /\ Len(tokens) \in Nat \ {0}
  OBVIOUS
<1>2. Is(f)
  <2>1. \E g : Is(g)
    BY <1>1, LevelsExist
  <2>2. f = CHOOSE g : Is(g)
    BY DEF Levels, Levelled
  <2> HIDE DEF Is, f
  <2> QED
    BY <2>1, <2>2
<1> HIDE DEF f
<1> DEFINE Parent(k) == IF k = 1 THEN RootNode(id) ELSE f[k - 1].node
           After(k) == TryGetDocumentValue(Parent(k), tokens[k])
           P(k) == \A m \in 1..k : SubSeq(tokens, 1, m) \in docs[id].present
           Good(k) == /\ f[k].ok <=> P(k)
                      /\ f[k].ok /\ k # 0 =>
                            f[k].node.id = id /\ f[k].node.path = SubSeq(tokens, 1, k)
<1>3. f[0].ok = TRUE
  BY <1>1, <1>2 DEF Levelled
<1>4. ASSUME NEW k \in 1..N
      PROVE  f[k] = IF f[k - 1].ok /\ After(k).ok THEN After(k)
                    ELSE [ok |-> FALSE, node |-> f[k - 1].node]
  <2>1. k \in 0..N /\ k # 0
    BY <1>1
  <2> QED
    BY <1>2, <2>1 DEF Levelled
<1> HIDE DEF N, Is
<1> DEFINE Goods == {k \in Nat : k <= N => Good(k)}
<1>5. 0 \in Goods
  BY <1>3
<1>6. ASSUME NEW j \in Nat, j \in Goods PROVE j + 1 \in Goods
  <2> SUFFICES ASSUME j + 1 <= N PROVE Good(j + 1)
    OBVIOUS
  <2>1. Good(j)
    BY <1>1, <1>6
  <2>2. j + 1 \in 1..N /\ (j + 1) - 1 = j
    BY <1>1
  <2>3. P(j + 1) <=> P(j) /\ SubSeq(tokens, 1, j + 1) \in docs[id].present
    OBVIOUS
  <2>4. ASSUME f[j].ok
        PROVE  /\ After(j + 1).ok <=> SubSeq(tokens, 1, j + 1) \in docs[id].present
               /\ After(j + 1).node.id = id
               /\ After(j + 1).node.path = SubSeq(tokens, 1, j + 1)
    <3>1. Parent(j + 1).id = id /\ Parent(j + 1).path = SubSeq(tokens, 1, j)
      <4>1. CASE j = 0
        <5>1. SubSeq(tokens, 1, 0) = <<>>
          OBVIOUS
        <5> QED
          BY <4>1, <5>1 DEF RootNode, Node
      <4>2. CASE j # 0
        BY <2>1, <2>2, <2>4, <4>2
      <4> QED
        BY <4>1, <4>2
    <3>2. Append(SubSeq(tokens, 1, j), tokens[j + 1]) = SubSeq(tokens, 1, j + 1)
      BY <1>1, <2>2 DEF N
    <3> HIDE DEF Parent
    <3> QED
      BY <3>1, <3>2 DEF TryGetDocumentValue, Node
  <2>5. f[j + 1] = IF f[j].ok /\ After(j + 1).ok THEN After(j + 1)
                   ELSE [ok |-> FALSE, node |-> f[j].node]
    BY <1>4, <2>2
  <2> HIDE DEF After, P
  <2>6. CASE f[j].ok /\ After(j + 1).ok
    <3>1. f[j + 1] = After(j + 1)
      BY <2>5, <2>6
    <3> QED
      BY <2>1, <2>3, <2>4, <2>6, <3>1
  <2>7. CASE ~(f[j].ok /\ After(j + 1).ok)
    <3>1. f[j + 1].ok = FALSE
      BY <2>5, <2>7
    <3> QED
      BY <2>1, <2>3, <2>4, <2>7, <3>1
  <2> QED
    BY <2>6, <2>7
<1> HIDE DEF Goods
<1>7. n \in Goods
  BY <1>5, <1>6, Induction
<1>8. Good(n) /\ n # 0
  BY <1>7 DEF Goods, N
<1> QED
  BY <1>8 DEF f, Reaches

\* What is read through a sub-document is the column's value, whatever the
\* sub-document was.
LEMMA GetValueIsValue ==
  ASSUME NEW id, NEW S, NEW tokens \in Seq(S), tokens # <<>>, NEW subDoc
  PROVE  GetValue(id, tokens, subDoc).value = Value(id, tokens)
<1>1. Len(tokens) \in Nat \ {0}
  OBVIOUS
<1>2. CASE Len(tokens) = 1
  BY <1>2 DEF GetValue, Value
<1>3. CASE Len(tokens) # 1
  <2>l. Len(tokens) - 1 \in Nat \ {0}
    BY <1>1, <1>3
  <2>n. PICK n \in Nat \ {0} : n = Len(tokens) - 1
    BY <2>l
  <2> DEFINE r == Levels(id, tokens, subDoc)[n]
             There == \A m \in 1..n : SubSeq(tokens, 1, m) \in docs[id].present
  <2>1. n \in 1..(Len(tokens) - 1)
    BY <2>n
  <2>2. /\ r.ok <=> There
        /\ r.ok => r.node.id = id /\ r.node.path = SubSeq(tokens, 1, n)
    <3>1. Reaches(r, id, tokens, n)
      BY <2>1, LevelsAre
    <3> HIDE DEF r
    <3> QED
      BY <3>1 DEF Reaches
  <2>3. Append(SubSeq(tokens, 1, n), Last(tokens)) = tokens
    BY <1>1, <2>n DEF Last
  <2>4. GetValue(id, tokens, subDoc).value =
           IF ~r.ok THEN Null ELSE ValueOfField(r.node.id, Append(r.node.path, Last(tokens)))
    BY <1>3, <2>n DEF GetValue, TryGetSubDocument
  <2>5. Value(id, tokens) = IF There THEN ValueOfField(id, tokens) ELSE Null
    BY <2>n DEF Value
  <2> HIDE DEF r, There
  <2> QED
    BY <2>2, <2>3, <2>4, <2>5
<1> QED
  BY <1>2, <1>3

-----------------------------------------------------------------------------
(* What is read and what is indexed. *)

\* An id is of a document that was reserved for it, and stays so.
LEMMA DocsGrow ==
  ASSUME docs \in Seq(Documents), [DocumentsNext]_documentsVars
  PROVE  /\ schema' = schema
         /\ docs' = docs \/ \E d \in Documents : docs' = Append(docs, d)
<1>1. CASE \/ CreateIndexers \/ EnterField \/ SkipField \/ AddColumn \/ RefuseField
           \/ LeaveObject \/ Insert \/ InsertThrows \/ InsertAborts \/ Inserted
           \/ ReadColumn
  BY <1>1 DEF CreateIndexers, EnterField, SkipField, AddColumn, RefuseField, LeaveObject,
              Insert, InsertThrows, InsertAborts, Inserted, ReadColumn, data
<1>2. CASE ReserveID
  BY <1>2 DEF ReserveID
<1>3. CASE UNCHANGED documentsVars
  BY <1>3 DEF documentsVars
<1> QED
  BY <1>1, <1>2, <1>3 DEF DocumentsNext

\* The values of a document do not change.
LEMMA ValuesStay ==
  ASSUME docs \in Seq(Documents), [DocumentsNext]_documentsVars
  PROVE  /\ docs' \in Seq(Documents) /\ Len(docs) \in Nat /\ Len(docs') \in Nat
         /\ Len(docs) <= Len(docs')
         /\ \A id \in 1..Len(docs) : \A p : Value(id, p)' = Value(id, p)
<1>1. schema' = schema
  BY DocsGrow
<1>2. /\ docs' \in Seq(Documents) /\ Len(docs) \in Nat /\ Len(docs') \in Nat
      /\ Len(docs) <= Len(docs')
      /\ \A id \in 1..Len(docs) : docs'[id] = docs[id]
  <2>1. CASE docs' = docs
    BY <2>1
  <2>2. ASSUME NEW d \in Documents, docs' = Append(docs, d)
        PROVE  /\ docs' \in Seq(Documents) /\ Len(docs) \in Nat /\ Len(docs') \in Nat
               /\ Len(docs) <= Len(docs')
               /\ \A id \in 1..Len(docs) : docs'[id] = docs[id]
    <3>1. Len(docs) \in Nat /\ Append(docs, d) \in Seq(Documents)
      BY LenProperties, AppendProperties
    <3>2. /\ Len(Append(docs, d)) = Len(docs) + 1
          /\ \A id \in 1..Len(docs) : Append(docs, d)[id] = docs[id]
      BY AppendProperties
    <3> QED
      BY <2>2, <3>1, <3>2
  <2> QED
    BY <2>1, <2>2, DocsGrow
<1>3. ASSUME NEW id \in 1..Len(docs), NEW p PROVE Value(id, p)' = Value(id, p)
  <2>1. Kind(p)' = Kind(p)
    BY <1>1 DEF Kind
  <2>2. docs'[id] = docs[id]
    BY <1>2
  <2> QED
    BY <2>1, <2>2 DEF Value, ValueOfField, Result, Null
<1> QED
  BY <1>2, <1>3

\* A row, a column, and its value.
ReadIsRight(r) ==
    /\ r[1] \in 1..Len(docs)
    /\ r[3] = Value(r[1], r[2])

\* Which the walk and the documents keep.
ReadInv ==
    /\ docs \in Seq(Documents)
    /\ columnRead # <<>> => ReadIsRight(columnRead)

\* What was read stays the value of its row: ids keep their documents.
LEMMA ReadStep == WalkInv /\ ReadInv /\ [DocumentsNext]_documentsVars => ReadInv'
<1> SUFFICES ASSUME WalkInv, ReadInv, [DocumentsNext]_documentsVars PROVE ReadInv'
  OBVIOUS
<1>s. IsSchema(schema) /\ schema' = schema /\ docs \in Seq(Documents)
  BY SchemaIs, DocsGrow DEF ReadInv
<1>1. (docs \in Seq(Documents))'
  BY <1>s, SchemaStays, ValuesStay
<1>2. \A r : ReadIsRight(r) => ReadIsRight(r)'
  <2> SUFFICES ASSUME NEW r, ReadIsRight(r) PROVE ReadIsRight(r)'
    OBVIOUS
  <2>1. r[1] \in 1..Len(docs) /\ r[3] = Value(r[1], r[2])
    BY DEF ReadIsRight
  <2>2. Len(docs) \in Nat /\ Len(docs') \in Nat /\ Len(docs) <= Len(docs')
    BY <1>s, ValuesStay
  <2>3. Value(r[1], r[2])' = Value(r[1], r[2])
    BY <1>s, <2>1, ValuesStay
  <2> QED
    BY <2>1, <2>2, <2>3 DEF ReadIsRight
<1>3. ASSUME NEW r, columnRead' = r, r = <<>> \/ ReadIsRight(r)' PROVE ReadInv'
  BY <1>1, <1>3 DEF ReadInv, ReadIsRight, Value, ValueOfField, Result, Null, Kind
<1>4. PICK r : columnRead' = r
  OBVIOUS
<1>5. CASE columnRead' = columnRead
  BY <1>2, <1>3, <1>4, <1>5 DEF ReadInv
<1>6. CASE ReadColumn
  <2>1. pc = "open"
    BY <1>6 DEF ReadColumn
  <2>2. PICK id \in DOMAIN docs \ failed, c \in DOMAIN columns :
           columnRead' = <<id, columns[c].tokens,
                           GetValue(id, columns[c].tokens, sub[CursorOwner]).value>>
    BY <1>6 DEF ReadColumn
  <2>3. columns \in Seq([tokens : Readable, type : ColumnTypes])
    BY <2>1 DEF WalkInv, AllListed
  <2>4. columns[c].tokens \in Readable
    BY <2>2, <2>3, ColumnsTypes, LenProperties
  <2>5. columns[c].tokens \in Seq(Names) /\ columns[c].tokens # <<>>
    BY <1>s, <2>4, ReadableAre
  <2>6. id \in 1..Len(docs)
    BY <1>s, <2>2, LenProperties
  <2>7. r[3] = Value(r[1], r[2]) /\ r[1] = id
    BY <1>4, <2>2, <2>5, GetValueIsValue
  <2> QED
    BY <1>2, <1>3, <1>4, <2>6, <2>7 DEF ReadIsRight
<1>7. columnRead' = columnRead \/ ReadColumn
  BY DEF DocumentsNext, CreateIndexers, EnterField, SkipField, AddColumn, RefuseField,
         LeaveObject, ReserveID, Insert, InsertThrows, InsertAborts, Inserted, data,
         documentsVars
<1> QED
  BY <1>5, <1>6, <1>7

LEMMA ReadInvariance == DocumentsSpec => []ReadInv
<1>1. DocumentsInit => ReadInv
  BY DEF DocumentsInit, ReadInv
<1> QED
  BY <1>1, WalkInit, WalkStep, ReadStep, PTL DEF DocumentsSpec

\* For every schema and every history of inserts and reads: a column has the value
\* of its own row and field.
THEOREM ColumnsAreOfTheirDocuments == DocumentsSpec => []ColumnIsOfTheDocument
<1>1. ReadInv => ColumnIsOfTheDocument
  BY DEF ReadInv, ReadIsRight, ColumnIsOfTheDocument
<1> QED
  BY <1>1, ReadInvariance, PTL

\* A value, whatever it is of.
Results ==
    {Result(is, id, path) : is \in {"null", "value", "empty", "default"},
                            id \in Nat, path \in Paths \cup {<<>>}}

\* The types of values.
LEMMA ValuesAreResults ==
  ASSUME NEW id \in Nat, NEW path \in Paths
  PROVE  Value(id, path) \in Results
<1> DEFINE Kinds == {"null", "value", "empty", "default"}
           Ends == Paths \cup {<<>>}
<1>1. \A is \in Kinds : \A n \in Nat : \A q \in Ends : Result(is, n, q) \in Results
  BY DEF Results
<1>2. /\ "null" \in Kinds /\ "value" \in Kinds /\ "empty" \in Kinds /\ "default" \in Kinds
      /\ path \in Ends /\ <<>> \in Ends
  OBVIOUS
<1> HIDE DEF Kinds, Ends
<1>3. /\ Null \in Results /\ Result("value", id, path) \in Results
      /\ Result("empty", id, path) \in Results /\ Result("default", 0, path) \in Results
  BY <1>1, <1>2 DEF Null
<1>4. ValueOfField(id, path) \in Results
  BY <1>3 DEF ValueOfField
<1> QED
  BY <1>3, <1>4 DEF Value

\* v is the vector of the index of path.
VectorIsOf(v, path) ==
    /\ v \in Seq(Results)
    /\ Len(v) <= Len(docs)
    /\ \A id \in 1..Len(v) : v[id] = Value(id, path)

\* Which the walk, the indexers and the documents that are inserted keep.
IndexInv ==
    /\ at \in Nat
    /\ indexers \in Seq(Paths)
    /\ DOMAIN vector \subseteq 1..Len(indexers)
    /\ pc = "types" => DOMAIN vector = {}
    /\ \A i \in DOMAIN vector : VectorIsOf(vector[i], indexers[i])

\* A vector stays that of its index while it gets no document.
LEMMA VectorsStay ==
  ASSUME docs \in Seq(Documents), [DocumentsNext]_documentsVars
  PROVE  \A v : \A path : VectorIsOf(v, path) => VectorIsOf(v, path)'
<1> SUFFICES ASSUME NEW v, NEW path, VectorIsOf(v, path) PROVE VectorIsOf(v, path)'
  OBVIOUS
<1>1. /\ v \in Seq(Results) /\ Len(v) <= Len(docs)
      /\ \A id \in 1..Len(v) : v[id] = Value(id, path)
  BY DEF VectorIsOf
<1>2. Len(docs) \in Nat /\ Len(docs') \in Nat /\ Len(docs) <= Len(docs') /\ Len(v) \in Nat
  BY <1>1, ValuesStay, LenProperties
<1>3. \A id \in 1..Len(v) : Value(id, path)' = Value(id, path)
  <2>1. \A id \in 1..Len(v) : id \in 1..Len(docs)
    BY <1>1, <1>2
  <2> QED
    BY <2>1, ValuesStay
<1>4. Results' = Results
  BY DocsGrow, SchemaStays DEF Results, Result
<1> QED
  BY <1>1, <1>2, <1>3, <1>4 DEF VectorIsOf

\* A document that is inserted is appended to the vector that it is next of.
LEMMA VectorGrows ==
  ASSUME NEW path \in Paths, NEW v, VectorIsOf(v, path), Len(docs) \in Nat,
         Len(v) = Len(docs) - 1
  PROVE  VectorIsOf(Append(v, Value(Len(docs), path)), path)
<1> DEFINE x == Value(Len(docs), path)
<1>1. x \in Results
  BY ValuesAreResults
<1>2. v \in Seq(Results) /\ Len(v) \in Nat /\ \A id \in 1..Len(v) : v[id] = Value(id, path)
  BY LenProperties DEF VectorIsOf
<1> HIDE DEF x
<1>3. /\ Append(v, x) \in Seq(Results) /\ Len(Append(v, x)) = Len(v) + 1
      /\ Append(v, x)[Len(v) + 1] = x
      /\ \A id \in 1..Len(v) : Append(v, x)[id] = v[id]
  BY <1>1, <1>2, AppendProperties
<1>4. Len(v) + 1 = Len(docs)
  OBVIOUS
<1>5. ASSUME NEW id \in 1..Len(Append(v, x)) PROVE Append(v, x)[id] = Value(id, path)
  <2>1. CASE id = Len(docs)
    BY <1>3, <1>4, <2>1 DEF x
  <2>2. CASE id # Len(docs)
    <3>1. id \in 1..Len(v)
      BY <1>2, <1>3, <1>4, <2>2
    <3> QED
      BY <1>2, <1>3, <3>1
  <2> QED
    BY <2>1, <2>2
<1> QED
  BY <1>3, <1>4, <1>5 DEF VectorIsOf, x

\* Where assertions are kept, only the vector next in line gets a document.
LEMMA IndexStep ==
  Asserts /\ WalkInv /\ ReadInv /\ IndexInv /\ [DocumentsNext]_documentsVars => IndexInv'
<1> SUFFICES ASSUME Asserts, WalkInv, ReadInv, IndexInv, [DocumentsNext]_documentsVars
             PROVE  IndexInv'
  OBVIOUS
<1>s. schema' = schema /\ docs \in Seq(Documents) /\ Paths' = Paths /\ Len(docs) \in Nat
  BY DocsGrow, SchemaStays, LenProperties DEF ReadInv
<1>v. \A v : \A path : VectorIsOf(v, path) => VectorIsOf(v, path)'
  BY <1>s, VectorsStay
\* What the vectors and the indexers become.
<1>g. ASSUME NEW vs, NEW ns, vector' = vs, indexers' = ns, at' \in Nat,
             ns \in Seq(Paths), DOMAIN vs \subseteq 1..Len(ns), pc' # "types",
             \A i \in DOMAIN vs : VectorIsOf(vs[i], ns[i])'
      PROVE  IndexInv'
  <2>1. /\ (indexers \in Seq(Paths))' /\ (at \in Nat)'
        /\ (DOMAIN vector \subseteq 1..Len(indexers))'
        /\ (pc = "types" => DOMAIN vector = {})'
    BY <1>s, <1>g
  <2>2. (\A i \in DOMAIN vector : VectorIsOf(vector[i], indexers[i]))'
    <3> SUFFICES ASSUME NEW i \in DOMAIN vs PROVE VectorIsOf(vector[i], indexers[i])'
      BY <1>g
    <3>1. VectorIsOf(vs[i], ns[i])'
      BY <1>g
    <3>2. (vector[i] \in Seq(Results))' /\ (Len(vector[i]) <= Len(docs))'
      BY ONLY <1>g, <3>1 DEF VectorIsOf
    <3>3. ASSUME NEW id \in 1..Len(vs[i]) PROVE (vector[i][id] = Value(id, indexers[i]))'
      <4>1. (vs[i][id] = Value(id, ns[i]))'
        BY ONLY <3>1, <3>3 DEF VectorIsOf
      <4> QED
        BY ONLY <1>g, <4>1 DEF Value, ValueOfField, Result, Null, Kind
    <3>4. (\A id \in 1..Len(vector[i]) : vector[i][id] = Value(id, indexers[i]))'
      BY ONLY <1>g, <3>3
    <3> QED
      BY ONLY <3>2, <3>4 DEF VectorIsOf
  <2> QED
    BY <2>1, <2>2 DEF IndexInv
<1>1. CASE UNCHANGED <<vector, indexers>> /\ at' \in Nat /\ pc' # "types"
  <2>1. PICK vs, ns : vs = vector /\ ns = indexers
    OBVIOUS
  <2>2. \A i \in DOMAIN vs : VectorIsOf(vs[i], ns[i])'
    BY <1>v, <2>1 DEF IndexInv
  <2> QED
    BY <1>1, <1>g, <2>1, <2>2 DEF IndexInv
<1>2. CASE \/ EnterField \/ SkipField \/ AddColumn \/ RefuseField \/ LeaveObject
           \/ ReserveID \/ InsertThrows \/ InsertAborts \/ Inserted \/ ReadColumn
  <2>1. UNCHANGED <<vector, indexers>> /\ at' \in Nat /\ pc' # "types"
    BY <1>2 DEF IndexInv, EnterField, SkipField, AddColumn, RefuseField, LeaveObject, InTable,
                ReserveID, InsertThrows, InsertAborts, Inserted, ReadColumn, data
  <2> QED
    BY <1>1, <2>1
<1>3. CASE CreateIndexers
  <2>1. pc = "types" /\ DOMAIN vector = {} /\ at' = at /\ pc' # "types"
    BY <1>3 DEF CreateIndexers, IndexInv
  <2>2. PICK n \in 0..MaxIndexes : \E names \in [1..n -> Paths] :
           indexers' = names /\ (vector' = vector \/ vector' = [i \in 1..n |-> <<>>])
    BY <1>3 DEF CreateIndexers
  <2>3. n \in Nat
    BY <2>2, DocumentsAssumption
  <2>n. PICK names \in [1..n -> Paths] :
           indexers' = names /\ (vector' = vector \/ vector' = [i \in 1..n |-> <<>>])
    BY <2>2
  <2>4. names \in Seq(Paths) /\ Len(names) = n
    BY <2>3
  <2>5. PICK vs : vs = vector'
    OBVIOUS
  <2>6. DOMAIN vs = {} \/ vs = [i \in 1..n |-> <<>>]
    BY <2>1, <2>n, <2>5
  <2>7. \A i \in DOMAIN vs : i \in 1..n /\ vs[i] = <<>>
    BY <2>6
  <2>8. \A path : VectorIsOf(<<>>, path)'
    <3>1. \A path : VectorIsOf(<<>>, path)
      BY <1>s DEF VectorIsOf
    <3> QED
      BY <1>v, <3>1
  <2>9. \A i \in DOMAIN vs : VectorIsOf(vs[i], names[i])'
    BY <2>7, <2>8
  <2>10. at' \in Nat /\ DOMAIN vs \subseteq 1..Len(names)
    BY <2>1, <2>4, <2>7 DEF IndexInv
  <2> QED
    BY <1>g, <2>1, <2>n, <2>4, <2>5, <2>9, <2>10
<1>4. CASE Insert
  <2>1. /\ at < Len(indexers) /\ Aligned /\ ~Overflows
        /\ vector' = [vector EXCEPT ![at + 1] = Append(@, Stored)]
        /\ indexers' = indexers /\ at' = at + 1 /\ pc' = pc /\ pc = "index"
    BY <1>4 DEF Insert
  <2>2. at \in Nat /\ indexers \in Seq(Paths) /\ Len(indexers) \in Nat
    BY LenProperties DEF IndexInv
  <2>3. PICK k \in 1..Len(indexers) : k = at + 1
    BY <2>1, <2>2
  <2>4. PICK path \in Paths : path = indexers[k]
    BY <2>2, <2>3, ElementOfSeq
  <2>5. Stored = Value(Len(docs), path)
    <3>1. path \in Seq(Names) /\ path # <<>>
      BY PathsAre
    <3>2. Column = path
      BY <2>3, <2>4 DEF Column
    <3>3. Stored = GetValue(Len(docs), path, sub[path]).value
      BY <2>1, <3>2 DEF Stored, Read
    <3> QED
      BY <3>1, <3>3, GetValueIsValue
  <2>6. PICK vs, ns : vs = vector' /\ ns = indexers
    OBVIOUS
  <2>7. DOMAIN vs = DOMAIN vector
    BY <2>1, <2>6
  <2>8. ASSUME NEW i \in DOMAIN vs PROVE VectorIsOf(vs[i], ns[i])'
    <3>1. i \in DOMAIN vector /\ VectorIsOf(vector[i], ns[i])
      BY <2>6, <2>7 DEF IndexInv
    <3>2. CASE i # k
      <4>1. vs[i] = vector[i]
        BY <2>1, <2>3, <2>6, <3>1, <3>2
      <4> QED
        BY <1>v, <3>1, <4>1
    <3>3. CASE i = k
      <4>1. vs[i] = Append(vector[i], Value(Len(docs), path))
        BY <2>1, <2>3, <2>5, <2>6, <3>1, <3>3
      <4>2. Len(vector[i]) = Len(docs) - 1 /\ ns[i] = path
        BY <2>1, <2>3, <2>4, <2>6, <3>3 DEF Aligned
      <4>3. VectorIsOf(vs[i], ns[i])
        BY <1>s, <3>1, <4>1, <4>2, VectorGrows
      <4> QED
        BY <1>v, <4>3
    <3> QED
      BY <3>2, <3>3
  <2>9. at' \in Nat /\ pc' # "types" /\ ns \in Seq(Paths) /\ DOMAIN vs \subseteq 1..Len(ns)
    BY <2>1, <2>2, <2>6, <2>7 DEF IndexInv
  <2> QED
    BY <1>g, <2>1, <2>6, <2>8, <2>9
<1>5. CASE UNCHANGED documentsVars
  <2>1. UNCHANGED <<vector, indexers, at, pc>>
    BY <1>5 DEF documentsVars
  <2>2. CASE pc # "types"
    BY <1>1, <2>1, <2>2 DEF IndexInv
  <2>3. CASE pc = "types"
    BY <1>s, <2>1, <2>3 DEF IndexInv
  <2> QED
    BY <2>2, <2>3
<1> QED
  BY <1>2, <1>3, <1>4, <1>5 DEF DocumentsNext

\* For every schema, in a build that keeps assert(): a VECTOR index holds under each
\* id what the document says, whichever inserts failed between.
THEOREM IndexesAreAsParsed == ASSUME Asserts PROVE DocumentsSpec => []IndexedAsParsed
<1>1. DocumentsInit => IndexInv
  BY DEF DocumentsInit, IndexInv
<1>2. IndexInv => IndexedAsParsed
  BY DEF IndexInv, VectorIsOf, IndexedAsParsed
<1>3. IndexInv /\ WalkInv /\ ReadInv /\ [DocumentsNext]_documentsVars => IndexInv'
  BY IndexStep
<1> QED
  BY <1>1, <1>2, <1>3, WalkInit, WalkStep, ReadInvariance, PTL DEF DocumentsSpec
=============================================================================
