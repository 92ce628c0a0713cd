------------------------------- MODULE Schemas -------------------------------
(***************************************************************************)
(* A flatbuffers schema as the collection sees it, through reflection: the *)
(* objects (tables and structs), their fields, the type JonoonDB gives a   *)
(* field, and the field that a dotted name leads to.  A name is the        *)
(* sequence of its tokens.                                                 *)
(*                                                                         *)
(* A schema is a record: fields, a sequence of fields for each object, and *)
(* structs, the objects that are structs.  flatbuffers' reflection is      *)
(* external.                                                               *)
(***************************************************************************)
EXTENDS Integers, Sequences, FiniteSets, SequencesExt

Root     == "root"      \* root_table()
NoObject == "none"
NoField  == [name |-> "", type |-> "None", elem |-> "None", object |-> NoObject]

\* What flatc guarantees: there is a root table, the names of the fields of an
\* object differ, and a field of type Obj, no other, has an object.
IsSchema(schema) ==
    /\ IsFiniteSet(DOMAIN schema.fields)
    /\ Root \in DOMAIN schema.fields /\ NoObject \notin DOMAIN schema.fields
    /\ \A o \in DOMAIN schema.fields :
          /\ schema.fields[o] \in Seq([name : STRING \ {""}, type : STRING,
                                      elem : STRING, object : STRING])
          /\ \A i, j \in DOMAIN schema.fields[o] :
                schema.fields[o][i].name = schema.fields[o][j].name => i = j
          /\ \A i \in DOMAIN schema.fields[o] :
                LET f == schema.fields[o][i]
                IN  IF f.type = "Obj" THEN f.object \in DOMAIN schema.fields
                                      ELSE f.object = NoObject

\* Fields of an object that has the name, none or one.
LookupByKey(schema, object, name) ==
    IF object = NoObject THEN NoField
    ELSE LET found == {f \in ToSet(schema.fields[object]) : f.name = name}
         IN  IF found = {} THEN NoField ELSE CHOOSE f \in found : TRUE

-----------------------------------------------------------------------------
(* Types. *)

Bytes == {"Byte", "UByte"}

\* FlatbuffersDocumentSchema::MapFlatbuffersToJonoonDBType
MapFlatbuffersToJonoonDBType(type) ==
    CASE type \in {"None", "UType", "Bool", "Short", "UShort", "Int"} \cup Bytes -> "INT32"
      [] type \in {"UInt", "Long"} -> "INT64"
      [] type = "Float"  -> "FLOAT"
      [] type = "Double" -> "DOUBLE"
      [] type = "String" -> "STRING"
      [] type = "Vector" -> "VECTOR"
      [] type = "Obj"    -> "COMPLEX"
      [] type = "Union"  -> "UNION"
      [] OTHER           -> "throws"      \* ULong, and what it does not know

\* FlatbuffersField::GetType
GetType(field) ==
    IF field.type = "Vector" /\ field.elem \in Bytes THEN "BLOB"
    ELSE MapFlatbuffersToJonoonDBType(field.type)

\* The types that GetSQLiteTypeString has a type of SQLite for.
ColumnTypes == {"INT32", "INT64", "FLOAT", "DOUBLE", "STRING", "BLOB"}

-----------------------------------------------------------------------------
(* Dotted names. *)

\* The objects that the tokens of a name lead to, if each is a table or a struct.
Objects(schema, tokens) ==
    LET objects[n \in 0..Len(tokens)] ==
            IF n = 0 THEN Root
            ELSE LookupByKey(schema, objects[n - 1], tokens[n]).object
    IN  objects

ObjectAt(schema, tokens) == Objects(schema, tokens)[Len(tokens)]

\* FlatbuffersDocumentSchema::GetFieldType
GetFieldType(schema, tokens) ==
    LET field == LookupByKey(schema, ObjectAt(schema, Front(tokens)), Last(tokens))
    IN  IF field = NoField THEN "throws" ELSE GetType(field)

\* A table that is a part of itself, over one field or many.
Recursive(schema) ==
    LET names == {f.name : f \in UNION {ToSet(schema.fields[o]) : o \in DOMAIN schema.fields}}
        n == Cardinality(DOMAIN schema.fields)
    IN  \E path \in [1..n -> names] : ObjectAt(schema, path) # NoObject
=============================================================================
