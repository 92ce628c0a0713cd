---------------------------- MODULE MCDocuments ----------------------------
(* Documents with four schemas: nested tables and a struct beside a blob; a *)
(* table that two fields share; a table within itself; a type that is not   *)
(* supported, one level down.                                               *)
EXTENDS Documents

Scalar(name, type) == [name |-> name, type |-> type, elem |-> "None", object |-> NoObject]
Vector(name, elem) == [name |-> name, type |-> "Vector", elem |-> elem, object |-> NoObject]
Obj(name, object)  == [name |-> name, type |-> "Obj", elem |-> "None", object |-> object]

Nested ==
    [fields |-> [root |-> <<Obj("a", "T"), Scalar("b", "Union"), Vector("c", "UByte")>>,
                 T |-> <<Obj("a", "S"), Vector("b", "Int"), Scalar("c", "String")>>,
                 S |-> <<Scalar("a", "Double"), Scalar("b", "UInt")>>],
     structs |-> {"S"}]

Shared ==
    [fields |-> [root |-> <<Obj("a", "T"), Scalar("b", "Int"), Obj("c", "T")>>,
                 T |-> <<Scalar("a", "Short")>>],
     structs |-> {}]

List ==
    [fields |-> [root |-> <<Scalar("a", "Int"), Obj("b", "T")>>,
                 T |-> <<Scalar("a", "Int"), Obj("b", "root")>>],
     structs |-> {}]

Unsupported ==
    [fields |-> [root |-> <<Obj("a", "T")>>,
                 T |-> <<Scalar("a", "Int"), Scalar("b", "ULong")>>],
     structs |-> {}]

MCSchemas == {Nested, Shared, List, Unsupported}
=============================================================================
