---------------------------- MODULE MCDatabases ----------------------------
(* Two databases under different paths, of one name or of two. *)
EXTENDS Databases, TLC

CONSTANTS d1, d2, n1, n2

OneName == d1 :> "name" @@ d2 :> "name"
TwoNames == d1 :> "name1" @@ d2 :> "name2"
TwoConnStrs == d1 :> "path1_name" @@ d2 :> "path2_name"
=============================================================================
