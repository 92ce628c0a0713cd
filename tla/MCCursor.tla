------------------------------ MODULE MCCursor ------------------------------
(* Two columns, one of them with a VECTOR index. *)
EXTENDS Cursor

CONSTANTS a, b
=============================================================================
