---------------------------- MODULE MCApiHandles ----------------------------
(* Three variables of each class, and contents to tell copies apart.          *)
EXTENDS ApiHandles, TLC

CONSTANTS v1, v2, v3

Symmetric == Permutations({v1, v2, v3})
=============================================================================
