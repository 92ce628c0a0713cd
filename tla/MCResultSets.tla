---------------------------- MODULE MCResultSets ----------------------------
(* More clients than pooled connections; connections are interchangeable. *)
EXTENDS ResultSets, TLC

Symmetry == Permutations(Connections) \cup Permutations(Clients)
=============================================================================
