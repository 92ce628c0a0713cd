------------------------ MODULE MCDocumentCollection ------------------------
(* Documents are interchangeable, and so are the inserting threads. *)
EXTENDS DocumentCollection, TLC

Symmetry == Permutations(Docs) \cup Permutations(Inserters)
=============================================================================
