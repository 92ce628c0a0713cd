--------------------------- MODULE MCBlobIterator ---------------------------
(* BlobIterator with the constants of the TLC runs. *)
EXTENDS BlobIterator

MCSizes == {1, 3, 4}
=============================================================================
