--------------------------- MODULE MCBlobManager ---------------------------
(***************************************************************************)
(* Small instances of BlobManager: a small blob, a large one whose         *)
(* estimate fills a whole file, so that every second write needs another,  *)
(* and where it is asked for a huge one that GetCompressedSize refuses.    *)
(***************************************************************************)
EXTENDS BlobReload

CONSTANT small

MCSize     == [b \in Blobs |-> IF b = small THEN 1 ELSE 2]
MCEstimate == [b \in Blobs |-> IF b = small THEN 1 ELSE 3]
=============================================================================
