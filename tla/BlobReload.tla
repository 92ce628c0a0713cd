----------------------------- MODULE BlobReload -----------------------------
(***************************************************************************)
(* What opening the database reads out of the data files of BlobManager:   *)
(* GetExistingCollections lists them by file key, BlobIterator walks each  *)
(* from one header to the next.  BlobManager is shown to implement BlobLog *)
(* with this reading as the log.                                           *)
(***************************************************************************)
EXTENDS BlobManager, SequencesExt

\* Bytes no blob was written to, where the iterator expects a header.
Garbage == [key |-> -1]

\* GetNextBatch over file k, from offset p until the position reaches n.
Walk(k, p, n) ==
    LET from[q \in 0..MaxDataFileSize] ==
            LET here == {e \in data[k] : e.off = q}
            IN  IF q >= n THEN <<>>
                ELSE IF here = {} THEN <<Garbage>>
                ELSE LET e == CHOOSE x \in here : TRUE
                     IN  <<[key |-> k, off |-> q, blob |-> e.blob]>> \o from[End(e)]
    IN  from[p]

\* Files in the order of their keys; a length of -1 ends the walk at once.
Reload == FlattenSeq([i \in 1..(MaxFileKey + 1) |-> Walk(i - 1, 0, Committed(i - 1))])

\* Written behind the committed length of the current file.
Uncommitted == IF pc = "down" \/ opening THEN <<>> ELSE Walk(cur, Committed(cur), wo)

-----------------------------------------------------------------------------
\* The blobs acknowledged come back from a reload, which gives none twice, in
\* the order in which they were acknowledged, across file switches, failures,
\* crashes and reopenings: document ids are positions in that order.
ReloadKeepsOrder ==
    LET reload == Reload
    IN  /\ IsInjective(reload)
        /\ \E place \in [DOMAIN acked -> DOMAIN reload] :
              /\ \A i \in DOMAIN acked : reload[place[i]] = acked[i]
              /\ \A i, j \in DOMAIN acked : i < j => place[i] < place[j]

\* BlobManager implements the append-only log.
Log == INSTANCE BlobLog WITH log <- Reload, tail <- Uncommitted,
                             acked <- acked, Item <- Metadata
ImplementsBlobLog == Log!Spec
=============================================================================
