------------------------------ MODULE BlobLog ------------------------------
(***************************************************************************)
(* What BlobManager promises its collection, files forgotten: one append-  *)
(* only log.  log is what a reload of the database would deliver, in       *)
(* order; tail is what has been written behind it and not committed.  An   *)
(* operation that fails may leave its blobs in the tail, and the next one  *)
(* that succeeds commits them with its own: the promise is about what was  *)
(* acknowledged, not that nothing else is stored.                          *)
(***************************************************************************)
EXTENDS Sequences, Naturals

CONSTANT Item
VARIABLES log, tail, acked

logVars == <<log, tail, acked>>

Init == log = <<>> /\ tail = <<>> /\ acked = <<>>

Write ==
    /\ \E m \in Item : tail' = Append(tail, m)
    /\ UNCHANGED <<log, acked>>

\* A rollback drops the end of the tail, the end of the process all of it.
Drop ==
    /\ \E n \in 0..Len(tail) : tail' = SubSeq(tail, 1, n)
    /\ UNCHANGED <<log, acked>>

\* A committed length makes the whole tail permanent, behind what is there.
Commit ==
    /\ log' = log \o tail
    /\ tail' = <<>>

\* An operation that does not return commits what a file switch makes it.
CommitQuietly == Commit /\ UNCHANGED acked

\* One that returns has its blobs, in order, at the end of the log.
Acknowledge ==
    /\ Commit
    /\ \E n \in 1..Len(log') :
          acked' = acked \o SubSeq(log', Len(log') - n + 1, Len(log'))

Next == Write \/ Drop \/ CommitQuietly \/ Acknowledge

Spec == Init /\ [][Next]_logVars
=============================================================================
