---------------------------- MODULE DocumentStore ----------------------------
(***************************************************************************)
(* What a collection promises of the documents it keeps, in the words of   *)
(* its callers: inserted documents enter the store, a deleted one leaves   *)
(* it, and nothing else happens to them, whatever becomes of the process.  *)
(* The store is what opening the database again would show.                *)
(*                                                                         *)
(* A document that an insert has failed for may enter all the same: the    *)
(* caller has been told of an error and knows nothing.  Several documents  *)
(* enter in one step, those of a batch and those a failure left behind;    *)
(* documents leave one by one, since a DELETE stores row after row.        *)
(***************************************************************************)
EXTENDS FiniteSets

CONSTANT Docs

VARIABLES
    visible,   \* documents that opening the database would show
    promised,  \* those of them whose insert returned
    gone       \* documents that were deleted

vars == <<visible, promised, gone>>

Init == visible = {} /\ promised = {} /\ gone = {}

\* An insert stores documents, among them none that was deleted before.
Store(ds) ==
    /\ ds # {} /\ ds \cap (visible \cup gone) = {}
    /\ visible' = visible \cup ds
    /\ UNCHANGED <<promised, gone>>

\* The insert of documents that are stored returns.
Acknowledge(ds) ==
    /\ ds # {} /\ ds \subseteq visible
    /\ promised' = promised \cup ds
    /\ UNCHANGED <<visible, gone>>

Delete(d) ==
    /\ d \in visible
    /\ visible' = visible \ {d}
    /\ promised' = promised \ {d}
    /\ gone' = gone \cup {d}

Next ==
    \/ \E ds \in SUBSET Docs : Store(ds) \/ Acknowledge(ds)
    \/ \E d \in Docs : Delete(d)

Spec == Init /\ [][Next]_vars
=============================================================================
