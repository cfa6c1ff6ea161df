----------------------------- MODULE MCRetrieval -----------------------------
(* Model-checking instances of Retrieval.                                  *)
EXTENDS Retrieval, TLC

CONSTANT p1

(* One process appends to a ledger that exists. *)
RetrievalSetups == {[appenders |-> {p1}, recorders |-> {}, fresh |-> FALSE, seed |-> {}]}

(* No block exists initially, so ids and learnings are interchangeable;    *)
(* so are the dreamers.                                                    *)
RetrievalSymmetry ==
    Permutations(BlockIds) \cup Permutations(Learnings) \cup Permutations(Dreamers)

=============================================================================
