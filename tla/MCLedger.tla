------------------------------ MODULE MCLedger ------------------------------
(***************************************************************************)
(* Ledger for TLC: the deployments its runs look at.                       *)
(***************************************************************************)
EXTENDS Ledger

CONSTANTS p1, p2, p3, l1, l2

(* A deployment of Ledger. *)
Setup(appenders, recorders, fresh, seed) ==
    [appenders |-> appenders, recorders |-> recorders, fresh |-> fresh, seed |-> seed]

Appending == Setup({p1, p2}, {}, FALSE, {})
Recording == Setup({}, {p1, p2}, FALSE, {l1, l2})
Crowding  == Setup({}, {p1, p2, p3}, FALSE, {l1})
Mixed     == Setup({p1, p2}, {p2}, FALSE, {l1})
Opening   == Setup({p1, p2}, {}, TRUE, {})

LedgerSetups == {Appending, Recording, Crowding, Mixed, Opening}

(* Both kinds of operation compete for both locks. *)
LiveSetups == {Setup({p1}, {p1, p2}, FALSE, {})}

(* One appends while another records. *)
LostUpdateSetups == {Setup({p1}, {p2}, FALSE, {l1})}

=============================================================================
