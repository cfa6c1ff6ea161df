--------------------------- MODULE MCAuditJournal ---------------------------
(***************************************************************************)
(* AuditJournal for TLC: the deployments its runs look at.                 *)
(***************************************************************************)
EXTENDS AuditJournal

CONSTANTS h1, h2, r1, r2, a1

(* A deployment of AuditJournal. *)
Setup(handles, records, agents, maxEntries, maxFaults) ==
    [handles |-> handles, records |-> records, agents |-> agents,
     maxEntries |-> maxEntries, maxFaults |-> maxFaults]

(* A long chain with co-signatures; two records and repeated loss; two     *)
(* ledgers on one journal.                                                 *)
Cosigned == Setup({h1}, {r1}, {a1}, 4, 1)
Lossy    == Setup({h1}, {r1, r2}, {}, 3, 3)
Shared   == Setup({h1, h2}, {r1, r2}, {}, 2, 1)

AuditSetups == {Cosigned, Lossy, Shared}

=============================================================================
