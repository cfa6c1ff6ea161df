------------------------------ MODULE AppendLog ------------------------------
(***************************************************************************)
(* What the block index of a ledger promises its readers: a log of block   *)
(* ids that only grows, one block at a time, and never repeats a block.    *)
(* Module Ledger implements it (Ledger!LogSpec).                           *)
(***************************************************************************)
EXTENDS Sequences

CONSTANT Ids

VARIABLE log

NoRepeats(s) == \A i, j \in DOMAIN s : s[i] = s[j] => i = j

Init == log \in Seq(Ids) /\ NoRepeats(log)

(* One block is added after the last; nothing else is touched. *)
Add(b) ==
    /\ \A i \in DOMAIN log : log[i] # b
    /\ log' = Append(log, b)

Next == \E b \in Ids : Add(b)

Spec == Init /\ [][Next]_log

=============================================================================
