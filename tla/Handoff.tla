------------------------------ MODULE Handoff ------------------------------
(***************************************************************************)
(* The handoff store of cortex-handoff: a directory of files named by      *)
(* their time stamp, and a pointer `current` to one of them.  A handoff is *)
(* recorded in two writes, each atomic by itself, with no lock around      *)
(* them; several servers may record under one root.  What a handoff says   *)
(* (tasks, notes, work order) is left out: it is its session and stamp.    *)
(***************************************************************************)
EXTENDS Naturals, FiniteSets

CONSTANTS Servers,      \* processes that record handoffs
          Roots,        \* directories that hold handoffs/
          Sessions,     \* session ids
          MaxHandoffs,  \* bound: handoffs that may be begun
          MaxTies,      \* bound: handoffs stamped with the microsecond of another's
          MaxFaults,    \* bound: recordings that die or fail half-way
          None

ASSUME HandoffAssumption ==
    /\ MaxHandoffs \in Nat /\ MaxTies \in Nat /\ MaxFaults \in Nat
    /\ None \notin Nat

VARIABLES
    handoffs,  \* per root: the files handoff-<stamp>.json
    current,   \* per root: the stamp the pointer names, or None
    writing,   \* per server: the recording under way
    clock,     \* the stamp given last
    ties, faults,
    recorded,  \* history: the handoffs whose record_handoff returned Ok
    raced      \* history: roots where two recordings have overlapped

handoffVars == <<handoffs, current, writing, clock, ties, faults, recorded, raced>>

Stamp   == 1 .. MaxHandoffs
Handoff == [stamp : Stamp, session : Sessions, by : Servers, root : Roots]
NotWriting == [step |-> "idle", handoff |-> None]
WritingAt(root) == {s \in Servers : writing[s].step # "idle" /\ writing[s].handoff.root = root}

(* Handoff::new stamps it with the time, in microseconds: later than any   *)
(* stamp so far, or that of a handoff another server makes at this moment. *)
BeginHandoff(s, root, session) ==
    /\ writing[s].step = "idle"
    /\ \/ clock < MaxHandoffs /\ clock' = clock + 1 /\ UNCHANGED ties
       \/ /\ ties < MaxTies /\ \E t \in WritingAt(root) : writing[t].handoff.stamp = clock
          /\ ties' = ties + 1 /\ UNCHANGED clock
    /\ writing' = [writing EXCEPT ![s] =
          [step |-> "file", handoff |-> [stamp |-> clock', session |-> session, by |-> s, root |-> root]]]
    /\ raced' = IF WritingAt(root) = {} THEN raced ELSE raced \cup {root}
    /\ UNCHANGED <<handoffs, current, faults, recorded>>

(* A file of the same stamp is replaced. *)
WriteHandoff(s) ==
    LET h == writing[s].handoff
    IN  /\ writing[s].step = "file"
        /\ handoffs' = [handoffs EXCEPT ![h.root] = {f \in @ : f.stamp # h.stamp} \cup {h}]
        /\ writing' = [writing EXCEPT ![s].step = "pointer"]
        /\ UNCHANGED <<current, clock, ties, faults, recorded, raced>>

(* Mutant: the pointer moves when there is none yet. *)
WritePointerOnce(s) ==
    LET h == writing[s].handoff
    IN  /\ writing[s].step = "pointer"
        /\ current' = [current EXCEPT ![h.root] = IF @ = None THEN h.stamp ELSE @]
        /\ writing' = [writing EXCEPT ![s] = NotWriting]
        /\ recorded' = recorded \cup {h}
        /\ UNCHANGED <<handoffs, clock, ties, faults, raced>>

(* The pointer is replaced by whoever comes last, not by whoever is newer. *)
WritePointer(s) ==
    LET h == writing[s].handoff
    IN  /\ writing[s].step = "pointer"
        /\ current' = [current EXCEPT ![h.root] = h.stamp]
        /\ writing' = [writing EXCEPT ![s] = NotWriting]
        /\ recorded' = recorded \cup {h}
        /\ UNCHANGED <<handoffs, clock, ties, faults, raced>>

(* The server dies, or a write fails, before the file or between the two.  *)
HandoffFails(s) ==
    /\ writing[s].step # "idle"
    /\ faults < MaxFaults
    /\ faults' = faults + 1
    /\ writing' = [writing EXCEPT ![s] = NotWriting]
    /\ UNCHANGED <<handoffs, current, clock, ties, recorded, raced>>

HandoffInit ==
    /\ handoffs = [r \in Roots |-> {}]
    /\ current = [r \in Roots |-> None]
    /\ writing = [s \in Servers |-> NotWriting]
    /\ clock = 0 /\ ties = 0 /\ faults = 0
    /\ recorded = {} /\ raced = {}

------------------------------------------------------------------------------
(* Reading, each a set of at most one handoff. *)

ReadCurrent(root) == {h \in handoffs[root] : h.stamp = current[root]}

Newest(hs) == {h \in hs : \A k \in hs : k.stamp <= h.stamp}

(* Mutant: the first one in the list. *)
OldestForSession(root, session, skipped) ==
    LET own == {h \in handoffs[root] \ skipped : h.session = session}
    IN  {h \in own : \A k \in own : k.stamp >= h.stamp}

(* list_handoffs sorts the files by name, that is by stamp, and skips with *)
(* a warning those that it cannot read or parse.                           *)
LatestForSession(root, session, skipped) ==
    Newest({h \in handoffs[root] \ skipped : h.session = session})

------------------------------------------------------------------------------
(* Properties. *)

(* handoff/lib.rs:15-17: `current` is a "pointer file holding the filename *)
(* of the latest handoff" that readers never see half-way.  It always      *)
(* names a file that is there; a newer file than that is one whose writer  *)
(* is between its two writes, or has failed there, or has been overtaken   *)
(* by a server that was recording at the same time.                        *)
CurrentIsLatest ==
    \A r \in Roots :
        /\ current[r] # None => ReadCurrent(r) # {}
        /\ (\E h \in handoffs[r] : current[r] = None \/ h.stamp > current[r]) =>
              r \in raced \/ faults > 0 \/ \E s \in WritingAt(r) : writing[s].step = "pointer"

(* handoff/lib.rs:13-14 "Append-only; never overwritten": not so for two   *)
(* handoffs of the same microsecond, which have the same name.             *)
NeverOverwritten == \A h \in recorded : h \in handoffs[h.root]

=============================================================================
