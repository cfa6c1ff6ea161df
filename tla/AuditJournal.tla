---------------------------- MODULE AuditJournal ----------------------------
(***************************************************************************)
(* The durable ledger of cortex-audit (crates/cortex-audit/src/lib.rs): a  *)
(* JSONL journal of signed, hash-chained entries that AuditLedger::recover *)
(* loads and verifies, and that append and append_co_signed extend.  An    *)
(* entry is written in two calls, the line and its newline, and nothing is *)
(* synced: the model lets either call fail or be cut short, the process    *)
(* crash between them, and a crash of the machine lose the journal's tail. *)
(*                                                                         *)
(* Signatures of the ledger's own key are always valid here; what verify   *)
(* does with bad ones is the subject of module AuditVerify.                *)
(***************************************************************************)
EXTENDS Naturals, Sequences, SequencesExt

CONSTANTS
    Handles,     \* AuditLedger values that may have the journal open
    Records,     \* actions that are recorded
    Agents,      \* keys of agents that co-sign
    NoAgent,     \* an entry without a co-signature
    NoHead,      \* no checkpoint pinned yet
    ResidentCap, \* the resident window's cap
    Setups       \* deployments: who opens the journal and what is recorded,
                 \* with their bounds on entries and faults

ASSUME AuditAssumption ==
    /\ NoAgent \notin Agents
    /\ ResidentCap \in Nat \ {0}
    /\ \A s \in Setups :
          /\ s.handles \subseteq Handles /\ s.records \subseteq Records
          /\ s.agents \subseteq Agents
          /\ s.maxEntries \in Nat /\ s.maxFaults \in Nat

VARIABLES
    setup,    \* the deployment, which never changes
    journal,  \* the file: its lines, each the pieces written to it
    handle,   \* each AuditLedger: its step, window, total and trusted keys
    acked,    \* history: the entries whose append returned Ok, until lost
    pin,      \* the head a consumer recorded out of band, and what it covers
    faults    \* history: faults so far

vars == <<setup, journal, handle, acked, pin, faults>>

(* Bounds: entries a ledger holds; crashes and failed or lost writes.      *)
MaxEntries == setup.maxEntries
MaxFaults  == setup.maxFaults

(* One ledger uses the journal; nothing in the code sees to that. *)
Alone == \E h \in Handles : setup.handles = {h}

------------------------------------------------------------------------------
(* Data. *)

(* A collision-free hash of an entry is the list of what it covers, back   *)
(* to the first entry: each position and record.                           *)
Hash == Seq(Nat \X Records)
Genesis == <<>>
EntryHash(seq, prev, record) == Append(prev, <<seq, record>>)

Entry == [seq : Nat, prev : Hash, hash : Hash, record : Records,
          agent : Agents \cup {NoAgent}]

(* What one write leaves in a line: an entry, or the first part of one.    *)
Piece == [entry : Entry, whole : BOOLEAN]
Whole(e) == [entry |-> e, whole |-> TRUE]
Torn(e) == [entry |-> e, whole |-> FALSE]

(* The last line is the one the next write goes to. *)
EmptyJournal == <<<<>>>>

Write(j, piece) == [j EXCEPT ![Len(j)] = Append(@, piece)]
Newline(j) == Append(j, <<>>)

(* The elements of s at the positions I, in their order. *)
Kept(s, I) ==
    [k \in 1 .. Cardinality(I) |->
        s[CHOOSE i \in I : Cardinality({m \in I : m <= i}) = k]]

(* Blank lines are skipped; any other must hold exactly one entry.         *)
Parses(line) == Len(line) = 1 /\ line[1].whole
NotBlank(line) == line # <<>>
Readable(j) == \A i \in DOMAIN j : NotBlank(j[i]) => Parses(j[i])
EntriesOf(j) ==
    LET lines == Kept(j, {i \in DOMAIN j : NotBlank(j[i])})
    IN  [k \in DOMAIN lines |-> lines[k][1].entry]

LastHash(es) == IF es = <<>> THEN Genesis ELSE es[Len(es)].hash

(* Mutant: continuity with the previous entry is not checked. *)
CleanUnchained(es, trusted) ==
    \A i \in DOMAIN es :
        /\ es[i].hash = EntryHash(es[i].seq, es[i].prev, es[i].record)
        /\ es[i].agent \in trusted \cup {NoAgent}

(* verify_entries: chained, hashed and co-signed by trusted agents only.   *)
Clean(es, trusted) ==
    \A i \in DOMAIN es :
        /\ es[i].prev = LastHash(SubSeq(es, 1, i - 1))
        /\ es[i].hash = EntryHash(es[i].seq, es[i].prev, es[i].record)
        /\ es[i].agent \in trusted \cup {NoAgent}

VerifiesClean(j, trusted) == Readable(j) /\ Clean(EntriesOf(j), trusted)

(* Mutant: the head is compared by its position only. *)
VerifiesCleanAtSeq(j, trusted, seq, hash) ==
    LET es == EntriesOf(j) IN VerifiesClean(j, trusted) /\ es # <<>> /\ Last(es).seq = seq

(* verify_at: clean, and ending at the expected head. *)
VerifiesCleanAt(j, trusted, seq, hash) ==
    LET es == EntriesOf(j)
    IN  VerifiesClean(j, trusted) /\ es # <<>> /\ Last(es).seq = seq /\ Last(es).hash = hash

Suffix(es, n) == SubSeq(es, Len(es) - n + 1, Len(es))

(* Handle: entry is the one being committed. *)
Handle == [step : {"closed", "open", "writeLine", "writeNewline"},
           window : Seq(Entry), total : Nat, trusted : SUBSET Agents,
           entry : Seq(Entry)]
AuditLedger(step, window, total, trusted, entry) ==
    [step |-> step, window |-> window, total |-> total, trusted |-> trusted, entry |-> entry]
Closed == AuditLedger("closed", <<>>, 0, {}, <<>>)

------------------------------------------------------------------------------
(* Operations. *)

(* Mutant: everything that was verified is counted from the window.        *)
RecoverCountsWindow(h, keys) ==
    LET es == EntriesOf(journal)
        kept == IF Len(es) > 2 * ResidentCap THEN Suffix(es, ResidentCap) ELSE es
    IN  /\ handle[h].step = "closed"
        /\ VerifiesClean(journal, keys)
        /\ handle' = [handle EXCEPT ![h] = AuditLedger("open", kept, Len(kept), keys, <<>>)]
        /\ UNCHANGED <<setup, journal, acked, pin, faults>>

(* recover_with_cap_trusting: verify every line, keep the last ones.  A    *)
(* journal that is not clean is refused, and the ledger stays closed.      *)
Recover(h, keys) ==
    LET es == EntriesOf(journal)
        kept == IF Len(es) > 2 * ResidentCap THEN Suffix(es, ResidentCap) ELSE es
    IN  /\ handle[h].step = "closed"
        /\ VerifiesClean(journal, keys)
        /\ handle' = [handle EXCEPT ![h] = AuditLedger("open", kept, Len(es), keys, <<>>)]
        /\ UNCHANGED <<setup, journal, acked, pin, faults>>

(* next_hash, and for append_co_signed the agent's key, trusted at once.   *)
BeginAppend(h, record, agent) ==
    LET x == handle[h]
        prev == LastHash(x.window)
        e == [seq |-> x.total, prev |-> prev, record |-> record, agent |-> agent,
              hash |-> EntryHash(x.total, prev, record)]
    IN  /\ x.step = "open" /\ x.total < MaxEntries
        /\ handle' = [handle EXCEPT ![h] = AuditLedger("writeLine", x.window, x.total,
                                               x.trusted \cup ({agent} \cap Agents), <<e>>)]
        /\ UNCHANGED <<setup, journal, acked, pin, faults>>

(* commit: write_all of the line, then write_all of the newline.           *)
WriteLine(h) ==
    /\ handle[h].step = "writeLine"
    /\ journal' = Write(journal, Whole(handle[h].entry[1]))
    /\ handle' = [handle EXCEPT ![h].step = "writeNewline"]
    /\ UNCHANGED <<setup, acked, pin, faults>>

(* Mutant: the newest entries are evicted in place of the oldest.          *)
WriteNewlineOverEvicts(h) ==
    LET x == handle[h]
        grown == Append(x.window, x.entry[1])
        kept == IF Len(grown) > 2 * ResidentCap THEN SubSeq(grown, 1, ResidentCap) ELSE grown
    IN  /\ x.step = "writeNewline"
        /\ journal' = Newline(journal)
        /\ handle' = [handle EXCEPT ![h] = AuditLedger("open", kept, x.total + 1, x.trusted, <<>>)]
        /\ acked' = acked \cup {x.entry[1]}
        /\ UNCHANGED <<setup, pin, faults>>

(* The entry is pushed, and the oldest ResidentCap ones are evicted.       *)
WriteNewline(h) ==
    LET x == handle[h]
        grown == Append(x.window, x.entry[1])
        kept == IF Len(grown) > 2 * ResidentCap THEN Suffix(grown, Len(grown) - ResidentCap)
                                                ELSE grown
    IN  /\ x.step = "writeNewline"
        /\ journal' = Newline(journal)
        /\ handle' = [handle EXCEPT ![h] = AuditLedger("open", kept, x.total + 1, x.trusted, <<>>)]
        /\ acked' = acked \cup {x.entry[1]}
        /\ UNCHANGED <<setup, pin, faults>>

(* read_range: from the window when it reaches back far enough, else from  *)
(* the journal, verified as it is paged.  <<>> inside <<>> is an error.    *)
ReadRange(h, start, limit) ==
    LET total == handle[h].total
        window == handle[h].window
        end == IF start + limit < total THEN start + limit ELSE total
        from == total - Len(window)
        es == EntriesOf(journal)
        paged == Kept(es, {i \in DOMAIN es : es[i].seq < end})
    IN  IF limit = 0 \/ start >= total THEN <<>>
        ELSE IF start >= from THEN SubSeq(window, start - from + 1, end - from)
        ELSE IF Readable(journal) /\ Clean(paged, handle[h].trusted)
        THEN Kept(paged, {i \in DOMAIN paged : paged[i].seq >= start})
        ELSE <<<<>>>>

(* The ledger is dropped. *)
Close(h) ==
    /\ handle[h].step = "open"
    /\ handle' = [handle EXCEPT ![h] = Closed]
    /\ UNCHANGED <<setup, journal, acked, pin, faults>>

(* The consumer records head() where the journal's writer cannot reach it; *)
(* one that has a checkpoint moves it only along the chain it is on, which *)
(* verify_at told it when it opened the ledger.                            *)
OnJournal(j, e) == \E i \in DOMAIN j : j[i] = <<Whole(e)>>
PinHead(h) ==
    LET head == Last(handle[h].window)
    IN  /\ handle[h].step = "open" /\ handle[h].total > 0
        /\ IF pin = NoHead THEN TRUE ELSE IsPrefix(pin.hash, head.hash)
        /\ pin' = [seq |-> head.seq, hash |-> head.hash,
                   covers |-> {e \in acked : OnJournal(journal, e)}
                                \cup (IF pin = NoHead THEN {} ELSE pin.covers)]
        /\ pin' # pin
        /\ UNCHANGED <<setup, journal, handle, acked, faults>>

------------------------------------------------------------------------------
(* Faults. *)

Fault == faults < MaxFaults /\ faults' = faults + 1

(* A write fails: nothing, or a part, of what it had to write is there.    *)
WriteFails(h) ==
    /\ Fault
    /\ \/ /\ handle[h].step = "writeLine"
          /\ journal' \in {journal, Write(journal, Torn(handle[h].entry[1]))}
       \/ /\ handle[h].step = "writeNewline"
          /\ UNCHANGED journal
    /\ handle' = [handle EXCEPT ![h] = AuditLedger("open", handle[h].window, handle[h].total,
                                                   handle[h].trusted, <<>>)]
    /\ UNCHANGED <<setup, acked, pin>>

(* The process stops, perhaps in the middle of the line. *)
Crash(h) ==
    /\ Fault
    /\ handle[h].step # "closed"
    /\ journal' \in {journal} \cup (IF handle[h].step = "writeLine"
                                    THEN {Write(journal, Torn(handle[h].entry[1]))} ELSE {})
    /\ handle' = [handle EXCEPT ![h] = Closed]
    /\ UNCHANGED <<setup, acked, pin>>

(* The machine stops and the unsynced tail of the journal is gone: what is *)
(* left ends in a whole line, in a line without its newline or inside one. *)
LoseTail ==
    /\ Fault
    /\ \E n \in DOMAIN journal :
          LET kept == SubSeq(journal, 1, n - 1)
          IN  /\ journal' \in {Append(kept, <<>>)} \cup
                    (IF journal[n] = <<>> THEN {}
                     ELSE {Append(kept, <<journal[n][1]>>),
                           Append(kept, <<Torn(journal[n][1].entry)>>)})
              /\ journal' # journal
    /\ handle' = [h \in Handles |-> Closed]
    /\ acked' = {e \in acked : OnJournal(journal', e)}
    /\ UNCHANGED <<setup, pin>>

------------------------------------------------------------------------------

Init ==
    /\ setup \in Setups
    /\ journal = EmptyJournal
    /\ handle = [h \in Handles |-> Closed]
    /\ acked = {}
    /\ pin = NoHead
    /\ faults = 0

Next ==
    \/ \E h \in setup.handles :
          \/ \E keys \in SUBSET setup.agents : Recover(h, keys)
          \/ \E r \in setup.records, a \in setup.agents \cup {NoAgent} : BeginAppend(h, r, a)
          \/ WriteLine(h) \/ WriteNewline(h) \/ Close(h) \/ PinHead(h)
          \/ WriteFails(h) \/ Crash(h)
    \/ LoseTail

Spec == Init /\ [][Next]_vars

------------------------------------------------------------------------------
(* Properties. *)

(* The journal is made of lines, and handles, history and pin keep their   *)
(* types.                                                                  *)
TypeOK ==
    /\ setup \in Setups
    /\ journal \in Seq(Seq(Piece)) /\ journal # <<>>
    /\ handle \in [Handles -> Handle]
    /\ acked \subseteq Entry
    /\ pin \in {NoHead} \cup [seq : Nat, hash : Hash, covers : SUBSET Entry]
    /\ faults \in Nat

(* The resident window is the tail of the chain, numbered up to total and  *)
(* linked, never empty when the chain is not, and bounded: head, append    *)
(* and the fast path of read_range need nothing else.                      *)
WindowIsTail ==
    \A h \in Handles : handle[h].step # "closed" =>
        LET window == handle[h].window
        IN  /\ Len(window) <= 2 * ResidentCap
            /\ handle[h].total > 0 => window # <<>>
            /\ \A i \in DOMAIN window :
                  /\ window[i].seq + 1 = handle[h].total - Len(window) + i
                  /\ i > 1 => window[i].prev = window[i - 1].hash

(* With one ledger on the journal no crash, failed write or lost tail ever *)
(* makes it verify as tampered: it is either unreadable or one clean chain.*)
ReadableIsClean == Alone /\ Readable(journal) => Clean(EntriesOf(journal), Agents)

(* With one ledger, read_range returns exactly the entries of the journal  *)
(* at the positions asked for, be they from the window or from disk.       *)
PagesAreExact ==
    Alone => \A h \in Handles : handle[h].step # "closed" /\ Readable(journal) =>
        \A start \in 0 .. MaxEntries, limit \in 0 .. MaxEntries :
            LET end == IF start + limit < handle[h].total THEN start + limit
                                                          ELSE handle[h].total
            IN  ReadRange(h, start, limit) = SubSeq(EntriesOf(journal), start + 1, end)

(* lib.rs:22-33: verify_at fails when the chain does not end at the pinned *)
(* head, so when it is clean nothing is lost that was on the chain at this *)
(* pin or at one before it, however often the tail was lost and the chain  *)
(* continued, perhaps to the same length, since.  (With one ledger.)       *)
PinCatchesLoss ==
    Alone /\ pin # NoHead /\ VerifiesCleanAt(journal, Agents, pin.seq, pin.hash) =>
        LET es == EntriesOf(journal)
        IN  \A e \in pin.covers : \E i \in DOMAIN es :
                es[i].seq = e.seq /\ es[i].record = e.record /\ es[i].hash = e.hash

(* Also with two ledgers on one journal, which nothing prevents: a journal *)
(* that verifies clean holds one entry for each position, in order.        *)
CleanIsOneChain ==
    VerifiesClean(journal, Agents) =>
        LET es == EntriesOf(journal) IN \A i \in DOMAIN es : es[i].seq + 1 = i

(* lib.rs:685-688: "written to disk first ... and only on a successful     *)
(* write is it added to the in-memory chain - so a crash never leaves an   *)
(* in-memory entry the journal is missing": an entry in memory is a line   *)
(* of the journal that can be read back.                                   *)
MemoryIsOnDisk ==
    \A h \in Handles : \A k \in DOMAIN handle[h].window :
        OnJournal(journal, handle[h].window[k])

=============================================================================
