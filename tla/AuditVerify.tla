----------------------------- MODULE AuditVerify -----------------------------
(***************************************************************************)
(* The two verifiers of cortex-audit (crates/cortex-audit/src/lib.rs).     *)
(* verify_entries checks a chain entry by entry.  verify_journal streams   *)
(* it in chunks: the cheap checks in order, the agent co-signatures beside *)
(* them, the signatures of the ledger's key afterwards as one batch, and   *)
(* the failure with the lowest position is reported.  They must agree on   *)
(* every journal, whatever several entries of one chunk have wrong.        *)
(***************************************************************************)
EXTENDS Naturals, Sequences, FiniteSetsExt

CONSTANTS
    Chunk,      \* VERIFY_CHUNK
    MaxLen,     \* bound: entries in the journal
    Cosigs      \* the states of a co-signature that are considered

ASSUME VerifyAssumption ==
    /\ Chunk \in Nat \ {0} /\ MaxLen \in Nat
    /\ Cosigs \subseteq {"none", "valid", "half", "unknownKey", "wrong"}

VARIABLES
    lines,   \* the journal, as far as it has been read
    chunk,   \* entries read and not verified yet
    prev,    \* hash of the last verified entry
    head,    \* position and hash of the last verified entry, if any
    status   \* the verdict, once there is one

vars == <<lines, chunk, prev, head, status>>

(* An entry is what the checks see of it: whether its hash covers its      *)
(* content, and what state its two signatures are in.                      *)
Sigs == {"valid", "missing", "unknownKey", "undecodable", "wrong"}
Genesis == 0
Entry == [seq : Nat, prev : Nat, hash : Nat, intact : BOOLEAN, sig : Sigs, cosig : Cosigs]

(* The entries a position may hold: each has its own hash, linked to the   *)
(* one before or not.  Nothing in the verifiers checks the number, so that *)
(* of a damaged or foreign line may be that of an earlier one.             *)
EntriesAt(i) == [seq : 0 .. i - 1, prev : {i - 1, i}, hash : {i},
                 intact : BOOLEAN, sig : Sigs, cosig : Cosigs]

Status(kind, seq) == [kind |-> kind, seq |-> seq]
Clean == Status("Clean", 0)
Reading == Status("reading", 0)
NoHead == <<>>

------------------------------------------------------------------------------
(* The checks of one entry. *)

Precheck(p, e) ==
    IF e.prev # p \/ ~e.intact      THEN Status("HashBreak", e.seq)
    ELSE IF e.sig = "missing"       THEN Status("Unsigned", e.seq)
    ELSE IF e.sig = "unknownKey"    THEN Status("UntrustedKey", e.seq)
    ELSE IF e.sig = "undecodable"   THEN Status("BadSignature", e.seq)
    ELSE Clean

VerifyAgentCosig(e) ==
    IF e.cosig \in {"half", "wrong"} THEN Status("BadAgentSignature", e.seq)
    ELSE IF e.cosig = "unknownKey"   THEN Status("UntrustedAgentKey", e.seq)
    ELSE Clean

VerifyStep(p, e) ==
    IF Precheck(p, e) # Clean THEN Precheck(p, e)
    ELSE IF e.sig = "wrong" THEN Status("BadSignature", e.seq)
    ELSE VerifyAgentCosig(e)

PrevOf(es, i, p) == IF i = 1 THEN p ELSE es[i - 1].hash

(* verify_entries: the failure of the first entry that has one.            *)
VerifyEntries(es) ==
    LET bad == {i \in DOMAIN es : VerifyStep(PrevOf(es, i, Genesis), es[i]) # Clean}
    IN  IF bad = {} THEN Clean
        ELSE VerifyStep(PrevOf(es, Min(bad), Genesis), es[Min(bad)])

VerifyEntriesAt(es, expected) ==
    IF VerifyEntries(es) # Clean THEN VerifyEntries(es)
    ELSE IF es # <<>> /\ <<es[Len(es)].seq, es[Len(es)].hash>> = expected THEN Clean
    ELSE Status("HeadMismatch", expected[1])

------------------------------------------------------------------------------
(* The checks of a chunk. *)

(* The entries before the first whose precheck fails. *)
Checked(p, es) ==
    {i \in DOMAIN es : \A j \in 1 .. i : Precheck(PrevOf(es, j, p), es[j]) = Clean}

(* The three kinds of failure a chunk is searched for, each at most once:  *)
(* the entry that broke the chain, the lowest-numbered bad signature of    *)
(* the batch before it, the first bad co-signature before it.              *)
SeqFail(p, es) ==
    LET first == Cardinality(Checked(p, es)) + 1
    IN  IF first > Len(es) THEN <<>> ELSE <<Precheck(PrevOf(es, first, p), es[first])>>

MinBadSignature(p, es) ==
    LET bad == {es[i].seq : i \in {j \in Checked(p, es) : es[j].sig = "wrong"}}
    IN  IF bad = {} THEN <<>> ELSE <<Status("BadSignature", Min(bad))>>

CosigFail(p, es) ==
    LET bad == {i \in Checked(p, es) : VerifyAgentCosig(es[i]) # Clean}
    IN  IF bad = {} THEN <<>> ELSE <<VerifyAgentCosig(es[Min(bad)])>>

(* min_by_key: the first of those with the lowest number.                  *)
LowestSeq(fails) ==
    IF fails = <<>> THEN Clean
    ELSE fails[Min({i \in DOMAIN fails : \A j \in DOMAIN fails : fails[i].seq <= fails[j].seq})]

(* Mutant: the co-signature failure is put before the box one. *)
VerifyChunkCosigFirst(p, es) ==
    LowestSeq(SeqFail(p, es) \o CosigFail(p, es) \o MinBadSignature(p, es))

VerifyChunk(p, es) ==
    LowestSeq(SeqFail(p, es) \o MinBadSignature(p, es) \o CosigFail(p, es))

------------------------------------------------------------------------------
(* verify_journal. *)

(* A chunk that verifies moves prev and head to its last entry.            *)
Flush(es) ==
    IF es = <<>> \/ VerifyChunk(prev, es) # Clean
    THEN UNCHANGED <<prev, head>>
    ELSE /\ prev' = es[Len(es)].hash
         /\ head' = <<es[Len(es)].seq, es[Len(es)].hash>>

Full(es) == Len(es) >= Chunk

(* The next line may hold any entry; a failure ends the reading, and what  *)
(* the journal holds behind it changes the answer of neither verifier.     *)
ReadLine ==
    \E e \in EntriesAt(Len(lines) + 1) :
        LET es == Append(chunk, e)
        IN  /\ status = Reading /\ Len(lines) < MaxLen
            /\ lines' = Append(lines, e)
            /\ IF ~Full(es)
               THEN chunk' = es /\ UNCHANGED <<prev, head, status>>
               ELSE /\ chunk' = <<>>
                    /\ Flush(es)
                    /\ status' = IF VerifyChunk(prev, es) = Clean THEN Reading
                                                                  ELSE VerifyChunk(prev, es)

EndOfFile ==
    /\ status = Reading
    /\ Flush(chunk)
    /\ status' = VerifyChunk(prev, chunk)
    /\ chunk' = <<>>
    /\ UNCHANGED lines

(* verify_at's answer for a durable ledger. *)
VerifyJournalAt(expected) ==
    IF status # Clean THEN status
    ELSE IF head = expected THEN Clean
    ELSE Status("HeadMismatch", expected[1])

Init ==
    /\ lines = <<>> /\ chunk = <<>>
    /\ prev = Genesis /\ head = NoHead
    /\ status = Reading

Next == ReadLine \/ EndOfFile

Spec == Init /\ [][Next]_vars

------------------------------------------------------------------------------
(* Properties. *)

(* Type invariant; no chunk reaches VERIFY_CHUNK unflushed. *)
TypeOK ==
    /\ lines \in Seq(Entry) /\ chunk \in Seq(Entry) /\ Len(chunk) < Chunk
    /\ prev \in Nat
    /\ head \in {NoHead} \cup (Nat \X Nat)
    /\ status \in [kind : {"reading", "Clean", "HashBreak", "Unsigned", "UntrustedKey",
                           "BadSignature", "BadAgentSignature", "UntrustedAgentKey"}, seq : Nat]

(* Each entry is numbered by its position. *)
InPlace == \A i \in DOMAIN lines : lines[i].seq = i - 1

(* lib.rs:332-333: "the lowest-seq failure (identical to a sequential      *)
(* verify_step pass)": the durable verifier reports what the resident one  *)
(* would, kind and position, however the journal is cut into chunks.  Not  *)
(* so when an entry has a number that is not its position.                 *)
FailuresAgree == InPlace /\ status # Reading => status = VerifyEntries(lines)

(* Whatever the entries are numbered, neither verifier accepts a journal   *)
(* that the other refuses (lib.rs:342-345: "both paths MUST run it or      *)
(* on-disk recovery would accept a forged co-signature").                  *)
AcceptTheSame == status # Reading => ((status = Clean) <=> (VerifyEntries(lines) = Clean))

(* verify_at and verify_entries_at agree on every pin (lib.rs:468-487,     *)
(* 804-820), so the head that the stream carries from chunk to chunk is    *)
(* the last entry.                                                         *)
HeadsAgree ==
    InPlace /\ status # Reading => \A i \in 0 .. MaxLen :
        VerifyJournalAt(<<i, i + 1>>) = VerifyEntriesAt(lines, <<i, i + 1>>)

(* The two verifiers agree: on the failure, on what is accepted, on pins.  *)
VerifiersAgree == FailuresAgree /\ AcceptTheSame /\ HeadsAgree

=============================================================================
