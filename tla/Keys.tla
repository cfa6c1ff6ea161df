-------------------------------- MODULE Keys --------------------------------
(***************************************************************************)
(* The keys beside a ledger (KeyManager of cortex-core): identity.json,    *)
(* .private_key and trusted_keys.json.  A key pair is generated in two     *)
(* writes, of which the second is not atomic; a signature is made and      *)
(* checked by reading the files one after the other; nothing is locked.    *)
(* A key pair is a value, and its own key id: ids do not collide.          *)
(***************************************************************************)
EXTENDS Naturals, Sequences

CONSTANTS Procs,      \* processes that use the ledger
          KeyPairs,
          NewKeys,    \* those that are generated here, or that someone here trusts
          MaxFaults,  \* bound: processes that die, or fail, half-way
          NoFile,     \* the file is not there
          Torn,       \* the file is empty or cut off: it was being written
          None

(* A file that is not there, or torn, is not taken for one with keys. *)
ASSUME KeysAssumption ==
    /\ MaxFaults \in Nat /\ NewKeys \subseteq KeyPairs
    /\ NoFile # Torn
    /\ \A lost \in {NoFile, Torn} : lost \notin KeyPairs /\ \A K \in SUBSET KeyPairs : lost # K

VARIABLES
    keyFile,   \* per file: NoFile, Torn, or its key (trusted: a set of keys)
    proc,      \* per process: the operation under way
    made,      \* key pairs generated so far
    faults,
    mixed,     \* history: two wrote key files at once, one died at it, or half a pair was copied
    granted,   \* history: keys that were added to the trusted keys, or migrated
    trustRaced \* history: the trusted keys were changed by two, or replaced

keyVars == <<keyFile, proc, made, faults, mixed, granted, trustRaced>>

KeyFiles == {"identity", "private", "trusted"}
Lost == {NoFile, Torn}

NoProc == [op |-> "none", step |-> "idle", key |-> None, sig |-> None, held |-> <<>>,
           todo |-> <<>>, left |-> {}, block |-> None, run |-> 0, trust |-> {}, bad |-> {}]

Idle(p) == proc[p].op = "none"
At(p, op, step) == proc[p].op = op /\ proc[p].step = step
Step(p, step) == proc' = [proc EXCEPT ![p].step = step]
(* The operation returns, with a result or an error. *)
Return(p) == proc' = [proc EXCEPT ![p] = NoProc]

(* A migration copies its keys as its first step. *)
KeyWriters   == {p \in Procs : proc[p].op = "generate" \/ At(p, "migrate", "keys")}
TrustWriters == {p \in Procs : proc[p].op = "trust" \/ At(p, "migrate", "keys")}

HasKeypair == keyFile["identity"] # NoFile /\ keyFile["private"] # NoFile

Generating(p, k) == [NoProc EXCEPT !.op = "generate", !.step = "identity", !.key = k]

(* Mutant: a pair that is there is not looked for. *)
BeginGenerateAnew(p, k) ==
    /\ Idle(p) /\ k \notin made
    /\ proc' = [proc EXCEPT ![p] = Generating(p, k)]
    /\ made' = made \cup {k}
    /\ mixed' = (mixed \/ KeyWriters # {})
    /\ UNCHANGED <<keyFile, faults, granted, trustRaced>>

(* generate_keypair refuses to replace a pair, by a test it makes once. *)
BeginGenerate(p, k) ==
    /\ Idle(p) /\ k \notin made
    /\ ~HasKeypair
    /\ proc' = [proc EXCEPT ![p] = Generating(p, k)]
    /\ made' = made \cup {k}
    /\ mixed' = (mixed \/ KeyWriters # {})
    /\ UNCHANGED <<keyFile, faults, granted, trustRaced>>

WriteIdentity(p) ==
    /\ At(p, "generate", "identity")
    /\ keyFile' = [keyFile EXCEPT !["identity"] = proc[p].key]
    /\ Step(p, "open")
    /\ UNCHANGED <<made, faults, mixed, granted, trustRaced>>

(* fs::write: the file is created, or truncated, and then filled. *)
OpenPrivate(p) ==
    /\ At(p, "generate", "open")
    /\ keyFile' = [keyFile EXCEPT !["private"] = Torn]
    /\ Step(p, "private")
    /\ UNCHANGED <<made, faults, mixed, granted, trustRaced>>

WritePrivate(p) ==
    /\ At(p, "generate", "private")
    /\ keyFile' = [keyFile EXCEPT !["private"] = proc[p].key]
    /\ Return(p)
    /\ UNCHANGED <<made, faults, mixed, granted, trustRaced>>

------------------------------------------------------------------------------
(* add_trusted_key: a file that is torn is an error, and nothing is begun. *)

Trusting(k, trust) == [NoProc EXCEPT !.op = "trust", !.step = "write", !.key = k, !.trust = trust]

(* Mutant: the keys that are there are not loaded. *)
BeginTrustAlone(p, k) ==
    /\ Idle(p) /\ k \notin granted
    /\ keyFile["trusted"] # Torn
    /\ proc' = [proc EXCEPT ![p] = Trusting(k, {})]
    /\ trustRaced' = (trustRaced \/ TrustWriters # {})
    /\ UNCHANGED <<keyFile, made, faults, mixed, granted>>

BeginTrust(p, k) ==
    /\ Idle(p) /\ k \notin granted
    /\ keyFile["trusted"] # Torn
    /\ proc' = [proc EXCEPT ![p] = Trusting(k, IF keyFile["trusted"] = NoFile THEN {} ELSE keyFile["trusted"])]
    /\ trustRaced' = (trustRaced \/ TrustWriters # {})
    /\ UNCHANGED <<keyFile, made, faults, mixed, granted>>

WriteTrusted(p) ==
    /\ At(p, "trust", "write")
    /\ keyFile' = [keyFile EXCEPT !["trusted"] = proc[p].trust \cup {proc[p].key}]
    /\ granted' = granted \cup {proc[p].key}
    /\ Return(p)
    /\ UNCHANGED <<made, faults, mixed, trustRaced>>

------------------------------------------------------------------------------
(* sign_block_hash reads the id of the key, then the key.  Without one of  *)
(* them the block goes unsigned; one that is torn fails the append.        *)

SignId(p) ==
    LET id == keyFile["identity"]
    IN  /\ At(p, "append", "keyId")
        /\ \/ id = NoFile /\ Step(p, "block")
           \/ id = Torn /\ Return(p)
           \/ id \notin Lost /\ proc' = [proc EXCEPT ![p].step = "sign", ![p].key = id]
        /\ UNCHANGED <<keyFile, made, faults, mixed, granted, trustRaced>>

Sign(p) ==
    LET key == keyFile["private"]
    IN  /\ At(p, "append", "sign")
        /\ \/ key = NoFile /\ Step(p, "block")
           \/ key = Torn /\ Return(p)
           \/ key \notin Lost /\ proc' = [proc EXCEPT ![p].step = "block",
                                             ![p].sig = [id |-> proc[p].key, by |-> key]]
        /\ UNCHANGED <<keyFile, made, faults, mixed, granted, trustRaced>>

(* verify_block_signature looks for the key id in the identity file, which *)
(* it then reads again for the key, and else among the trusted keys.       *)
Judged(p, valid) ==
    proc' = [proc EXCEPT ![p].step = "block", ![p].sig = None, ![p].todo = Tail(@),
                         ![p].bad = IF valid THEN @ ELSE @ \cup {"signature"}]

LookupOwn(p) ==
    LET id == keyFile["identity"]
    IN  /\ At(p, "verify", "own")
        /\ \/ id = Torn /\ Return(p)
           \/ id = proc[p].sig.id /\ Step(p, "public")
           \/ id \notin {Torn, proc[p].sig.id} /\ Step(p, "trusted")
        /\ UNCHANGED <<keyFile, made, faults, mixed, granted, trustRaced>>

LookupPublic(p) ==
    LET key == keyFile["identity"]
    IN  /\ At(p, "verify", "public")
        /\ \/ key = Torn /\ Return(p)
           \/ key = NoFile /\ Step(p, "trusted")
           \/ key \notin Lost /\ Judged(p, key = proc[p].sig.by)
        /\ UNCHANGED <<keyFile, made, faults, mixed, granted, trustRaced>>

LookupTrusted(p) ==
    LET keys == keyFile["trusted"]
    IN  /\ At(p, "verify", "trusted")
        /\ \/ keys = Torn /\ Return(p)
           \/ keys = NoFile /\ Judged(p, FALSE)
           \/ keys \notin Lost /\ Judged(p, proc[p].sig.id \in keys /\ proc[p].sig.id = proc[p].sig.by)
        /\ UNCHANGED <<keyFile, made, faults, mixed, granted, trustRaced>>

KeysInit ==
    /\ keyFile = [f \in KeyFiles |-> NoFile]
    /\ proc = [p \in Procs |-> NoProc]
    /\ made = {} /\ faults = 0
    /\ mixed = FALSE /\ granted = {} /\ trustRaced = FALSE

KeysStep(p) ==
    \/ WriteIdentity(p) \/ OpenPrivate(p) \/ WritePrivate(p)
    \/ WriteTrusted(p) \/ SignId(p) \/ Sign(p)
    \/ LookupOwn(p) \/ LookupPublic(p) \/ LookupTrusted(p)
    \/ \E k \in NewKeys : BeginGenerate(p, k) \/ BeginTrust(p, k)

------------------------------------------------------------------------------
(* Properties. *)

(* add_trusted_key (signing.rs:262): a key whose addition returned Ok, or  *)
(* that came with a migration, stays trusted, unless two processes changed *)
(* the file at once, or a migration copied one over it that lacks the key. *)
(* (The file may be torn: a migration is copying it, or died there.)       *)
TrustIsKept ==
    ~trustRaced => \A k \in granted :
        keyFile["trusted"] = Torn \/ (keyFile["trusted"] # NoFile /\ k \in keyFile["trusted"])

(* A private key that is torn is one that a process is about to fill.  Not *)
(* so after a death inside fs::write: has_keypair then holds, so that      *)
(* generate_keypair refuses for good, and every signed append fails.       *)
TornKeyIsFilled ==
    keyFile["private"] = Torn => \E p \in KeyWriters : proc[p].step \in {"private", "keys"}

=============================================================================
