------------------------------ MODULE Migrate ------------------------------
(***************************************************************************)
(* cortex-migrate: a version 2 ledger is transcribed into a destination    *)
(* file by file and without a lock, while other processes may append to    *)
(* the destination, verify its chain, or handle its keys; it may die at    *)
(* any step and be run again.  The source does not change.                 *)
(* A block is its id; what the hash of a transcribed block depends on is   *)
(* its id and, when the source gives a learning no time of creation, the   *)
(* time of the run.                                                        *)
(***************************************************************************)
EXTENDS Keys, FiniteSets

CONSTANTS Sources,    \* the version 2 ledgers to look at
          NewBlocks,  \* ids of blocks that are appended at the destination
          Objects,    \* content hashes of learnings
          ObjectOf,   \* the object of a block's learning
          MaxRuns     \* bound: runs of cortex-migrate

Blocks == DOMAIN ObjectOf
V2Blocks == Blocks \ NewBlocks

(* A version 2 ledger: the ids in its index, the blocks it has files for,  *)
(* those whose hash is not that of their content, those with a learning    *)
(* that has no creation time, and its other files.                         *)
V2Ledger(v2) ==
    /\ v2.index \in Seq(V2Blocks)
    /\ {v2.files, v2.mismatched, v2.undated} \subseteq SUBSET V2Blocks
    /\ DOMAIN v2.keys = KeyFiles
    /\ {v2.keys["identity"], v2.keys["private"]} \subseteq KeyPairs \cup {NoFile}
    /\ v2.keys["trusted"] = NoFile \/ v2.keys["trusted"] \subseteq KeyPairs
    /\ v2.registered = NoFile \/ v2.registered \subseteq V2Blocks
    /\ v2.objects \subseteq Objects

(* What index.json says of a block. *)
Entry == [id : Blocks, hash : Blocks \X (0 .. MaxRuns)]

ASSUME MigrateAssumption ==
    /\ MaxRuns \in Nat /\ NewBlocks \subseteq Blocks
    /\ ObjectOf \in [Blocks -> Objects]
    /\ \A v2 \in Sources : V2Ledger(v2)
    /\ None \notin KeyFiles \cup Objects \cup KeyPairs
    /\ NoFile \notin Seq(Entry) /\ NoFile # "whole"
    /\ \A B \in SUBSET Blocks : NoFile # B

VARIABLES
    source,     \* the version 2 ledger
    index,      \* index.json: NoFile, or a sequence of [id, hash]
    blocks,     \* block files: a function from ids to [hash, sig]
    registered, \* reinforcements.json: NoFile, or the blocks whose learnings it has
    objects,    \* per object: NoFile, Torn or "whole"
    audit,      \* MIGRATION.json is there
    runs,
    appended,   \* history: blocks whose append_block returned Ok
    raced,      \* history: two wrote the destination at once (not under the index's lock)
    replaced,   \* history: a migration put its keys in the place of others
    stale,      \* history: a migration was run again over blocks with no creation time
    report      \* history: what verifications of the chain found wrong

fileVars == <<index, blocks, registered, objects, audit>>
migrateVars == <<fileVars, runs, appended, raced, replaced, stale, report>>
vars == <<keyVars, migrateVars, source>>

(* What validation finds: blocks whose hash is not that of their content,  *)
(* or whose file is not there.                                             *)
Mismatched == source.mismatched \cap source.files
Missing == {source.index[i] : i \in DOMAIN source.index} \ source.files
IsClean == Mismatched = {} /\ Missing = {}

HashOf(b, run) == IF b \in source.undated THEN <<b, run>> ELSE <<b, 0>>

(* The blocks that a migration transcribes, in the order of the index: the *)
(* k-th is the one with k of those that are kept up to it.                 *)
HaveFiles == {i \in DOMAIN source.index : source.index[i] \in source.files}
Transcribed ==
    [k \in 1 .. Cardinality(HaveFiles) |->
        source.index[CHOOSE i \in HaveFiles : Cardinality({j \in HaveFiles : j <= i}) = k]]

(* The version 2 key files that are copied, in this order. *)
IfThere(f) == IF source.keys[f] = NoFile THEN <<>> ELSE <<f>>
Copied == IfThere("identity") \o IfThere("private") \o IfThere("trusted")

(* Mutant: the index is written before the blocks. *)
StepsIndexFirst == <<"keys", "index", "blocks", "registered", "objects", "audit">>
(* Mutant: the audit file is written once the index is. *)
StepsAuditEarly == <<"keys", "blocks", "index", "audit", "registered", "objects">>
Steps == <<"keys", "blocks", "index", "registered", "objects", "audit">>

(* What is to be written in each step, in order; the objects, which are    *)
(* read from directories in any order, are what is left to be copied.      *)
WorkOf(step) ==
    CASE step = "keys"       -> Copied
      [] step = "blocks"     -> Transcribed
      [] step = "index"      -> <<"index">>
      [] step = "registered" -> IF source.registered = NoFile THEN <<>> ELSE <<"registered">>
      [] step = "objects"    -> <<>>
      [] step = "audit"      -> <<"audit">>

Migrating == {p \in Procs : proc[p].op = "migrate"}
DestWriters == {p \in Procs : proc[p].op \in {"open", "append", "migrate"}}
AfterStep(step) == Steps[(CHOOSE i \in DOMAIN Steps : Steps[i] = step) + 1]
Done(p) == proc' = [proc EXCEPT ![p].todo = Tail(@)]
keyRest == <<made, faults, granted>>
rest == <<runs, appended, raced, replaced, stale, report, source>>

------------------------------------------------------------------------------
(* Ledger::open, with which every operation begins: it looks for the index,*)
(* then for the reinforcements, and writes an empty file where it has found*)
(* none, without a lock.  No file ever goes away again, so that one that   *)
(* has found both goes on to its operation.                                *)

HasLayout == index # NoFile /\ registered # NoFile
Open(p, step) == proc' = [proc EXCEPT ![p] = [NoProc EXCEPT !.op = "open", !.step = step]]

LookForIndex(p) ==
    /\ Idle(p) /\ index = NoFile
    /\ Open(p, "index")
    /\ UNCHANGED <<keyFile, keyRest, mixed, trustRaced, fileVars, rest>>

MakeIndex(p) ==
    /\ At(p, "open", "index")
    /\ index' = <<>>
    /\ Return(p)
    /\ UNCHANGED <<keyFile, keyRest, mixed, trustRaced, blocks, registered, objects, audit, rest>>

LookForReinforcements(p) ==
    /\ Idle(p) /\ index # NoFile /\ registered = NoFile
    /\ Open(p, "registered")
    /\ UNCHANGED <<keyFile, keyRest, mixed, trustRaced, fileVars, rest>>

MakeReinforcements(p) ==
    /\ At(p, "open", "registered")
    /\ registered' = {}
    /\ Return(p)
    /\ UNCHANGED <<keyFile, keyRest, mixed, trustRaced, index, blocks, objects, audit, rest>>

------------------------------------------------------------------------------
(* cortex-migrate. *)

(* A source that validation faults is migrated with --force only. *)
BeginMigrate(p, force) ==
    /\ Idle(p) /\ runs < MaxRuns
    /\ IsClean \/ force
    /\ HasLayout
    /\ runs' = runs + 1
    /\ proc' = [proc EXCEPT ![p] = [NoProc EXCEPT !.op = "migrate", !.step = "keys",
                                                  !.todo = Copied, !.run = runs']]
    /\ mixed' = (mixed \/ KeyWriters # {} \/ source.keys["identity"] # source.keys["private"])
    /\ trustRaced' = (trustRaced \/ TrustWriters # {} \/ (source.keys["trusted"] # NoFile /\ ~(granted \subseteq source.keys["trusted"])))
    /\ raced' = (raced \/ DestWriters # {})
    /\ stale' = (stale \/ (runs > 0 /\ source.undated # {}))
    /\ UNCHANGED <<keyFile, keyRest, fileVars, appended, replaced, report, source>>

Proceed(p) ==
    /\ proc[p].op = "migrate" /\ proc[p].todo = <<>> /\ proc[p].left = {} /\ proc[p].step # "audit"
    /\ LET next == AfterStep(proc[p].step)
       IN  proc' = [proc EXCEPT ![p].step = next, ![p].todo = WorkOf(next),
                                ![p].left = IF next = "objects" THEN source.objects ELSE {}]
    /\ UNCHANGED <<keyFile, keyRest, mixed, trustRaced, fileVars, rest>>

(* fs::copy truncates the file, and then fills it. *)
CopyKey(p) ==
    LET f == Head(proc[p].todo)
    IN  /\ At(p, "migrate", "keys") /\ proc[p].todo # <<>>
        /\ IF proc[p].key = None
           THEN /\ keyFile' = [keyFile EXCEPT ![f] = Torn]
                /\ proc' = [proc EXCEPT ![p].key = f]
                /\ replaced' = (replaced \/ (f # "trusted" /\ keyFile[f] \notin Lost \cup {source.keys[f]}))
           ELSE /\ keyFile' = [keyFile EXCEPT ![f] = source.keys[f]]
                /\ proc' = [proc EXCEPT ![p].key = None, ![p].todo = Tail(@)]
                /\ UNCHANGED replaced
        /\ granted' = IF f = "trusted" /\ proc[p].key # None THEN granted \cup source.keys[f] ELSE granted
        /\ UNCHANGED <<made, faults, mixed, trustRaced, fileVars, runs, appended, raced, stale, report, source>>

(* The block keeps its id and its parent, and loses its signature. *)
TranscribeBlock(p) ==
    LET b == Head(proc[p].todo)
    IN  /\ At(p, "migrate", "blocks") /\ proc[p].todo # <<>>
        /\ blocks' = [c \in DOMAIN blocks \cup {b} |->
                         IF c = b THEN [hash |-> HashOf(b, proc[p].run), sig |-> None] ELSE blocks[c]]
        /\ Done(p)
        /\ UNCHANGED <<keyFile, keyRest, mixed, trustRaced, index, registered, objects, audit, rest>>

(* The index is replaced, whatever it held. *)
WriteIndex(p) ==
    /\ At(p, "migrate", "index") /\ proc[p].todo # <<>>
    /\ index' = [i \in DOMAIN Transcribed |->
                    [id |-> Transcribed[i], hash |-> HashOf(Transcribed[i], proc[p].run)]]
    /\ Done(p)
    /\ UNCHANGED <<keyFile, keyRest, mixed, trustRaced, blocks, registered, objects, audit, rest>>

TranscribeReinforcements(p) ==
    /\ At(p, "migrate", "registered") /\ proc[p].todo # <<>>
    /\ registered' = source.registered
    /\ Done(p)
    /\ UNCHANGED <<keyFile, keyRest, mixed, trustRaced, index, blocks, objects, audit, rest>>

TranscribeObject(p) ==
    /\ At(p, "migrate", "objects")
    /\ \/ \E o \in proc[p].left :
              /\ proc[p].key = None
              /\ objects' = [objects EXCEPT ![o] = Torn]
              /\ proc' = [proc EXCEPT ![p].key = o]
       \/ LET o == proc[p].key
          IN  /\ o # None
              /\ objects' = [objects EXCEPT ![o] = "whole"]
              /\ proc' = [proc EXCEPT ![p].key = None, ![p].left = @ \ {o}]
    /\ UNCHANGED <<keyFile, keyRest, mixed, trustRaced, index, blocks, registered, audit, rest>>

WriteAudit(p) ==
    /\ At(p, "migrate", "audit")
    /\ audit' = TRUE
    /\ Return(p)
    /\ UNCHANGED <<keyFile, keyRest, mixed, trustRaced, index, blocks, registered, objects, rest>>

------------------------------------------------------------------------------
(* append_block at the destination: one at a time, for the index is locked *)
(* against other appends (module Ledger), not against a migration.         *)

BeginAppend(p, b, sign) ==
    /\ Idle(p) /\ b \notin DOMAIN blocks
    /\ \A q \in Procs : proc[q].op # "append"
    /\ HasLayout
    /\ proc' = [proc EXCEPT ![p] = [NoProc EXCEPT !.op = "append", !.block = b, !.held = index,
                                                  !.step = IF sign THEN "keyId" ELSE "block"]]
    /\ raced' = (raced \/ DestWriters # {})
    /\ UNCHANGED <<keyFile, keyRest, mixed, trustRaced, fileVars,
                   runs, appended, replaced, stale, report, source>>

AppendBlock(p) ==
    LET b == proc[p].block
    IN  /\ At(p, "append", "block")
        /\ blocks' = [c \in DOMAIN blocks \cup {b} |->
                         IF c = b THEN [hash |-> <<b, 0>>, sig |-> proc[p].sig] ELSE blocks[c]]
        /\ Step(p, "index")
        /\ UNCHANGED <<keyFile, keyRest, mixed, trustRaced, index, registered, objects, audit, rest>>

AppendIndex(p) ==
    /\ At(p, "append", "index")
    /\ index' = Append(proc[p].held, [id |-> proc[p].block, hash |-> <<proc[p].block, 0>>])
    /\ Step(p, "object")
    /\ UNCHANGED <<keyFile, keyRest, mixed, trustRaced, blocks, registered, objects, audit, rest>>

(* register_learnings: an object that is there is not written again. *)
StoreLearning(p) ==
    LET o == ObjectOf[proc[p].block]
    IN  /\ At(p, "append", "object")
        /\ objects' = [objects EXCEPT ![o] = IF @ = NoFile THEN "whole" ELSE @]
        /\ proc' = [proc EXCEPT ![p].step = "register", ![p].trust = registered]
        /\ UNCHANGED <<keyFile, keyRest, mixed, trustRaced, index, blocks, registered, audit, rest>>

Register(p) ==
    /\ At(p, "append", "register")
    /\ registered' = proc[p].trust \cup {proc[p].block}
    /\ appended' = appended \cup {proc[p].block}
    /\ Return(p)
    /\ UNCHANGED <<keyFile, keyRest, mixed, trustRaced, index, blocks, objects, audit,
                   runs, raced, replaced, stale, report, source>>

------------------------------------------------------------------------------
(* verify_chain reads the index, then the blocks one by one, and for each  *)
(* signature the key files.                                                *)

BeginVerify(p) ==
    /\ Idle(p)
    /\ HasLayout
    /\ proc' = [proc EXCEPT ![p] = [NoProc EXCEPT !.op = "verify", !.step = "block", !.todo = index]]
    /\ UNCHANGED <<keyFile, keyRest, mixed, trustRaced, fileVars, rest>>

VerifyBlock(p) ==
    LET entry == Head(proc[p].todo)
        block == blocks[entry.id]
        Note(what) == proc' = [proc EXCEPT ![p].todo = Tail(@), ![p].bad = @ \cup what]
    IN  /\ At(p, "verify", "block") /\ proc[p].todo # <<>>
        /\ \/ entry.id \notin DOMAIN blocks /\ Note({"missing"})
           \/ entry.id \in DOMAIN blocks /\ block.hash # entry.hash /\ Note({"mismatch"})
           \/ entry.id \in DOMAIN blocks /\ block.hash = entry.hash /\
                 IF block.sig = None THEN Note({})
                 ELSE proc' = [proc EXCEPT ![p].step = "own", ![p].sig = block.sig]
        /\ UNCHANGED <<keyFile, keyRest, mixed, trustRaced, fileVars, rest>>

VerifyEnds(p) ==
    /\ At(p, "verify", "block") /\ proc[p].todo = <<>>
    /\ report' = report \cup proc[p].bad
    /\ Return(p)
    /\ UNCHANGED <<keyFile, keyRest, mixed, trustRaced, fileVars, runs, appended, raced, replaced, stale, source>>

(* A process dies, or an operation fails at one of its files.              *)
Die(p) ==
    /\ ~Idle(p) /\ faults < MaxFaults
    /\ faults' = faults + 1
    /\ mixed' = (mixed \/ p \in KeyWriters)
    /\ Return(p)
    /\ UNCHANGED <<keyFile, made, granted, trustRaced, migrateVars, source>>

Init ==
    /\ KeysInit
    /\ source \in Sources
    /\ index = NoFile /\ blocks = <<>> /\ registered = NoFile
    /\ objects = [o \in Objects |-> NoFile]
    /\ audit = FALSE /\ runs = 0
    /\ appended = {} /\ raced = FALSE /\ replaced = FALSE /\ stale = FALSE /\ report = {}

Next == \E p \in Procs :
    \/ KeysStep(p) /\ UNCHANGED <<migrateVars, source>>
    \/ LookForIndex(p) \/ MakeIndex(p) \/ LookForReinforcements(p) \/ MakeReinforcements(p)
    \/ \E force \in BOOLEAN : BeginMigrate(p, force)
    \/ Proceed(p) \/ CopyKey(p) \/ TranscribeBlock(p) \/ WriteIndex(p)
    \/ TranscribeReinforcements(p) \/ TranscribeObject(p) \/ WriteAudit(p)
    \/ \E b \in NewBlocks, sign \in BOOLEAN : BeginAppend(p, b, sign)
    \/ AppendBlock(p) \/ AppendIndex(p) \/ StoreLearning(p) \/ Register(p)
    \/ BeginVerify(p) \/ VerifyBlock(p) \/ VerifyEnds(p)
    \/ Die(p)

Spec == Init /\ [][Next]_vars

------------------------------------------------------------------------------
(* Properties. *)

(* main.rs:9-11: MIGRATION.json is the trail of a migration that is done,  *)
(* and is written last: once it is there, so is every block that the       *)
(* source has a file for, its reinforcements, its objects and its keys,    *)
(* through deaths, reruns and whatever was appended or opened since, unless*)
(* another process wrote at the same time, if only the empty files of a    *)
(* ledger that it had found without.  (A rerun that dies inside a copy     *)
(* leaves that file torn.)                                                 *)
MigrationIsComplete ==
    audit =>
        /\ \A o \in source.objects : objects[o] # NoFile
        /\ \A f \in KeyFiles : source.keys[f] # NoFile => keyFile[f] # NoFile
        /\ raced \/ /\ Transcribed = SubSeq([i \in DOMAIN index |-> index[i].id], 1, Len(Transcribed))
                    /\ source.registered # NoFile => source.registered \subseteq registered

(* store.rs:289: verify_chain reads without a lock, and reports nothing    *)
(* that is not so: no block is missing at any moment of a migration, no    *)
(* hash differs unless a rerun dates a learning anew, and no signature     *)
(* fails unless key pairs got mixed or were replaced.                      *)
ReportsAreTrue ==
    /\ "missing" \notin report
    /\ "mismatch" \in report => stale
    /\ "signature" \in report => mixed \/ replaced

(* A block that was signed here is one that this ledger's own key verifies.*)
SignaturesVerify ==
    ~mixed /\ ~replaced => \A b \in DOMAIN blocks :
        LET sig == blocks[b].sig
        IN  sig # None => sig.id = sig.by /\ keyFile["identity"] \in {sig.id, Torn}

(* main.rs:7 "Idempotent - re-running is safe": not for the blocks that    *)
(* were appended to the destination in between.                            *)
RerunKeepsAppends ==
    ~raced /\ Migrating = {} => \A b \in appended : \E i \in DOMAIN index : index[i].id = b

=============================================================================
