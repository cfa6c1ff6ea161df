------------------------------- MODULE Ledger -------------------------------
(***************************************************************************)
(* The v3 ledger of cortex-core (crates/cortex-core/src/store.rs): several *)
(* processes (the MCP server, hooks, scripts) share one directory and run  *)
(* Ledger::open, append_block, record_outcome and record_corroboration on  *)
(* it.  Every file is replaced whole by a temp-file-and-rename, so a file  *)
(* is a variable and a write is one action; the interleaving is that of    *)
(* the reads, writes and advisory locks of the code.                       *)
(*                                                                         *)
(* A process that crashes, or whose read or write fails, stops where it is *)
(* (Abandon): the operating system, or the guard's drop, frees its locks   *)
(* and whatever it had written stays.                                      *)
(***************************************************************************)
EXTENDS Naturals, FiniteSets, Sequences

CONSTANTS
    Procs,       \* processes that use the ledger
    NoProc,      \* "the lock is free"
    Setups,      \* deployments: who does what, and on which ledger
    BlockIds,    \* the uuids append_block may draw
    None,        \* Option::None, for a block id
    Learnings,   \* learnings that may be appended, each with its own uuid
    MaxUpdates,  \* bound: acknowledged updates of a kind a learning may get
    MaxFaults    \* bound: crashes and I/O errors

ASSUME LedgerAssumption ==
    /\ NoProc \notin Procs
    /\ None \notin BlockIds
    /\ BlockIds # {}
    /\ \A s \in Setups :
          /\ s.appenders \subseteq Procs /\ s.recorders \subseteq Procs
          /\ s.fresh \in BOOLEAN
          /\ s.seed \subseteq Learnings /\ (s.fresh => s.seed = {})
    /\ MaxUpdates \in Nat /\ MaxFaults \in Nat

VARIABLES
    setup,     \* the deployment, which never changes
    layout,    \* which of index.json and reinforcements.json exist
    index,     \* index.json
    blocks,    \* the files of blocks/
    merkle,    \* merkle.json, as its set of leaves
    objects,   \* the object store, as the learnings it holds
    reinf,     \* reinforcements.json
    lock,      \* the process holding each sentinel lock
    pc,        \* the step a process is about to take
    job,       \* the operation a process runs, and what it has read
    appended,  \* history: the blocks whose append_block returned Ok
    acked,     \* history: the updates acknowledged for each learning
    unheard,   \* history: those written by a process that died before it returned
    faults     \* history: crashes and errors so far

files   == <<layout, index, blocks, merkle, objects, reinf>>
history == <<setup, appended, acked, unheard, faults>>
vars    == <<files, lock, pc, job, history>>

------------------------------------------------------------------------------
(* The deployment. *)

(* Processes that append blocks, and that record outcomes and              *)
(* corroborations.                                                         *)
Appenders == setup.appenders
Recorders == setup.recorders

(* The directory is empty and Ledger::open lays it out; or the ledger      *)
(* exists and starts with one block of these learnings, or none.           *)
Fresh == setup.fresh
Seed  == setup.seed

------------------------------------------------------------------------------
(* Data. *)

OptBlockId == BlockIds \cup {None}

(* A collision-free hash is the tuple of what it hashes. *)
Hash == BlockIds \X OptBlockId \X SUBSET Learnings
ComputeBlockHash(id, parent, ls) == <<id, parent, ls>>

Block == [id : BlockIds, parent : OptBlockId, learnings : SUBSET Learnings, hash : Hash]
Entry == [id : BlockIds, parent : OptBlockId, hash : Hash]

(* MerkleTree::build sorts its leaves, so a tree is its set of leaves. *)
Leaves(es) == {<<es[i].id, es[i].hash>> : i \in DOMAIN es}

Index == [head : OptBlockId, blocks : Seq(Entry), root : SUBSET (BlockIds \X Hash)]
EmptyIndex == [head |-> None, blocks |-> <<>>, root |-> {}]

(* block = None stands for a learning that reinforcements.json lacks. *)
Reinforcement == [block : OptBlockId, outcomes : Nat, corroborations : Nat]
Unregistered == [block |-> None, outcomes |-> 0, corroborations |-> 0]
Reinforcements == [Learnings -> Reinforcement]
Registered(r) == {l \in Learnings : r[l].block # None}

Update == {"outcome", "corroboration"}
Acked == [outcomes : Nat, corroborations : Nat]
Bump(r, kind) ==
    IF kind = "outcome" THEN [r EXCEPT !.outcomes = @ + 1]
                        ELSE [r EXCEPT !.corroborations = @ + 1]

NewBlock(id, parent, ls) ==
    [id |-> id, parent |-> parent, learnings |-> ls,
     hash |-> ComputeBlockHash(id, parent, ls)]
EntryOf(b) == [id |-> b.id, parent |-> b.parent, hash |-> b.hash]

(* index with b pushed as its newest entry, its head and in its Merkle root. *)
Extend(ix, b) ==
    LET es == Append(ix.blocks, EntryOf(b))
    IN  [head |-> b.id, blocks |-> es, root |-> Leaves(es)]

IndexIds(ix) == {ix.blocks[i].id : i \in DOMAIN ix.blocks}

------------------------------------------------------------------------------
(* A process's step and what it holds in memory. *)

OpenSteps   == {"closed", "mkIndex", "checkReinf", "mkReinf"}
IndexSteps  == {"readIndex", "writeBlock", "writeMerkle", "writeIndex",
                "readReinf", "register", "returnAppend"}
RecordSteps == {"readRecord", "writeRecord", "returnRecord"}
Steps == OpenSteps \cup IndexSteps \cup RecordSteps \cup {"idle", "lockIndex", "lockReinf"}

Job == [op : Update \cup {"append", "none"}, id : OptBlockId,
        args : SUBSET Learnings, idx : Index, snap : Reinforcements]
JobOf(op, id, ls) == [op |-> op, id |-> id, args |-> ls, idx |-> EmptyIndex,
                      snap |-> [l \in Learnings |-> Unregistered]]
NoJob == JobOf("none", None, {})

(* Mutant: the hash leaves out the parent. *)
OwnBlockUnhashed(p) ==
    [NewBlock(job[p].id, job[p].idx.head, job[p].args) EXCEPT !.hash = <<job[p].id, job[p].args>>]

(* Mutant: the block does not name the head it follows. *)
OwnBlockUnlinked(p) == NewBlock(job[p].id, None, job[p].args)

(* The block append_block is building: its parent is the head it read. *)
OwnBlock(p) == NewBlock(job[p].id, job[p].idx.head, job[p].args)

GoTo(p, step) == pc' = [pc EXCEPT ![p] = step]
Finish(p, step) == GoTo(p, step) /\ job' = [job EXCEPT ![p] = NoJob]
Release(p) == lock' = [f \in DOMAIN lock |-> IF lock[f] = p THEN NoProc ELSE lock[f]]

UsedIds == {b.id : b \in blocks} \cup {job[p].id : p \in Procs}
UsedLearnings ==
    (UNION {b.learnings : b \in blocks}) \cup (UNION {job[p].args : p \in Procs})

------------------------------------------------------------------------------
(* Ledger::open -> ensure_layout: check, then write a default.  No lock. *)

(* Mutant: the default index is written without asking whether one exists. *)
OpenUnchecked(p) ==
    /\ pc[p] = "closed" /\ p \in Appenders \cup Recorders
    /\ GoTo(p, "mkIndex")
    /\ UNCHANGED <<files, lock, job, history>>

Open(p) ==
    /\ pc[p] = "closed" /\ p \in Appenders \cup Recorders
    /\ GoTo(p, IF "index" \in layout THEN "checkReinf" ELSE "mkIndex")
    /\ UNCHANGED <<files, lock, job, history>>

MakeIndex(p) ==
    /\ pc[p] = "mkIndex"
    /\ index' = EmptyIndex
    /\ layout' = layout \cup {"index"}
    /\ GoTo(p, "checkReinf")
    /\ UNCHANGED <<blocks, merkle, objects, reinf, lock, job, history>>

CheckReinforcements(p) ==
    /\ pc[p] = "checkReinf"
    /\ GoTo(p, IF "reinforcements" \in layout THEN "idle" ELSE "mkReinf")
    /\ UNCHANGED <<files, lock, job, history>>

MakeReinforcements(p) ==
    /\ pc[p] = "mkReinf"
    /\ reinf' = [l \in Learnings |-> Unregistered]
    /\ layout' = layout \cup {"reinforcements"}
    /\ GoTo(p, "idle")
    /\ UNCHANGED <<index, blocks, merkle, objects, lock, job, history>>

(* The handle is dropped; the next operation opens the ledger again. *)
Close(p) ==
    /\ pc[p] = "idle"
    /\ GoTo(p, "closed")
    /\ UNCHANGED <<files, lock, job, history>>

------------------------------------------------------------------------------
(* exclusive_lock: poll until the sentinel is free or 5 s have passed. *)

Acquire(p, f, at, next) ==
    /\ pc[p] = at
    /\ lock[f] = NoProc
    /\ lock' = [lock EXCEPT ![f] = p]
    /\ GoTo(p, next)
    /\ UNCHANGED <<files, job, history>>

(* Mutants: a shared lock is taken where the exclusive one is meant. *)
Share(p, f, at, next) ==
    /\ pc[p] = at
    /\ lock' = [lock EXCEPT ![f] = p]
    /\ GoTo(p, next)
    /\ UNCHANGED <<files, job, history>>
LockIndexShared(p) == Share(p, "index", "lockIndex", "readIndex")
LockReinforcementsShared(p) == Share(p, "reinforcements", "lockReinf", "readRecord")

LockIndex(p) == Acquire(p, "index", "lockIndex", "readIndex")
LockReinforcements(p) == Acquire(p, "reinforcements", "lockReinf", "readRecord")

(* Mutant: a waiter polls for ever. *)
LockNeverTimesOut(p) == pc[p] = "lockIndex" /\ FALSE

LockTimeout(p) ==
    /\ \/ pc[p] = "lockIndex" /\ lock["index"] # NoProc
       \/ pc[p] = "lockReinf" /\ lock["reinforcements"] # NoProc
    /\ Finish(p, "idle")
    /\ UNCHANGED <<files, lock, history>>

------------------------------------------------------------------------------
(* append_block. *)

(* The uuid is drawn under the lock; drawing it here is unobservable. *)
BeginAppend(p) ==
    /\ pc[p] = "idle" /\ p \in Appenders
    /\ \E id \in BlockIds \ UsedIds, ls \in SUBSET (Learnings \ UsedLearnings) :
          job' = [job EXCEPT ![p] = JobOf("append", id, ls)]
    /\ GoTo(p, "lockIndex")
    /\ UNCHANGED <<files, lock, history>>

ReadIndex(p) ==
    /\ pc[p] = "readIndex"
    /\ job' = [job EXCEPT ![p].idx = index]
    /\ GoTo(p, "writeBlock")
    /\ UNCHANGED <<files, lock, history>>

WriteBlock(p) ==
    /\ pc[p] = "writeBlock"
    /\ blocks' = blocks \cup {OwnBlock(p)}
    /\ GoTo(p, "writeMerkle")
    /\ UNCHANGED <<layout, index, merkle, objects, reinf, lock, job, history>>

(* Mutant: the tree is saved over the index as it was read. *)
WriteMerkleOfOldIndex(p) ==
    LET ix == Extend(job[p].idx, OwnBlock(p))
    IN  /\ pc[p] = "writeMerkle"
        /\ job' = [job EXCEPT ![p].idx = ix]
        /\ merkle' = Leaves(job[p].idx.blocks)
        /\ GoTo(p, "writeIndex")
        /\ UNCHANGED <<layout, index, blocks, objects, reinf, lock, history>>

(* The entry is pushed in memory and the tree over it saved. *)
WriteMerkle(p) ==
    LET ix == Extend(job[p].idx, OwnBlock(p))
    IN  /\ pc[p] = "writeMerkle"
        /\ job' = [job EXCEPT ![p].idx = ix]
        /\ merkle' = Leaves(ix.blocks)
        /\ GoTo(p, "writeIndex")
        /\ UNCHANGED <<layout, index, blocks, objects, reinf, lock, history>>

(* Mutant: append_block returns without registering its learnings. *)
WriteIndexReturns(p) ==
    /\ pc[p] = "writeIndex"
    /\ index' = job[p].idx
    /\ GoTo(p, "returnAppend")
    /\ UNCHANGED <<layout, blocks, merkle, objects, reinf, lock, job, history>>

WriteIndex(p) ==
    /\ pc[p] = "writeIndex"
    /\ index' = job[p].idx
    /\ GoTo(p, IF job[p].args = {} THEN "returnAppend" ELSE "readReinf")
    /\ UNCHANGED <<layout, blocks, merkle, objects, reinf, lock, job, history>>

(* register_learnings: read, store each object, write.  The index lock is  *)
(* held; the lock of reinforcements.json is not.                           *)
ReadReinforcements(p) ==
    /\ pc[p] = "readReinf"
    /\ job' = [job EXCEPT ![p].snap = reinf]
    /\ GoTo(p, "register")
    /\ UNCHANGED <<files, lock, history>>

StoreLearning(p) ==
    /\ pc[p] = "register"
    /\ \E l \in job[p].args \ objects : objects' = objects \cup {l}
    /\ UNCHANGED <<layout, index, blocks, merkle, reinf, lock, pc, job, history>>

WriteReinforcements(p) ==
    /\ pc[p] = "register"
    /\ job[p].args \subseteq objects
    /\ reinf' = [l \in Learnings |->
                   IF l \in job[p].args THEN [Unregistered EXCEPT !.block = job[p].id]
                                        ELSE job[p].snap[l]]
    /\ GoTo(p, "returnAppend")
    /\ UNCHANGED <<layout, index, blocks, merkle, objects, lock, job, history>>

(* Ok(block): the caller hears of it, and the guard is dropped. *)
AppendReturns(p) ==
    /\ pc[p] = "returnAppend"
    /\ appended' = appended \cup {job[p].id}
    /\ Finish(p, "idle")
    /\ Release(p)
    /\ UNCHANGED <<files, acked, unheard, faults, setup>>

------------------------------------------------------------------------------
(* record_outcome and record_corroboration. *)

BeginRecord(p) ==
    /\ pc[p] = "idle" /\ p \in Recorders
    /\ \E l \in Learnings, kind \in Update :
          /\ (IF kind = "outcome" THEN acked[l].outcomes ELSE acked[l].corroborations) < MaxUpdates
          /\ job' = [job EXCEPT ![p] = JobOf(kind, None, {l})]
    /\ GoTo(p, "lockReinf")
    /\ UNCHANGED <<files, lock, history>>

(* A learning that is not there is an error, and the guard is dropped. *)
ReadRecord(p) ==
    /\ pc[p] = "readRecord"
    /\ IF job[p].args \subseteq Registered(reinf)
       THEN /\ job' = [job EXCEPT ![p].snap = reinf]
            /\ GoTo(p, "writeRecord")
            /\ UNCHANGED lock
       ELSE Finish(p, "idle") /\ Release(p)
    /\ UNCHANGED <<files, history>>

WriteRecord(p) ==
    /\ pc[p] = "writeRecord"
    /\ reinf' = [l \in Learnings |->
                   IF l \in job[p].args THEN Bump(job[p].snap[l], job[p].op)
                                        ELSE job[p].snap[l]]
    /\ GoTo(p, "returnRecord")
    /\ UNCHANGED <<layout, index, blocks, merkle, objects, lock, job, history>>

(* updates, and the one that p has made. *)
AndThatOf(p, updates) ==
    [l \in Learnings |-> IF l \in job[p].args THEN Bump(updates[l], job[p].op) ELSE updates[l]]

(* Ok(confidence): the update is acknowledged, and the guard dropped. *)
RecordReturns(p) ==
    /\ pc[p] = "returnRecord"
    /\ acked' = AndThatOf(p, acked)
    /\ Finish(p, "idle")
    /\ Release(p)
    /\ UNCHANGED <<files, appended, unheard, faults, setup>>

------------------------------------------------------------------------------

(* A crash, or an I/O error returned with `?`: the locks go, the files stay. *)
Abandon(p) ==
    /\ pc[p] \notin {"closed", "idle"}
    /\ faults < MaxFaults
    /\ faults' = faults + 1
    /\ unheard' = IF pc[p] = "returnRecord" THEN AndThatOf(p, unheard) ELSE unheard
    /\ Finish(p, "closed")
    /\ Release(p)
    /\ UNCHANGED <<files, appended, acked, setup>>

Init ==
    LET genesis == NewBlock(CHOOSE b \in BlockIds : TRUE, None, Seed)
        seeded  == Seed # {}
    IN  /\ setup \in Setups
        /\ layout = IF Fresh THEN {} ELSE {"index", "reinforcements"}
        /\ blocks = IF seeded THEN {genesis} ELSE {}
        /\ index = IF seeded THEN Extend(EmptyIndex, genesis) ELSE EmptyIndex
        /\ merkle = Leaves(index.blocks)
        /\ objects = Seed
        /\ reinf = [l \in Learnings |->
                      IF l \in Seed THEN [Unregistered EXCEPT !.block = genesis.id]
                                    ELSE Unregistered]
        /\ lock = [f \in {"index", "reinforcements"} |-> NoProc]
        /\ pc = [p \in Procs |-> "closed"]
        /\ job = [p \in Procs |-> NoJob]
        /\ appended = {b.id : b \in blocks}
        /\ acked = [l \in Learnings |-> [outcomes |-> 0, corroborations |-> 0]]
        /\ unheard = acked
        /\ faults = 0

(* What a process does on its own once it has begun an operation. *)
Step(p) ==
    \/ MakeIndex(p) \/ CheckReinforcements(p) \/ MakeReinforcements(p)
    \/ LockIndex(p) \/ LockReinforcements(p) \/ LockTimeout(p)
    \/ ReadIndex(p) \/ WriteBlock(p) \/ WriteMerkle(p) \/ WriteIndex(p)
    \/ ReadReinforcements(p) \/ StoreLearning(p) \/ WriteReinforcements(p) \/ AppendReturns(p)
    \/ ReadRecord(p) \/ WriteRecord(p) \/ RecordReturns(p)

Next == \E p \in Procs :
    Step(p) \/ Open(p) \/ Close(p) \/ BeginAppend(p) \/ BeginRecord(p) \/ Abandon(p)

Spec == Init /\ [][Next]_vars

(* The operating system keeps scheduling a process that has begun an       *)
(* operation; nothing makes it begin one, and nothing makes it crash.      *)
FairSpec == Spec /\ \A p \in Procs : WF_vars(Step(p))

------------------------------------------------------------------------------
(* Properties. *)

(* Every file, lock and local copy holds a value of its kind. *)
TypeOK ==
    /\ setup \in Setups
    /\ layout \subseteq {"index", "reinforcements"}
    /\ index \in Index
    /\ blocks \subseteq Block
    /\ merkle \subseteq BlockIds \X Hash
    /\ objects \subseteq Learnings
    /\ reinf \in Reinforcements
    /\ lock \in [{"index", "reinforcements"} -> Procs \cup {NoProc}]
    /\ pc \in [Procs -> Steps]
    /\ job \in [Procs -> Job]
    /\ appended \subseteq BlockIds
    /\ acked \in [Learnings -> Acked] /\ unheard \in [Learnings -> Acked]
    /\ faults \in Nat

(* An index whose entries are linked from the first block to the head, are *)
(* each backed by a block file with that hash, and make up its root.       *)
Linked(ix) ==
    /\ ix.head = IF ix.blocks = <<>> THEN None ELSE ix.blocks[Len(ix.blocks)].id
    /\ \A i \in DOMAIN ix.blocks :
          ix.blocks[i].parent = IF i = 1 THEN None ELSE ix.blocks[i - 1].id
Backed(ix, bs) ==
    \A i \in DOMAIN ix.blocks : \E b \in bs :
        /\ EntryOf(b) = ix.blocks[i]
        /\ b.hash = ComputeBlockHash(b.id, b.parent, b.learnings)
Intact(ix, bs) == Linked(ix) /\ Backed(ix, bs) /\ ix.root = Leaves(ix.blocks)

(* Whatever crashes and interleavings did, index.json is a chain that      *)
(* verify_chain would call clean, and its parent links lead from the head  *)
(* to the first block (which verify_chain does not check).                 *)
ChainIntact == Intact(index, blocks)

(* A block whose append_block returned Ok stays in the index for ever      *)
(* (CHANGELOG.md:116: "a tagged learning is immutable").  Not so while a   *)
(* new directory is being opened: ensure_layout takes no lock and may      *)
(* reset an index another process has just appended to.                    *)
DurableAppends == ~Fresh => appended \subseteq IndexIds(index)

(* The index of a ledger that exists is an append-only log of blocks, none *)
(* of them twice: no process writes back an index that misses another's    *)
(* block.  While a new directory is being opened nothing is promised.      *)
Log == INSTANCE AppendLog WITH
    Ids <- BlockIds,
    log <- IF Fresh THEN <<>> ELSE [i \in DOMAIN index.blocks |-> index.blocks[i].id]
LogSpec == Log!Spec

(* When append_block has returned Ok, its learnings can be found: they are *)
(* in reinforcements.json under that block, and their objects are stored,  *)
(* as long as nobody records: recorders take another lock.                 *)
AppendsAreRegistered ==
    ~Fresh /\ Recorders = {} => \A b \in blocks : b.id \in appended =>
        \A l \in b.learnings : reinf[l].block = b.id /\ l \in objects

(* A learning readers can see belongs to a block of the chain: a write of  *)
(* reinforcements.json never runs ahead of the index.                      *)
RegisteredIsIndexed ==
    ~Fresh => \A l \in Registered(reinf) : \E b \in blocks :
        b.id = reinf[l].block /\ l \in b.learnings /\ b.id \in IndexIds(index)

(* store.rs:4-5 says that "a crash never leaves an orphan block".  A block *)
(* file that the index lacks is one some append_block is about to index,   *)
(* or the remains of a crash or an I/O error: at most one for each.        *)
Orphans == {b \in blocks : b.id \notin IndexIds(index) /\ \A p \in Procs : job[p].id # b.id}
OrphansAreFaults == ~Fresh => Cardinality(Orphans) <= faults

(* merkle.json, written before index.json, always covers the index and is  *)
(* at most one block ahead, and that only inside append_block or after one *)
(* was cut short.                                                          *)
MerkleCoversIndex == ~Fresh =>
    /\ index.root \subseteq merkle
    /\ Cardinality(merkle \ index.root) <= 1
    /\ merkle # index.root => faults > 0 \/ \E p \in Procs : pc[p] = "writeIndex"

(* The four files tell one story at every step of every writer, and after  *)
(* crashes: the three properties above.                                    *)
FilesAgree == RegisteredIsIndexed /\ OrphansAreFaults /\ MerkleCoversIndex

(* store.rs:3: "Concurrent access uses `fs2` advisory file locks": an      *)
(* outcome or corroboration that was acknowledged (record_corroboration:   *)
(* "increments the corroboration counter ... and persists") stays counted. *)
AcknowledgedUpdatesPersist ==
    \A l \in Learnings : acked[l].outcomes <= reinf[l].outcomes
                        /\ acked[l].corroborations <= reinf[l].corroborations

(* As long as nobody appends, all writers of reinforcements.json take its  *)
(* lock, and no update is lost and none counted twice: a counter is what   *)
(* was acknowledged, with one more for each writer that died between the   *)
(* rename and its return, and for the one that is there now.               *)
Unreturned(l, kind) ==
    IF \E p \in Procs : pc[p] = "returnRecord" /\ job[p].op = kind /\ l \in job[p].args
    THEN 1 ELSE 0
CountersAreExact ==
    Appenders = {} => \A l \in Learnings :
        /\ reinf[l].outcomes =
              acked[l].outcomes + unheard[l].outcomes + Unreturned(l, "outcome")
        /\ reinf[l].corroborations =
              acked[l].corroborations + unheard[l].corroborations + Unreturned(l, "corroboration")

(* No operation waits for ever: an append or a record ends, with a result  *)
(* or with the lock's time-out, though its competitors never stop.         *)
OperationsEnd == \A p \in Procs : pc[p] \notin {"closed", "idle"} ~> pc[p] \in {"closed", "idle"}

=============================================================================
