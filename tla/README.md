# A TLA+ development of claude-cortex

claude-cortex gives coding sessions a memory: an append-only ledger of blocks of
learnings, a mutable side file that says how each learning has fared, snapshots
of the most central learnings, a store of conversation episodes, and a signed
audit journal. Its state is files. Nothing in it is a server that serialises
access: an MCP server, the hooks of every open session, batch jobs and scripts
run as separate processes on the same directories, take advisory locks on two
files, and rely on temp-file-and-rename for the rest.

That decides what is modelled here: which file is read and written when, under
which lock, from which copy, and what a process that stops half way leaves. File
contents are kept as far as a property tells them apart.

All paths below are relative to the repository. `store.rs`, `confidence.rs`,
`merkle.rs` and so on are in `crates/cortex-core/src/`.

## 1. Inventory

| Component | State | Operations | What is hard | What makes it correct |
|---|---|---|---|---|
| Ledger store (`store.rs`, `persist.rs`, `merkle.rs`, `hashing.rs`) | `index.json`, `blocks/`, `merkle.json`, `objects/`, `reinforcements.json`, two sentinel lock files | `open`, `append_block` (with `register_learnings`), `record_outcome`, `record_corroboration`, `verify_chain` | six writes per append under one lock, of which the last belongs to a file another lock guards; lock time-outs; crashes between writes; the race to lay out a new directory | the index is an append-only chain backed by block files; what was acknowledged stays |
| Confidence (`confidence.rs`, `store.rs:168-287`) | per learning: confidence, origin, corroboration count, outcomes | outcome, corroboration, relaxation at read time, reclassification | thresholds crossed by one kind of update and judged by another | promotion is earned, quarantine has a cause, disuse never crosses the prior |
| Spectral retrieval (`cortex-active-memory`, `cortex-dream`, `cortex-mcp/src/tools/impls.rs`) | `active/active-<ts>.json`, the `active/current` pointer | dreaming pass, `search_learnings` | two unlocked reads of a ledger under way, stale snapshots, pointer races | a search hides learnings for being outside the top entries of a snapshot, never for being newer than it |
| Audit journal (`cortex-audit`) | a JSONL journal; per handle: resident window, total, trusted keys | `recover`, `append`, `append_co_signed`, `verify`, `verify_at`, `head`, `read_range` | torn lines, lost tails, a second writer, window eviction | what is in memory is on disk; a clean verdict means one chain; pages are exact |
| Audit verifiers (`cortex-audit/src/lib.rs:182-487`) | streaming position, chunk, head | `verify_entries`, `verify_entries_at`, `verify_journal` | checks of a chunk run in another order than entry by entry | both give the same verdict |
| Episodic store (`cortex-episodic`, the hooks of `cortex-hooks`) | `episodic/manifest.json`, episode files, transcripts | `capture_tail`, the consolidating agent, `run_eviction` | every writer rewrites the whole manifest, with no lock; transcripts get truncated | no byte is captured twice or silently skipped; unconfirmed episodes stay |
| Handoff (`cortex-handoff`) | per root: handoff files named by their time stamp, `current` pointer | `record_handoff`, `read_current`, `list_handoffs`, `latest_for_session` | two sessions at once, a death between file and pointer, equal time stamps | the pointer names the newest handoff; a session finds its own |
| MCP server (`cortex-mcp`) | per server: its options, the ledgers it resolves to | start, the two routers, twelve tools | read tools and write tools choose their ledgers differently; short ids resolved and used in two reads; ledgers consulted one after another while others write | a read that finds nothing has looked everywhere, and misses only what a covering snapshot ranked out or a file that cannot be read holds; what was recalled is what is reinforced |
| PostToolUse hook (`cortex-hooks/src/bin/post_tool_use.rs`) | one dedup file for all sessions | `recently_fired`, `record_fire` | hooks of parallel calls share one temporary file name | no repeats within the window; no silence that is not owed |
| Key store, object store (`signing.rs`, `objects.rs`) | identity, private key, trusted keys, objects | `generate_keypair`, `add_trusted_key`, `sign_block_hash`, `verify_block_signature`, `store_learning` | two files per key pair, one written in place; unlocked read-modify-write | what is signed verifies; trust stays |
| Migration (`v2_compat.rs`, `cortex-migrate`) | a version 2 ledger, and every file of the destination | validate, migrate | no lock; dies and is run again; destination in use, or being laid out | `MIGRATION.json` means that it is done |
| Review queue (`scripts/cortex_review.py`, `consolidate_run.py`, `chat-consolidate.sh`) | queue directories, the marker `last-run`, the ledger | heartbeat, produce, approve, reject, approve-clean | commit, then move, by several without a lock; temporary files that writers share; tool errors, lost extractions and failed counts nobody reads | nothing queued is lost, or torn without an overlap; approved means committed; changes of the index are worked off |
| Monitor, retrieval-confidence log | history files | record, classify | unlocked rewrites | not modelled |
| Graph, similarity, spectral numerics | none | floating-point functions | not a protocol | not modelled |
| Export automation (`scripts/export-automation`) | none | browser, mail | external I/O | not modelled |

How they interact: the MCP server and the hooks call the ledger's operations in
their own processes. A dreaming pass and a search read `index.json` and
`reinforcements.json` while appends are under way. `SessionStart` reads
`reinforcements.json` to decide which episodes may go. PreCompact (asynchronous),
SessionEnd and SessionStart of several sessions share one episodic manifest.
Each session has an MCP server of its own; all of them, their PostToolUse hooks
and the batch jobs work on the same project and global ledgers. `cortex-migrate`
writes a destination that servers may already use. The consolidation scripts
write to the ledger through MCP tools. The audit journal is a library that a
host process embeds; nothing stops two hosts from opening one file.

## 2. Modules

| Module | Models | Extends / composes |
|---|---|---|
| `AppendLog` | the abstract promise of the block index: an append-only log without repeats | |
| `Ledger` | `store.rs`: processes, files, locks, crashes | instantiates `AppendLog` (`LogSpec`) |
| `MCLedger` | its deployments | `Ledger` |
| `Retrieval` | dreaming passes and searches beside the ledger; every action of `Ledger` is an action here | `Ledger` |
| `MCRetrieval` | its deployment and symmetry | `Retrieval` |
| `LedgerProofs` | theorems about `Ledger`: types, chain, durability, refinement; how its other files agree, and `reinforcements.json` under one of its locks; and about `Retrieval` | `Retrieval`, `TLAPS` |
| `Epistemic` | one learning's confidence and origin | |
| `EpistemicProofs` | theorems about `Epistemic` | `Epistemic`, `TLAPS` |
| `AuditJournal` | the durable audit ledger | |
| `MCAuditJournal` | its deployments | `AuditJournal` |
| `AuditProofs` | theorems about `AuditJournal` | `AuditJournal`, `TLAPS` |
| `AuditVerify` | the sequential and the streaming verifier over the same lines | |
| `VerifyProofs` | a theorem about `AuditVerify` | `AuditVerify`, `TLAPS` |
| `Episodic` | capture, consolidation, eviction | |
| `MCEpisodic` | symmetry | `Episodic` |
| `EpisodicProofs` | theorems about `Episodic` | `Episodic`, `TLAPS` |
| `Handoff` | the handoff store | |
| `Tools` | the MCP server's tools over several ledgers, by several servers | `Handoff` |
| `HookDedup` | the PostToolUse hook and its dedup file | |
| `Session` | sessions: tool calls, and a hook after each | composes `Tools` and `HookDedup` |
| `MCSession` | its deployments | `Session` |
| `SessionProofs` | theorems about handoffs, tool calls and hooks inside `Session` | `Session`, `TLAPS` |
| `Keys` | the key files beside a ledger | |
| `Migrate` | `cortex-migrate`, signed appends and `verify_chain` at one destination | `Keys` |
| `MCMigrate` | version 2 ledgers to migrate | `Migrate` |
| `MigrateProofs` | theorems about `Migrate` and `Keys` | `Migrate`, `TLAPS` |
| `ReviewQueue` | producers, reviewers and the heartbeat of the chat consolidation | |
| `MCReviewQueue` | its deployments | `ReviewQueue` |
| `ReviewProofs` | theorems about `ReviewQueue` | `ReviewQueue`, `TLAPS` |

One run looks at several deployments of a component: who uses it, for what, and
what is there at the start. `setup` is a variable that `Init` chooses from the
constant `Setups` and no step changes; `Appenders`, `Recorders`, `Fresh` and
`Seed` of Ledger, and the bounds of AuditJournal, are its fields (`pathless` of
Episodic, the options of the servers in Tools, the `source` of Migrate and the
participants and bounds of ReviewQueue are chosen the same way). A property that holds of some deployments only
says so in its premise: `CountersAreExact` of ledgers nobody appends to,
`AppendsAreRegistered` of existing ones nobody records to, `ReadableIsClean`,
`PagesAreExact` and `PinCatchesLoss` of journals with one writer (`Alone`).

An operator marked "Mutant" in a module is a plausible wrong version of the
definition that follows it. No behaviour uses it; it is there to show that the
property it is paired with (in PROJECT.json) would notice. Variables marked
"history" are not in the code: they remember what was promised to a caller, or
that two processes overlapped, for a property to speak of.

### Ledger

A file is a variable (`index`, `blocks`, `merkle`, `objects`, `reinf`), a read or
a write of one is an action, since every write is temp-file-and-rename
(`persist.rs`). `pc[p]` names the step a process is about to take and `job[p]`
holds its arguments and the copies it has read. `lock` holds the owner of each
sentinel lock.

| Action | Code |
|---|---|
| `Open`, `MakeIndex`, `CheckReinforcements`, `MakeReinforcements`, `Close` | `Ledger::open`, `ensure_layout`: existence test and write are separate, and unlocked |
| `LockIndex`, `LockReinforcements`, `LockTimeout` | `FileLock` with its deadline |
| `BeginAppend` ... `WriteIndex` | `append_block`: read index, block file, Merkle tree, index |
| `ReadReinforcements`, `StoreLearning`, `WriteReinforcements` | `register_learnings`, still under the index lock |
| `AppendReturns` | the appender is told: from here on its block counts as appended |
| `BeginRecord`, `ReadRecord`, `WriteRecord`, `RecordReturns` | `record_outcome`, `record_corroboration`; the rename of the file and the `Ok` the caller gets are two steps |
| `Abandon` | a crash, or an I/O error that returns early: what was written stays, locks are freed |

A block's hash is the tuple of what it covers, so equal hashes mean equal
contents. The Merkle tree is its set of leaves: root equality is leaf equality.

A process may stop between a rename and the return. What it wrote then counts,
though nobody was told: `unheard` (history) has those updates, and
`CountersAreExact` says that a counter is what was acknowledged, what went unheard,
and the one update whose writer is about to return.

### Retrieval

`DreamReadIndex`, `DreamReadReinforcements`, `DreamWriteSnapshot` and
`AdvanceCurrent` are `cortex_dream::run`; the search reads `current` and its
snapshot, then reinforcements, then the index. Only if every indexed block is
covered (`uncovered_blocks`) does it rank by the snapshot, and then the
snapshot's entries alone; otherwise BM25 scores all that was read (`Rankings`).
The graph and its eigenvector are an arbitrary choice of `TopK` learnings out of
those read: which ones are central is numeric, that only so many are kept is
not. Which of the entries resonate with the query is any subset of them.

So a covering snapshot does hide acknowledged learnings, those outside its
top k. `AnswersAreCurrent` states what is left: a BM25 answer can draw on
everything tagged before the search, and what a spectral answer lacks its
snapshot's pass had in its graph, and weighed. `nodes` (history) is what that
pass had in the graph.

### Epistemic

Confidence is an integer in units of 1/10000 and rounds down at each update. The
code uses `f64`; rates are multiples of 1/1000 there too. A property that
depended on the last digit would not carry over; those stated compare with
thresholds of two decimals, and none relies on equality at one. `Disuse` is one
half-life without an update. `CounterMax` stands for `u32::MAX`, so that
saturation is reached.

Three consequences of the rules show in the model and are not stated as
properties, for no document denies them: an outcome acts on the stored, not the
relaxed confidence, so a failure after long disuse can raise the effective one;
a success on an observed learning tagged below .25 quarantines it, as the
threshold is tested after any update; a repeatedly failed inference climbs back
to its prior by being left alone.

### AuditJournal

The journal is a sequence of lines, a line the sequence of pieces written to it:
`commit` writes line and newline in two calls (`WriteLine`, `WriteNewline`),
either of which may fail or stop inside. `Recover` is the whole of
`recover_with_cap_trusting`: it refuses a journal with an unreadable line or a
broken chain, and rebuilds window and total. The chunking inside recovery is
the subject of AuditVerify; the instances are shorter than one chunk.
`LoseTail` is a crash of the machine that drops what was not synced. `PinHead`
is the consumer recording `head()`; pins are taken along one chain, as a
consumer that only ever pins what it just verified does.

Signatures made with the ledger's own key are always valid in this module. A
recovery is given any set of agents' keys; an agent that co-signs is trusted by
that ledger from then on, also when the append fails (`lib.rs:736`). `acked`
(history) holds the entries whose append returned Ok, until the machine loses
them: what remains promised to a caller is what a pin can be asked to guard.

### AuditVerify

The journal is revealed line by line as it is read, each line being damaged in
any way (hash, link, signature, co-signature). `Checked` and `VerifyChunk` keep
the order of the code's checks within a chunk; `VerifyEntries` is the sequential
reference. Not modelled: a line that does not parse, which ends both with an
I/O error.

### Episodic

`transcript[s]` is a length. An episode's `captured_at` and UUID are one number,
as it is created. Every operation starts with `LoadManifest`, which is disabled
on a manifest `validate` refuses: the hook logs and exits, which changes
nothing. `job[p].manifest` is the copy it works on. The consolidating agent
(docs/episodic-consolidation-plan.md, "Consolidation procedure") is not part of
`crates/` and is external. `Crash` also stands for an I/O error that ends the
operation. `Age` moves the boundary of the TTL; the clock is monotone.

### Handoff, Tools, HookDedup, Session

A handoff is its time stamp, session, server and root. `BeginHandoff` takes the
stamp (`Handoff::new`), `WriteHandoff` and `WritePointer` are the two atomic
writes of `record_handoff`; `HandoffFails` stops between them. Stamps grow, but
two servers may get the same microsecond (`ties`).

In Tools, one write tool's effect on one ledger is one step (its inner steps are
Ledger's); the steps that are kept apart are those between ledgers, and between
the two reads of `reinforcements.json` of a tool that resolves a short id first.

| Action | Code |
|---|---|
| `Start` | `main.rs`: options, `parse_read_only_env`; an unknown value keeps the server down |
| `BeginRead`, `Consult` | the read tools: `read_candidates`, then one ledger after another until one answers; all but `get_handoff` open the ledger, which lays out its files |
| `Dream` | a dreaming pass over one ledger: its learnings, of which some become the snapshot's entries |
| `TagLearning` | `tag_learning` in `resolve_ledger`'s ledger |
| `BeginReinforce`, `Reinforce` | `record_outcome`, `record_corroboration`: `match_prefix`, then the update |
| `BeginTagHandoff`, `TagHandoffFile`, `TagHandoffPointer` | `tag_handoff` through Handoff |
| `Fail` | an I/O error, or the end of the session |

A search of a ledger whose snapshot `Covers` it answers from the snapshot's
entries, and of these from any part that resonates; a list of handoffs is without
the files that could not be read (`list_handoffs` skips them, and an older
handoff is the answer). `LeftOut` is what an answer lacks for either reason, and
the history `cut` of a call remembers it.

HookDedup has the dedup file and its one temporary name as inodes, since
`fs::write` on a name that another hook has just renamed writes into what is now
the real file. `RecentlyFired`, `RecordFire`, `OpenTmp`, `WriteTmp`, `Rename`,
`PrintNudge` are the steps of `build_directive` and `record_fire`; a write over
another hook's bytes may leave something that does not parse. The heuristics
that judge a tool's answer are one bit.

Session runs a hook after each tool call (`HookAfterCall`), which classifies the
tool and its answer, and hooks of other tools at any time (`HookAfterTool`).

### Keys and Migrate

A key file is missing, torn, or holds its key (the trusted ones: a set of keys).
A file that is renamed into place is one step; `.private_key` and what
`fs::copy` copies are two, with a torn file in between. A signature is the key id
that was read and the key that made it, which are read one after the other.

The key pairs are those that a source may have come with and those that are
generated or trusted here (`NewKeys`).

Whoever opens the destination lays it out first (`LookForIndex`, `MakeIndex`,
`LookForReinforcements`, `MakeReinforcements`), each test and each write being a
step of its own, with no lock: the same race as in Ledger, here with a migration
that writes the files in between. An opener that finds everything there does
nothing, and is not a step. What opens and then only reads is a writer for `raced`.

Migrate writes the destination in the order of `migrate` (`Steps`): keys, blocks,
index, reinforcements, objects (in whatever order their directory is read),
`MIGRATION.json`. A block is its id; its hash is
right or wrong, and for a learning without `created_at` depends on the run. The
same destination is appended to (`BeginAppend` ... `Register`, with the signing
steps of Keys; one at a time, as Ledger shows the lock ensures), and verified by
`verify_chain` block by block. `Die` ends any operation at any step, and a
migration can be run again.

### ReviewQueue

| Action | Code |
|---|---|
| `UpdateIndex`, `Heartbeat`, `Forced`, `Touch` | `chat-consolidate.sh`: index newer than the marker, `--force`, the marker touched after a run that exits 0 |
| `Extract` | extract, verify and gate; what the model answers is a choice, what the gate may answer depends on the ledger; a run of the model that fails or cannot be parsed is an empty list (`lost`), and the marker is touched all the same |
| `Emit`, `OpenTmp`, `WriteTmp`, `ReplaceItem` | `emit_review_item`: existence test; then open (and truncate) `<path>.tmp`, write it, `os.replace` it |
| `CountBefore`, `WriteDirect`, `VerifyDelta` | a run without `--review`, and its two counts of learnings |
| `Approve`, `ApproveClean`, `NextClean`, `Commit`, `Reject` | the verdicts of `cortex_review.py` |
| `Move`, `OpenTmp`, `WriteTmp`, `ReplaceFiled`, `Remove` | `_move`: read the item again, write the new file by way of its `.tmp`, remove the old |
| `Die` | any of them is killed |

All who write an item to one path write through one temporary name. `out[p]` says
what the file that `p` has open is by now: the temporary one, the one with the
final name (somebody has renamed it meanwhile), or none that has a name. A write
over another writer's text may leave a torn item, a rename takes whatever is in
the temporary file, and the second rename raises: a producer's run ends with
exit 1, a reviewer gives up an item it may have committed (`GivesUp`). The
histories `overlapped` (paths that two had open at once) and `clashes` (items
committed and not filed) are the exceptions of `QueueConserves` and
`VerdictsStand`: an item is torn only on an overlapped path, and every further
commit has a queueing, a fault or a clash to account for it.

A count is of the ledger that `ledger_stats` finds first, that of the project the
run is in (`setup.project`), while the learnings go to the global one; and one
that fails is 0. The report remembers whether a count was answered (`misread`).

A ledger tool that answers with an error returns an ordinary text, which no
caller looks at: `Call` may refuse, and the callers go on. The ledger is the set
of its learnings, each known by its claim and by how many of that claim there
were before it; the delta check counts them, the gate asks whether a claim is known.

## 3. Runs

Passing runs explore every state within the bounds. Deadlock is checked in all
of them except where the system may really stop: the audit journal's (one with a
torn line inside is refused by `recover` for ever), the verifiers' (verification
ends) and the sessions' (a server that refuses to start does nothing more).

| Run | Shows | Bounds |
|---|---|---|
| `ledger` | type, whole chain, durable and registered appends, exact counters; the files agree: orphans only by faults, `merkle.json` at most one block ahead, reinforcements never ahead of the index; the index implements `AppendLog` | 3 uuids, 2 learnings, one update of a kind each, 2 faults; five deployments: two processes append; two record, to two learnings; three record, to one; two append, of which one records; two open an empty directory and append |
| `ledger_live` | every operation ends, under fairness | 2 processes, one does both, the other records; no symmetry |
| `retrieval` | a BM25 answer can draw on everything tagged before the search; what a spectral one lacks its snapshot's pass had weighed, up to half-appended blocks; coverage claims are backed | 1 appender, 2 passes, 1 search, 1 fault |
| `epistemic` | the four properties of confidence and origin | 4 tagged confidences around the thresholds, 3 outcomes, counter of 4 |
| `audit_journal` | window, numbering and paging agree with the journal; a readable journal is one clean chain; a pinned head catches loss; what verifies clean is one chain though two ledgers write | window cap 1, so that it is evicted; three deployments: a co-signed chain of 4 entries with 1 fault; 3 entries of 2 records with 3 faults; 2 ledgers, 2 entries each, 1 fault |
| `audit_verify` | the streaming verifier's verdict is the sequential one's; with mis-numbered entries both accept the same; both agree on every pin | 4 entries in chunks of 3: a full and a partial chunk |
| `episodic` | no double capture, no skipped byte, unconfirmed files stay | 2 processes, 1 session with or without a path, 2 episodes, 1 crash, truncation |
| `session` | the pointer is the newest handoff but for races and faults; a read that finds nothing misses at most what a covering snapshot ranked out, an unreadable handoff or an ambiguous id; a session finds its handoff; what was recalled is what is reinforced; repeated nudges, unowed silence and broken dedup files need overlapping hooks | 2 servers, a project and the global root, 2 learnings with a short id in common, dreaming passes over them, 2 handoffs of 2 sessions, 1 tie, 1 fault (also an unreadable handoff); 2 hooks, 3 fires, a window of 2 in time 0 to 2, 1 hook fault; eight deployments |
| `migrate` | `MIGRATION.json` only over a complete migration; `verify_chain` reports only what is so; own signatures verify; trusted keys stay | 2 processes, each of which may be slow to lay the destination out, 2 runs, 1 appended block, 1 new key pair, 1 death; four version 2 ledgers: plain, with keys, with an undated learning, damaged (one block missing, one mismatched) |
| `review` | nothing queued is lost, and torn only where two had its temporary file open at once; approved means committed or refused; commits are bounded by queueings, faults and clashes, one reviewer gives one verdict; a direct run's two counts, where both are answered, are honest; changes of the chat index are worked off, under fairness, unless a lost extraction has touched the marker | 1 date, 1 tool error; seven deployments: a producer and two reviewers of one item, with 1 death; the same item queued twice, no death; two producers of one item and a reviewer, 1 death; one of each with two claims, 1 death; two producers, 1 index update, 2 deaths; a direct run with two claims, 1 death; a direct run in a project that has a ledger, 1 death |

Why these bounds are enough for the questions: a lost update, a fork and a
stale copy take two processes and one intermediate write; a third recorder
shows that the lock and not luck serialises; two faults allow a fault on top of
what an earlier one left; a window of cap 1 overflows at three entries, and four
make it overflow after a recovery. A short id is ambiguous from two learnings
on; two handoffs are the least that can be out of order. A rerun takes two runs,
and one death may fall into either. Two writers of a temporary file show every
way it can be torn, lost or renamed by the other. An item that is queued again, and a second
reviewer of the same item, are the two ways of a repeated commit.

`TypeOK` of AuditJournal (a part of what is proved), AuditVerify and Episodic and `RetrievalTypeOK` hold as
well and can be added to their configurations.

Two runs are expected to find a violation, each of a sentence the repository
writes about itself (PROJECT.json quotes it under "findings"); section 5 lists
what can be seen in the same way without a run of its own:

| Run | What happens |
|---|---|
| `ledger_lost_update` | `append_block` rewrites `reinforcements.json` under another lock than the recorders' and drops an acknowledged outcome |
| `migrate_rerun` | a migration that is run again replaces the destination's index and drops the blocks appended since |

### Fairness

`ledger_live` takes weak fairness of each process's own steps inside an
operation (`FairSpec`). The operating system keeps scheduling a running process;
nothing obliges one to begin an operation, and none to crash. No strong fairness
of lock acquisition is assumed: `fs2` gives no queue. That operations end anyway
is due to the time-out, which the mutant without it shows.

`review` takes weak fairness of each producer's `Heartbeat` (systemd fires the
timer every day) and of its own steps once it runs. Nobody has to review, and
deaths are bounded. `DeltasAreProduced` is stated for deployments whose index
changes only between runs (`setup.quiet`): a change during a run is overlooked by
design of the marker (section 5), so without that premise it fails. And a run whose
extraction failed touches the marker like one that found nothing; the property
says that the change is worked off or this has happened (`skipped`).

## 4. Proofs

All theorems are checked by TLAPS (SMT, Zenon, LS4) without assumptions beyond
the modules' named ones on constants: they hold for any number of processes,
blocks, learnings, sessions, faults and so on, where a run has a few. `Setups`
is a constant too, so a theorem covers every deployment, not only those run.

**Ledger** (`LedgerProofs`). `TypeCorrect` is the inductive type invariant
`TypeInv` (TypeOK, and jobs carry a uuid while a block is built); `TypesHold` is
TypeOK from it. `ChainAlwaysIntact`: `ChainIntact` is not inductive, because
`append_block` writes an index it holds in memory. `ChainInv` adds that every
held copy is intact and that a block is on disk before it is pushed
(`CopiesIntact`). No lock is needed for it, so the theorem also covers the
opening race. `AppendsAreDurable` and `LedgerImplementsLog` do need the lock and
an existing directory (`~Fresh` is their premise: the race of section 5 refutes
them for an empty one). `LogInv` says that who is between reading and writing
the index holds the lock (`LockHeld`), that its copy is the index on disk
(`CopiesCurrent`), that uuids in flight are new and differ, and that an index
never repeats one. As the deployment never changes (`SetupFixed`), what is
proved to be invariant is `ExistingLogInv`: `LogInv` if the ledger exists. Each
action is one step of that proof; `LogStep` then maps every step to
`AppendLog`'s `Add` or a stutter.

**The other files**, in the same module. `FilesAlwaysAgree` is `FilesAgree` of every
existing ledger, with appenders, recorders and faults together. It rests on whose
a block file is (`OwnInv`: until an `append_block` has written its block nobody
else knows its uuid, after that there is one file of it); on every copy of
`reinforcements.json` about to be written back naming indexed blocks only
(`IndexedInv`: an outdated copy is still one, as the index never shrinks); on
`merkle.json` being the tree of the copy whose index is written next
(`MerkleInv`); and counts orphans against faults (`OrphanInv`): only `Abandon`
makes one, and it costs a fault.

**Each lock is enough alone.** Two locks guard
`reinforcements.json`, and section 5 shows what that loses. `AppendsStayRegistered`
proves that nothing is lost without recorders: who registers holds the index
lock, so its copy is the file (`SnapsCurrent`), and no two blocks share a
learning (`ArgsDisjoint`, `BlocksOwn`). `CountersStayExact` proves the same
without appenders, up to the updates whose writer died between the rename and its
return, and the one that is there now (`Exact`; the lock is held until the return,
`RecordLockHeld`), also while the directory is being laid out
(`FreshIsEmpty`: what `MakeReinforcements` overwrites has nothing in it, for
nobody records before the file exists).

**Retrieval** (in `LedgerProofs` too: every step of Retrieval is one of Ledger or
leaves the ledger alone; the theorems about Ledger use nothing of Retrieval).
`ClaimsStayBacked`
and `AnswersStayCurrent`, on an existing ledger nobody records to (`Quiet`): with
a recorder beside an appender the lost registration of section 5 takes learnings
from searches, which the run avoids by its deployment and the theorems by their
premise. `ClaimInv` follows a claim from index to answer: hashes a pass read are
of blocks whose append has returned or was under way (`DreamsClaim`), it has the
learnings of the former (`DreamsHold`), and so has the snapshot (`SnapshotsHold`);
a search that found nothing uncovered then has every block it knew at its
beginning covered by the snapshot, whose pass had their learnings in its graph,
whichever of them it kept; and one that ranks by BM25 has read them all
(`SearchesHold`). The order of the two reads, index
first, is what `DreamsHold` needs, as the code's comment says; that the
exception `racing` cannot be dropped is in section 5.

**Audit journal** (`AuditProofs`), for every window cap and every number of
ledgers, entries, agents and faults. Two properties hold of every deployment and
rest on `JournalInv`: every piece of a line is of an entry whose hash covers its
position, record and predecessor (`JournalHonest`), each ledger's window is the
linked and numbered end of the chain it knows (`WindowOK`), and the entry it is
committing follows on that (`Follows`). `WindowAlwaysTail` is a part of it;
`CleanAlwaysOneChain` needs honest hashes only, for a chain that begins at
Genesis has one entry for each position its last hash covers. The other three
are of a journal with one ledger (`AloneInv`). `SoloInv` says that no line but
the last is blank (`NoBlanks`), that whole lines are chained as far as the
journal can be read (`Chained`), and how the ledger's memory relates to the file
at each step (`Fits`: at a blank last line it goes on from the line before, what
it keeps is what the journal's readable lines hold, and everything acknowledged
is in both). `PinCovers` adds
that a pinned hash covers what was acknowledged at it, so a chain that ends in
that hash contains it. `ReadRange` and `EntriesOf` select lines by position:
`Kept` is defined with a count, not recursively, and the lemmas at the top of
the module say what it selects.

**Epistemic** (`EpistemicProofs`), for every set of tagged confidences, every
counter width and number of updates: confidence stays in [0, 1]
(`ConfidenceIsBounded`), `ValidationIsEarned`, `QuarantineNeedsFailure`,
`DisuseNeverCrosses`. The inductive invariant `IInv` adds to the four properties
that a learning that never failed has not fallen below what it was tagged with
(`NeverFailedHasRisen`): without it a success could start from a confidence
under the contest threshold.

**Episodic** (`EpisodicProofs`): the three properties of the run, without a
premise. There is no lock to lean on: a manifest that a hook writes back may lack
what others wrote since. What holds is that a copy is outdated but never wrong
(`CopiesSound`): of its own watermark and its own episodes it says only what is
so, whatever was recorded elsewhere meanwhile (`SoundStays`: fates, transcripts
and episode files only grow or, once promoted, go). So each write restores an
older truth, and the properties, which speak of one manifest, survive. Episode
names that are never used again are needed for that (`WriteEpisodeInv`).

**Audit verifiers** (`VerifyProofs`), for every chunk size, every journal and
every damage to its lines. `AlwaysVerifiersAgree` rests on `ChunkVerdict`: what
`VerifyChunk` reports of a chunk whose entries are numbered upwards, though it
tests all hashes and links first, then the author's signatures as one batch, then
the agents', is the first failure of the entry-by-entry `VerifyStep`; and of any
chunk, it is clean exactly if every entry is. `StreamVerdict` carries that over
the chunk's edge. `StreamInv` says where the stream is: the entries in the chunk
are the last ones revealed (`Joins`), head and predecessor are those of the
entries already verified, and these were clean or the verdict is out (`Agrees`).

**Review queue** (`ReviewProofs`). `AlwaysQueueConserves`: `_move` writes the new
file before it removes the old one, so what is about to be removed is filed
(`RemovedAreFiled`), and items that several reviewers hold are filed by the first
of them. `AlwaysApprovedIsCommitted`: who moves an item to `approved` has called
the ledger (`MovedAreCommitted`). `AlwaysTypeOK` is their ground: a file may be
empty or torn, but what a process commits or files is an item (`TaskAt`). That
files are whole where nobody overlapped is `PathsOK`: a path that no two had open
at once has one writer, whose temporary file nobody else renames. Where two did,
an item may be torn and is there nevertheless: a rename puts something in its
place, and who still writes to what has got its final name writes to a file that
is there (`OutOK`).

`AlwaysVerdictsStand` bounds how often an item is committed. It is not inductive:
between two commits of an item no count changes. `Quota` counts opportunities:
commits so far, and one more for each reviewer who may still commit while the
item is queued (`Open`), are at most one round of all reviewers per queueing, and
one per fault and per clash, since a reviewer that dies, or whose rename raises,
forgets what it has committed. For one reviewer without either `Judged` follows an item that was queued once from
pending through commit and move to where it stays.

`AlwaysDeltaIsHonest`: with one participant at work (`Solo`) whose counts are
answered, the learnings of the ledger that is counted are those counted at the
start of its run and those it has tagged since, or fewer if a call failed; if
another ledger is counted, they do not change (`Exact`). So a run whose count
agrees has lost none.

**Sessions** (`SessionProofs`), for the whole of `Session`: every tool of every
server, with hooks beside them.

- `AlwaysCurrentIsLatest`: a pointer, and a write of one under way, names a file
  (`PointersAreNamed`, `WritersAreNamed`); no file is of a later time than now
  (`StampsArePast`); and without a fault a newer handoff than the pointer's is one
  that overlapped (`Orderly`).
- `AlwaysNothingIsMissed`, `AlwaysSessionFindsItsHandoff` and
  `AlwaysReinforcedIsRecalled` follow a call from its beginning to its answer
  (`CallInv`). A call still consulting ledgers has its answer ahead of it or what
  it knew at the start is in a ledger it has not read yet (`Awaits`), as tagged
  learnings and handoffs only grow (`Grows`); what a reinforcement holds is what
  its server would recall for the same reference (`Reinforces`), and what was
  recalled stays so (`Recalls`). What a covering snapshot ranked out, or a file that
  could not be read held, is excused when the answer passes it over (`Exempt`,
  `LeftOut`), and nothing else of what is `Findable`. For handoffs, `RecordedInv` says that with
  different stamps every recorded handoff has a file of its own and its root a
  pointer.
- `AlwaysSilenceIsOwed`: an entry of the dedup file, of its temporary files and
  of the copies hooks hold is of a nudge that was printed or is about to be
  (`OwesInv`), so who stays silent over it owes the silence to a nudge.
  `AlwaysFileIsWhole` and `AlwaysRepeatsAreRaces` are about hooks that never
  overlapped (`SoloInv`, `SpacedInv`): the file parses, nudges of one key are a
  window apart, and every nudge younger than that is in the file
  (`NudgesAreKnown`).

**Migrate and Keys** (`MigrateProofs`). The four invariants of the run have one
inductive invariant, `MigrateInv` (`MigrateAlwaysSound`); that a step keeps it is
a lemma for each of its parts:

- `TypeInv` has, beside the types, what a process holds at the step it is about
  to take (`Task`): the key files it has left to copy are in their order, and are
  ones the source has. `LaidOut`: who appends, migrates or verifies finds the
  index and the reinforcements there, though perhaps emptied by a slow opener.
- `TrustInv`, for `TrustIsAlwaysKept`: unless `trustRaced`, one process at a time
  changes the trusted keys, and the copy it will write back, or the source it
  copies from, has every key that was granted.
- `PairInv`, for `SignaturesAlwaysVerify`: unless `mixed` or `replaced`, one
  process at a time writes the pair, and what the two files hold follows from how
  far it is (`Generated`, `CopiedPair`); when nobody is, they agree (`Settled`).
  A key id that was read is then the id of the only pair there is (`InPlace`),
  so that the two reads of a signer cannot see two pairs (`OneKey`), though both
  files may be torn between them. Half a pair in the source counts as `mixed`.
- `ChainInv`, for `ReportsAreAlwaysTrue`: every index that is on disk, held by an
  appender or being verified names blocks that have a file, with the hash their
  content has in every run (`Canon`) unless `stale`; a migration that is past its
  blocks has written all of them (`Follows`). Blocks are never removed, and so a
  verifier's outdated index stays true.
- `CopyInv` and `IndexInv`, for `MigrationIsAlwaysComplete`: a migration past a
  step has done it (`Copies`, `Reads`), its audit file is past all of them, and
  nothing undoes it: a file that is there may be torn but is not removed; unless
  `raced`, there is one writer or there are openers only, so an appender extends the
  index on disk (its copy is that index), a rerun writes the same ids again, and
  from the audit file on nobody is still opening (`NoneOpens`).

Only model-checked is liveness (`OperationsEnd`, `DeltasAreProduced`): the prover
has no rules for fairness and ENABLED.

## 5. Where code and documents differ

The models follow the code. Two differences have a run of their own (section 3).
The others were met while modelling and are in PROJECT.json under "findings",
with their lines. Some have a definition that states the repository's sentence;
put in place of the INVARIANT and PROPERTY lines of the configuration, TLC shows
how it fails:

| Definition | Configuration | What happens |
|---|---|---|
| `SnapshotsOnlyUnderClaim` | `MCRetrieval.cfg` | a pass reads the index after an append has written it and the reinforcements before the append registers (or died before): the snapshot claims a block whose learnings it lacks |
| `MemoryIsOnDisk` | `MCAuditJournal.cfg` | a journal that was flushed and not synced loses its end when the machine stops, and a second torn line hides the first |
| `FailureNeverPromotes` (PROPERTY) | `Epistemic.cfg` | the rehabilitation rule does not look at the outcome's result |
| `ManifestLoads` | `MCEpisodic.cfg` | the latest episode is pruned before an older one: the manifest is refused from then on |
| `NeverOverwritten` | `MCSession.cfg` | two handoffs of one microsecond have one file |
| `RecalledCanBeReinforced` | `MCSession.cfg` | without a project, read tools look in the working directory's ledger first, write tools in the global one |
| `ReadOnlyLeavesFiles` (PROPERTY) | `MCSession.cfg` | a read tool opens, and so lays out, a ledger that is not there |
| `TornKeyIsFilled` | `MCMigrate.cfg` | the private key is written in place: a death leaves a file that can neither sign nor be generated again |
| `BulkIsNovel` | `MCReviewQueue.cfg` | approve-clean goes by what was novel when the item was queued |

Without a definition, or with one that states what does hold:

- `store.rs:4-5` says "a crash never leaves an orphan block". A crash between the
  block file (140) and the index (152) leaves one; `OrphansAreFaults`, a part of
  `FilesAgree`, states what does hold.
- `ensure_layout` (`store.rs:43`) takes no lock: of two processes that open an
  empty directory, the slower one may reset an index the other has appended to.
  `DurableAppends` is stated for existing ledgers for that reason.
- The same race loses what a migration wrote: an opener that found no index and
  writes its empty one after `MIGRATION.json` is there (`raced` in
  `MigrationIsComplete`).
- `docs/episodic-consolidation-spec.md:80` says newly promoted learnings appear
  in the regenerated snapshot; `build_active_memory`
  (`cortex-active-memory/src/lib.rs:125`) keeps the top k, a third of them at most. A search ranks these alone as long as the
  snapshot covers every block, and finds none of the others; what `AnswersAreCurrent`
  and `NothingIsMissed` say is that this, and no stale snapshot, is what hides a
  learning.
- `cortex-audit/src/lib.rs:688-689` says a failed append is not recorded. When the
  line is written and its newline fails (771), the next recovery has the entry.
- `cortex-audit/src/lib.rs:332-333` says `verify_chunk` is identical to a
  sequential pass. With an entry whose number is an earlier one's, it reports
  another failure; both refuse the journal, which is what `VerifiersAgree` says
  of such entries.
- `README.md:9` says confidence decays so that old guidance fades. Relaxation
  (`confidence.rs:205`) is towards the origin's prior, so disuse raises a
  confidence below it.
- `pre_compact.rs:3-4` says nothing is lost at a truncation. Overlapping captures
  (`capture.rs:91`) overwrite each other's manifest; what the first captured is
  lost if the transcript is truncated before the next capture.
- `capture.rs:19-20` says a capture without a path happens once per session. Its
  guard (60) tests a watermark that such a capture leaves at 0.
- `server.rs:202-204` says `get_handoff` returns the most recent handoff. The
  pointer is the one written last: of two that overlap the older may be it, and
  after a death before `cortex-handoff/src/lib.rs:167` the one before.
- `impls.rs:257` says of an ambiguous prefix "refuse to guess". `get_learning` takes
  the refusal for no match and asks the next ledger.
- `impls.rs:423` says contested learnings are quarantined from retrieval;
  `recall_one` (304) renders them.
- `main.rs:15-16` of cortex-mcp says tools without a project fall back to the
  global ledger; the read tools try the working directory's first.
- `post_tool_use.rs:20-28` promises suppression within the window and an atomic
  update. All hooks write one temporary file, and read before any of them
  records: nudges are repeated, and a garbled file counts as none. `RepeatsAreRaces`
  and `SilenceIsOwed` state that overlap is the only cause. The comment at 312
  says an hour; the code keeps eight.
- `cortex-migrate` takes no lock: an append under way writes its index over the
  migrated one (`raced` in `MigrationIsComplete`). A learning without `created_at`
  gets another hash in each run (`main.rs:228`; `stale` in `ReportsAreTrue`).
  Blocks are announced to be re-signed (207-209) and are not, and the block
  hashes that `MIGRATION.json` is said to record are printed only.
- `cortex_review.py:97` takes a tool's error for a commit: such an item is moved to
  `approved` (`refused` in `ApprovedIsCommitted`).
- `chat-consolidate.sh:52` touches the marker at the end of a run: a change during
  it is skipped until the next one. It does so, against line 48, also when the
  extraction failed: `consolidate_run.py:53-72` takes a model that could not be run,
  or whose answer is not JSON, for one that found nothing (`skipped` in
  `DeltasAreProduced`).
- `consolidate_run.py:37` says an item is dropped atomically. All writers of an item
  share one temporary name (46): two at once can publish a torn or empty item, and the
  second rename raises (`overlapped`, `clashes`; `QueueConserves` and
  `DuplicatesAreFaults` say that overlap is the only cause).
- `consolidate_run.py:14` says the count is an independent check. It counts the ledger
  of the project it runs in, if there is one, while the learnings go to the global
  one, and a count that fails is 0 (226): `DeltaIsHonest` says what is left of it.

## 6. Not modelled

- Floating-point computation: graph, similarity, spectral. Of the eigenvector the
  model keeps that `TopK` entries are chosen and that only they are ranked, not which.
- The monitor (`cortex-monitor`): a classification of numbers, over a history
  that one dreaming pass at a time rewrites.
- The retrieval-confidence log (`cortex-confidence`): a file that a command a
  person runs reads, changes and writes; that an update can be lost is plain.
- `ObjectStore::get`, `list_all`, `delete`: nobody who keeps state calls them.
- The text of prompts, of the context `SessionStart` prints and of the answers of
  tools; JSON-RPC framing and argument parsing.
- SHA-256, Merkle paths and signature schemes: a hash is what it covers, a
  signature is the key that made it.
- The scripts that export chats: a browser and a mail box.
- What a transcript says: in Episodic it is a length, so one that is truncated
  and grows past its old watermark (`capture.rs:50`) is not told from one that
  only grew.

## 7. Plan

Done: `AppendLog`, `Ledger`, `Retrieval`, `AuditJournal`, `AuditVerify`,
`Epistemic`, `Episodic`; then `ReviewQueue`, `Handoff`, `Tools`, `HookDedup`,
`Session`, `Keys`, `Migrate`; and the modules of proofs. What was planned as
a verifier process beside the ledger is a part of Migrate, whose destination has
every writer that a verification can meet.

Left, models: a second generation of a transcript in Episodic; `merkle.rs`'s
inclusion proofs against a reference over small leaf sequences.

Left, theorems: every safety property of the runs has one. What could be added
is a theorem for each of them without its exceptions, on a narrower premise that
makes them unnecessary, as `Quiet` is for Retrieval.

## 8. Running

```
tlc -workers 2 -config MCLedger.cfg MCLedger.tla
tlapm LedgerProofs.tla
```

The proof modules need minutes each. PROJECT.json lists every run with its module and configuration, the
mutants, the source lines each definition stands for, the findings, the hazards
of the code and the theorems.
