------------------------------ MODULE Retrieval ------------------------------
(***************************************************************************)
(* Dreaming and searching beside a ledger that is being written.           *)
(* cortex_dream::run reads the ledger without a lock, in two reads, and    *)
(* publishes a snapshot of its most active learnings (cortex-active-       *)
(* memory); search_one (cortex-mcp) reads the snapshot, then the ledger,   *)
(* and while the snapshot covers every indexed block ranks the entries of  *)
(* the snapshot, and nothing else; otherwise all it read, with BM25.       *)
(* Every action of Ledger is an action here.                               *)
(***************************************************************************)
EXTENDS Ledger, FiniteSetsExt

CONSTANTS
    Dreamers,     \* processes that run the dreaming pass
    Searchers,    \* processes that answer search_learnings
    MaxSnapshots  \* bound: snapshots that may be written

ASSUME RetrievalAssumption ==
    /\ MaxSnapshots \in Nat
    /\ Dreamers # {} /\ Searchers # {}

VARIABLES
    snapshots,  \* the files active/active-<ts>.json, in the order written
    current,    \* active/current, as a position in snapshots; 0: no pointer
    dream,      \* each dreamer's step and what it has read
    search      \* each searcher's step and what it has read

retrieval == <<snapshots, current, dream, search>>
allVars   == <<vars, retrieval>>

(* ActiveMemory.  nodes and racing are history: the learnings the pass had *)
(* in its graph, and the blocks it read from an index whose append_block   *)
(* had not returned at that moment.                                        *)
Snapshot == [covers : SUBSET Hash, entries : SUBSET Learnings,
             nodes : SUBSET Learnings, racing : SUBSET BlockIds]
NoSnapshot == [covers |-> {}, entries |-> {}, nodes |-> {}, racing |-> {}]

Dream == [step : {"idle", "readReinf", "writeSnapshot", "advance"},
          snap : Snapshot, at : Nat]
NoDream == [step |-> "idle", snap |-> NoSnapshot, at |-> 0]

(* seen: what the search read of reinforcements.json; found: what it may   *)
(* answer with, when no filter of the query and no limit says otherwise.   *)
(* known is history: the blocks appended when the search began.            *)
Search == [step : {"idle", "readCurrent", "readReinf", "readIndex", "answered"},
           known : SUBSET BlockIds, at : Nat, seen : SUBSET Learnings,
           mode : {"none", "spectral", "bm25"}, found : SUBSET Learnings]
NoSearch == [step |-> "idle", known |-> {}, at |-> 0, seen |-> {},
             mode |-> "none", found |-> {}]

IndexHashes(ix) == {ix.blocks[i].hash : i \in DOMAIN ix.blocks}

(* default_top_k: a third of the nodes, at least one, at most fifty.       *)
TopK(n) == Min({50, Max({n \div 3, 1})})

(* The k entries with the largest projection weights: the weights come     *)
(* from an eigendecomposition, so any k of the nodes may be the ones.      *)
TopEntries(nodes) ==
    LET n == Cardinality(nodes) IN kSubset(Min({TopK(n), n}), nodes)

------------------------------------------------------------------------------
(* cortex_dream::run. *)

(* The index is read before reinforcements.json. *)
DreamReadIndex(d) ==
    /\ dream[d].step = "idle"
    /\ Len(snapshots) + Cardinality({e \in Dreamers : dream[e].step \notin {"idle", "advance"}})
         < MaxSnapshots
    /\ dream' = [dream EXCEPT ![d] =
          [NoDream EXCEPT !.step = "readReinf",
                          !.snap = [NoSnapshot EXCEPT !.covers = IndexHashes(index),
                                                      !.racing = IndexIds(index) \ appended]]]
    /\ UNCHANGED <<vars, snapshots, current, search>>

DreamReadReinforcements(d) ==
    /\ dream[d].step = "readReinf"
    /\ dream' = [dream EXCEPT ![d].step = "writeSnapshot",
                              ![d].snap.nodes = Registered(reinf)]
    /\ UNCHANGED <<vars, snapshots, current, search>>

(* Mutant: the hashes are those of an index read after reinforcements.json.*)
DreamClaimsLaterIndex(d) ==
    /\ dream[d].step = "writeSnapshot"
    /\ \E es \in TopEntries(dream[d].snap.nodes) :
          snapshots' = Append(snapshots, [dream[d].snap EXCEPT !.entries = es,
                                            !.covers = IndexHashes(index)])
    /\ dream' = [dream EXCEPT ![d].step = "advance", ![d].at = Len(snapshots')]
    /\ UNCHANGED <<vars, current, search>>

DreamWriteSnapshot(d) ==
    /\ dream[d].step = "writeSnapshot"
    /\ \E es \in TopEntries(dream[d].snap.nodes) :
          snapshots' = Append(snapshots, [dream[d].snap EXCEPT !.entries = es])
    /\ dream' = [dream EXCEPT ![d].step = "advance", ![d].at = Len(snapshots')]
    /\ UNCHANGED <<vars, current, search>>

(* The pointer is replaced by whoever comes last, not by whoever is newer. *)
AdvanceCurrent(d) ==
    /\ dream[d].step = "advance"
    /\ current' = dream[d].at
    /\ dream' = [dream EXCEPT ![d] = NoDream]
    /\ UNCHANGED <<vars, snapshots, search>>

(* The pass crashes, or fails, and may be run again. *)
DreamStops(d) ==
    /\ dream[d].step # "idle"
    /\ dream' = [dream EXCEPT ![d] = NoDream]
    /\ UNCHANGED <<vars, snapshots, current, search>>

------------------------------------------------------------------------------
(* search_one, for a query that is not empty. *)

BeginSearch(s) ==
    /\ search[s].step \in {"idle", "answered"}
    /\ search' = [search EXCEPT ![s] = [NoSearch EXCEPT !.step = "readCurrent",
                                                        !.known = appended]]
    /\ UNCHANGED <<vars, snapshots, current, dream>>

(* read_current: a snapshot file is never changed once it is written. *)
ReadCurrent(s) ==
    /\ search[s].step = "readCurrent"
    /\ search' = [search EXCEPT ![s].step = "readReinf", ![s].at = current]
    /\ UNCHANGED <<vars, snapshots, current, dream>>

SearchReadReinforcements(s) ==
    /\ search[s].step = "readReinf"
    /\ search' = [search EXCEPT ![s].step = "readIndex", ![s].seen = Registered(reinf)]
    /\ UNCHANGED <<vars, snapshots, current, dream>>

(* The snapshot's entries ranked by resonance: which of them have one      *)
(* above zero is up to the eigenvectors.  Without a snapshot to rank with, *)
(* all that was read, scored by BM25.                                      *)
Rankings(s, spectral) ==
    IF spectral THEN SUBSET (snapshots[search[s].at].entries \cap search[s].seen)
                ELSE {search[s].seen}

(* Mutant: whatever snapshot there is ranks the answer (B1). *)
AnswerTrustingSnapshot(s) ==
    LET spectral == search[s].at # 0
    IN  /\ search[s].step = "readIndex"
        /\ \E found \in Rankings(s, spectral) :
              search' = [search EXCEPT ![s].step = "answered", ![s].found = found,
                                       ![s].mode = IF spectral THEN "spectral" ELSE "bm25"]
        /\ UNCHANGED <<vars, snapshots, current, dream>>

UncoveredBlocks(snap) == IndexHashes(index) \ snap.covers

(* uncovered_blocks reads the index again; no block may be uncovered. *)
Answer(s) ==
    LET spectral == /\ search[s].at # 0
                    /\ UncoveredBlocks(snapshots[search[s].at]) = {}
    IN  /\ search[s].step = "readIndex"
        /\ \E found \in Rankings(s, spectral) :
              search' = [search EXCEPT ![s].step = "answered", ![s].found = found,
                                       ![s].mode = IF spectral THEN "spectral" ELSE "bm25"]
        /\ UNCHANGED <<vars, snapshots, current, dream>>

------------------------------------------------------------------------------

RetrievalInit ==
    /\ Init
    /\ snapshots = <<>>
    /\ current = 0
    /\ dream = [d \in Dreamers |-> NoDream]
    /\ search = [s \in Searchers |-> NoSearch]

RetrievalNext ==
    \/ Next /\ UNCHANGED retrieval
    \/ \E d \in Dreamers :
          \/ DreamReadIndex(d) \/ DreamReadReinforcements(d) \/ DreamWriteSnapshot(d)
          \/ AdvanceCurrent(d) \/ DreamStops(d)
    \/ \E s \in Searchers :
          BeginSearch(s) \/ ReadCurrent(s) \/ SearchReadReinforcements(s) \/ Answer(s)

RetrievalSpec == RetrievalInit /\ [][RetrievalNext]_allVars

------------------------------------------------------------------------------
(* Properties. *)

(* Snapshots, the pointer and what a pass or a search holds have a type;   *)
(* the pointer never names a snapshot that was not written.                *)
RetrievalTypeOK ==
    /\ snapshots \in Seq(Snapshot)
    /\ current \in 0 .. Len(snapshots)
    /\ dream \in [Dreamers -> Dream]
    /\ search \in [Searchers -> Search]

LearningsOf(ids) == UNION {b.learnings : b \in {c \in blocks : c.id \in ids}}
CoveredBy(snap) == {b.id : b \in {c \in blocks : c.hash \in snap.covers}}

(* impls.rs:380-381 (B1): "a stale snapshot would rank a frozen subset and *)
(* hide newer learnings".  Of the learnings tagged before it began a BM25  *)
(* search may return every one.  A spectral search does hide some, those   *)
(* outside the snapshot's top k and those that do not resonate, but none   *)
(* for being newer: the pass that made the snapshot had in its graph, and  *)
(* weighed, every learning the answer lacks, but for those of a block that *)
(* was half appended when the pass read the index.                         *)
AnswersAreCurrent ==
    \A s \in Searchers : search[s].step = "answered" =>
        IF search[s].mode = "bm25"
        THEN LearningsOf(search[s].known) \subseteq search[s].found
        ELSE LET snap == snapshots[search[s].at]
             IN  LearningsOf(search[s].known \ snap.racing) \ search[s].found \subseteq snap.nodes

(* A snapshot had the learnings of every block it lists in its graph,      *)
(* but for blocks whose append_block was running when the pass began.      *)
ClaimsAreBacked ==
    \A i \in DOMAIN snapshots :
        LearningsOf(CoveredBy(snapshots[i]) \ snapshots[i].racing) \subseteq snapshots[i].nodes

(* cortex-dream/src/lib.rs:55-56: "a block appended in between is then     *)
(* simply not claimed as covered, so the snapshot can only under-claim":   *)
(* without that exception.                                                 *)
SnapshotsOnlyUnderClaim ==
    \A i \in DOMAIN snapshots :
        LearningsOf(CoveredBy(snapshots[i])) \subseteq snapshots[i].nodes

=============================================================================
