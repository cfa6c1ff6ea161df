------------------------------ MODULE Episodic ------------------------------
(***************************************************************************)
(* The episodic store (crates/cortex-episodic and the hooks of             *)
(* crates/cortex-hooks that drive it).  PreCompact (asynchronous) and      *)
(* SessionEnd record the byte range of a transcript's new tail as an       *)
(* episode; a consolidating agent promotes episodes into ledger blocks;    *)
(* SessionStart prunes the episodes whose blocks are confirmed or that are *)
(* too old.  Each of them reads manifest.json, works on its copy and       *)
(* writes it back; no lock is taken.                                       *)
(***************************************************************************)
EXTENDS Naturals, FiniteSets, FiniteSetsExt

CONSTANTS
    Procs,        \* processes that run the hooks
    Sessions,     \* Claude Code sessions
    Blocks,       \* ledger blocks an episode may be promoted into
    MaxLen,       \* bound: length of a transcript
    MaxEpisodes,  \* bound: episodes written
    MaxCrashes    \* bound: operations that end early

ASSUME EpisodicAssumption ==
    /\ MaxLen \in Nat /\ MaxEpisodes \in Nat /\ MaxCrashes \in Nat

VARIABLES
    pathless,    \* the sessions whose hooks are given no transcript path
    transcript,  \* length of each session's transcript file
    manifest,    \* manifest.json
    files,       \* the episode files on disk, by episode
    written,     \* every episode written so far
    confirmed,   \* blocks with a Success outcome in reinforcements.json
    expired,     \* episodes up to this one are older than TTL_DAYS
    pc,          \* what each process does
    job,         \* its copy of the manifest and what it is about
    promotions,  \* what the agent has recorded: an episode and its blocks
    truncated,   \* sessions whose transcript has been truncated
    crashes      \* operations that ended early so far

vars == <<transcript, manifest, files, written, confirmed, expired, pc, job, pathless, promotions, truncated, crashes>>

Status == {"unconsolidated", "pending_confirmation", "evictable"}

(* captured_at and the UUID in one: episodes are numbered as created.      *)
Episode == [id : 1 .. MaxEpisodes, session : Sessions, from : 0 .. MaxLen, to : 0 .. MaxLen,
            status : Status, promoted : SUBSET Blocks]

Manifest == [through : [Sessions -> 0 .. MaxLen], episodes : SUBSET Episode]
EmptyManifest == [through |-> [s \in Sessions |-> 0], episodes |-> {}]

EpisodesOf(m, s) == {e \in m.episodes : e.session = s}
Ids(es) == {e.id : e \in es}

(* EpisodeManifest::validate: the latest episode of a session, if it has   *)
(* one, ends at its watermark.                                             *)
Validates(m) ==
    /\ \A e \in m.episodes : e.from <= e.to
    /\ \A s \in Sessions : EpisodesOf(m, s) # {} =>
         \E e \in EpisodesOf(m, s) :
            e.id = Max(Ids(EpisodesOf(m, s))) /\ e.to = m.through[s]

NoEpisode == [id |-> 0]
JobOf(op, s, m) == [op |-> op, session |-> s, manifest |-> m, episode |-> NoEpisode]
NoJob == JobOf("none", CHOOSE s \in Sessions : TRUE, EmptyManifest)

Goto(p, label) == pc' = [pc EXCEPT ![p] = label]
Return(p) == Goto(p, "idle") /\ job' = [job EXCEPT ![p] = NoJob]

------------------------------------------------------------------------------
(* capture_tail. *)

(* load_manifest, the first call of every operation; an invalid manifest   *)
(* is an error and ends it (a hook logs it and exits).                     *)
LoadManifest(p, op, s, next) ==
    /\ pc[p] = "idle"
    /\ Validates(manifest)
    /\ job' = [job EXCEPT ![p] = JobOf(op, s, manifest)]
    /\ Goto(p, next)
    /\ UNCHANGED <<transcript, manifest, files, written, confirmed, expired, pathless, promotions, truncated, crashes>>

BeginCapture(p, s) == LoadManifest(p, "capture", s, "capture")

(* Mutant: a session's transcript is captured from its start again. *)
TailFromStart(s, through) ==
    IF s \in pathless THEN {r \in {<<0, 0>>} : through = 0}
    ELSE {r \in {<<0, transcript[s]>>} : transcript[s] > through}

Tail(s, through) ==
    LET from == IF transcript[s] < through THEN 0 ELSE through
    IN  IF s \in pathless THEN {r \in {<<0, 0>>} : through = 0}
        ELSE {r \in {<<from, transcript[s]>>} : transcript[s] > from}

NothingNew(p) ==
    /\ pc[p] = "capture"
    /\ Tail(job[p].session, job[p].manifest.through[job[p].session]) = {}
    /\ Return(p)
    /\ UNCHANGED <<transcript, manifest, files, written, confirmed, expired, pathless, promotions, truncated, crashes>>

WriteEpisode(p) ==
    LET s == job[p].session
    IN  \E r \in Tail(s, job[p].manifest.through[s]) :
            LET e == [id |-> Cardinality(written) + 1, session |-> s, from |-> r[1], to |-> r[2],
                      status |-> "unconsolidated", promoted |-> {}]
            IN  /\ pc[p] = "capture"
                /\ Cardinality(written) < MaxEpisodes
                /\ written' = written \cup {e}
                /\ files' = files \cup {e.id}
                /\ job' = [job EXCEPT ![p].episode = e]
                /\ Goto(p, "save")
                /\ UNCHANGED <<transcript, manifest, confirmed, expired, pathless, promotions, truncated, crashes>>

(* Mutant: the watermark is the larger of the two, the episodes its own.   *)
CapturedAtLeast(m, e) ==
    [through |-> [m.through EXCEPT ![e.session] = Max({e.to, manifest.through[e.session]})],
     episodes |-> m.episodes \cup {e}]

Captured(m, e) ==
    [through |-> [m.through EXCEPT ![e.session] = e.to], episodes |-> m.episodes \cup {e}]

SaveCapture(p) ==
    /\ pc[p] = "save"
    /\ manifest' = Captured(job[p].manifest, job[p].episode)
    /\ Return(p)
    /\ UNCHANGED <<pathless, transcript, files, written, confirmed, expired, promotions, truncated, crashes>>

------------------------------------------------------------------------------
(* The consolidating agent: it reads the manifest, promotes what a pending *)
(* episode is worth, and writes it back.                                   *)

BeginConsolidate(p) ==
    /\ \E e \in manifest.episodes : e.status = "unconsolidated"
    /\ LoadManifest(p, "consolidate", NoJob.session, "consolidate")

Consolidate(p) ==
    \E e \in job[p].manifest.episodes, bs \in SUBSET Blocks :
        /\ pc[p] = "consolidate"
        /\ e.status = "unconsolidated"
        /\ manifest' = [job[p].manifest EXCEPT !.episodes = (@ \ {e}) \cup
                          {[e EXCEPT !.status = "pending_confirmation", !.promoted = bs]}]
        /\ promotions' = promotions \cup {[id |-> e.id, blocks |-> bs]}
        /\ Return(p)
        /\ UNCHANGED <<transcript, files, written, confirmed, expired, pathless, truncated, crashes>>

------------------------------------------------------------------------------
(* run_eviction: reconcile_eviction, then prune_evictable.                 *)

BeginEvict(p) == LoadManifest(p, "evict", NoJob.session, "reconcile")

(* Mutant: an episode nobody has consolidated has nothing to confirm. *)
MayGoAny(e) == e.id <= expired \/ e.promoted \subseteq confirmed

MayGo(e) ==
    /\ e.status = "pending_confirmation"
    /\ e.id <= expired \/ e.promoted \subseteq confirmed

Reconcile(p) ==
    /\ pc[p] = "reconcile"
    /\ job' = [job EXCEPT ![p].manifest.episodes =
                 {IF MayGo(e) THEN [e EXCEPT !.status = "evictable"] ELSE e : e \in @}]
    /\ Goto(p, "prune")
    /\ UNCHANGED <<transcript, manifest, files, written, confirmed, expired, pathless, promotions, truncated, crashes>>

Evictable(m) == {e \in m.episodes : e.status = "evictable"}

RemoveFile(p) ==
    \E e \in Evictable(job[p].manifest) :
        /\ pc[p] = "prune"
        /\ e.id \in files
        /\ files' = files \ {e.id}
        /\ UNCHANGED <<transcript, manifest, written, confirmed, expired, pc, job, pathless, promotions, truncated, crashes>>

(* When every file is gone the entries go too; without any nothing is      *)
(* saved.                                                                  *)
SavePruned(p) ==
    LET gone == Evictable(job[p].manifest)
    IN  /\ pc[p] = "prune"
        /\ Ids(gone) \cap files = {}
        /\ manifest' = IF gone = {} THEN manifest
                       ELSE [job[p].manifest EXCEPT !.episodes = @ \ gone]
        /\ Return(p)
        /\ UNCHANGED <<transcript, files, written, confirmed, expired, pathless, promotions, truncated, crashes>>

------------------------------------------------------------------------------
(* The surroundings. *)

Talk(s) ==
    /\ s \notin pathless
    /\ transcript[s] < MaxLen
    /\ transcript' = [transcript EXCEPT ![s] = @ + 1]
    /\ UNCHANGED <<manifest, files, written, confirmed, expired, pc, job, pathless, promotions, truncated, crashes>>

(* Once per transcript is the bound.                                       *)
Truncate(s) ==
    /\ s \notin truncated /\ truncated' = truncated \cup {s}
    /\ \E n \in 0 .. transcript[s] : n < transcript[s] /\ transcript' = [transcript EXCEPT ![s] = n]
    /\ UNCHANGED <<manifest, files, written, confirmed, expired, pc, job, pathless, promotions, crashes>>

Confirm(b) ==
    /\ confirmed' = confirmed \cup {b}
    /\ UNCHANGED <<transcript, manifest, files, written, expired, pc, job, pathless, promotions, truncated, crashes>>

Age ==
    /\ expired < Cardinality(written)
    /\ expired' = expired + 1
    /\ UNCHANGED <<transcript, manifest, files, written, confirmed, pc, job, pathless, promotions, truncated, crashes>>

(* The process dies, or an I/O error ends what it does.                    *)
Crash(p) ==
    /\ crashes < MaxCrashes /\ crashes' = crashes + 1
    /\ pc[p] # "idle"
    /\ Return(p)
    /\ UNCHANGED <<transcript, manifest, files, written, confirmed, expired, pathless, promotions, truncated>>

Init ==
    /\ transcript = [s \in Sessions |-> 0]
    /\ manifest = EmptyManifest
    /\ files = {} /\ written = {}
    /\ confirmed = {} /\ expired = 0
    /\ pc = [p \in Procs |-> "idle"] /\ job = [p \in Procs |-> NoJob]
    /\ pathless \in SUBSET Sessions
    /\ promotions = {} /\ truncated = {} /\ crashes = 0

Step(p) ==
    \/ \E s \in Sessions : BeginCapture(p, s)
    \/ NothingNew(p) \/ WriteEpisode(p) \/ SaveCapture(p)
    \/ BeginConsolidate(p) \/ Consolidate(p)
    \/ BeginEvict(p) \/ Reconcile(p) \/ RemoveFile(p) \/ SavePruned(p)
    \/ Crash(p)

Next ==
    \/ \E p \in Procs : Step(p)
    \/ \E s \in Sessions : Talk(s) \/ Truncate(s)
    \/ \E b \in Blocks : Confirm(b)
    \/ Age

Spec == Init /\ [][Next]_vars

------------------------------------------------------------------------------
(* Every variable has its type, and every byte range is one.               *)
TypeOK ==
    /\ transcript \in [Sessions -> 0 .. MaxLen]
    /\ manifest \in Manifest
    /\ files \subseteq 1 .. MaxEpisodes /\ written \subseteq Episode
    /\ \A e \in written : e.from <= e.to
    /\ confirmed \subseteq Blocks /\ expired \in 0 .. MaxEpisodes
    /\ pc \in [Procs -> {"idle", "capture", "save", "consolidate", "reconcile", "prune"}]
    /\ \A p \in Procs : /\ job[p].session \in Sessions
                        /\ job[p].manifest.episodes \subseteq Episode
                        /\ pc[p] = "save" => job[p].episode \in written
    /\ promotions \subseteq [id : Ids(written), blocks : SUBSET Blocks]
    /\ pathless \subseteq Sessions /\ truncated \subseteq Sessions /\ crashes \in 0 .. MaxCrashes

(* An episode's file is gone only when the agent had promoted what it is   *)
(* worth and the blocks are confirmed or the episode is older than         *)
(* TTL_DAYS, whoever else rewrites the manifest meanwhile                  *)
(* (reconcile_eviction, prune_evictable).                                  *)
UnconfirmedStay ==
    \A e \in written : e.id \notin files =>
        \E r \in promotions : r.id = e.id /\ (r.id <= expired \/ r.blocks \subseteq confirmed)

(* However captures overlap, no byte of a transcript that has not been     *)
(* truncated is in two episodes of the manifest (the watermark of          *)
(* capture_tail).                                                          *)
NoDoubleCapture ==
    \A d, e \in manifest.episodes :
        /\ d.session = e.session /\ d # e
        /\ d.session \notin truncated
        => d.to <= e.from \/ e.to <= d.from

(* A byte below the watermark is never captured again, so it must not have *)
(* been dropped: it is in an episode of the manifest, or in one whose file *)
(* has been pruned, although whole manifests overwrite each other.         *)
WatermarkIsCovered ==
    \A s \in Sessions \ truncated : \A b \in 0 .. MaxLen - 1 :
        b < manifest.through[s] =>
            \E e \in written :
                /\ e.session = s /\ e.from <= b /\ b < e.to
                /\ e.id \in Ids(manifest.episodes) \/ e.id \notin files

(* manifest.rs, validate: "This correctly catches real desync"; and        *)
(* session_start.rs: eviction "is idempotent".  What one process running   *)
(* alone leaves on disk, load_manifest accepts again.                      *)
ManifestLoads == Validates(manifest)

=============================================================================
