--------------------------- MODULE EpisodicProofs ----------------------------
(***************************************************************************)
(* Theorems about Episodic: for every number of hooks, sessions, episodes, *)
(* truncations and crashes.                                                *)
(***************************************************************************)
EXTENDS Episodic, FiniteSetTheorems, TLAPS

(* A copy of the manifest, whoever holds it, is out of date but not wrong: *)
(* what it says of an episode's fate the agent and the clock have said,    *)
(* its ranges are below its own watermark and apart, and below its own     *)
(* watermark nothing is missing that has not been pruned.                  *)
FatesTrue(m) ==
    \A e \in m.episodes :
        /\ e.status # "unconsolidated" => [id |-> e.id, blocks |-> e.promoted] \in promotions
        /\ e.status = "evictable" => e.id <= expired \/ e.promoted \subseteq confirmed
BelowWatermark(m) ==
    /\ \A s \in Sessions \ truncated : m.through[s] <= transcript[s]
    /\ \A e \in m.episodes : e.session \notin truncated => e.to <= m.through[e.session]
RangesApart(m) ==
    \A d, e \in m.episodes :
        d.session = e.session /\ d # e /\ d.session \notin truncated
          => d.to <= e.from \/ e.to <= d.from
Covers(m, s, b) ==
    \E e \in written :
        /\ e.session = s /\ e.from <= b /\ b < e.to
        /\ e.id \in Ids(m.episodes) \/ e.id \notin files
Covered(m) ==
    \A s \in Sessions \ truncated : \A b \in 0 .. MaxLen - 1 : b < m.through[s] => Covers(m, s, b)
Sound(m) == FatesTrue(m) /\ BelowWatermark(m) /\ RangesApart(m) /\ Covered(m)

CopiesSound == Sound(manifest) /\ \A p \in Procs : Sound(job[p].manifest)

(* An episode that is about to be saved begins at the watermark of the     *)
(* copy it is saved over.                                                  *)
FollowsCopy(e, m) ==
    /\ e \in written /\ e.status = "unconsolidated"
    /\ e.session \notin truncated =>
          /\ e.from = m.through[e.session]
          /\ e.from <= e.to /\ e.to <= transcript[e.session]
SavesFollow == \A p \in Procs : pc[p] = "save" => FollowsCopy(job[p].episode, job[p].manifest)

Labels == {"idle", "capture", "save", "consolidate", "reconcile", "prune"}
Jobs == [op : {"none", "capture", "consolidate", "evict"}, session : Sessions \cup {NoJob.session},
         manifest : Manifest, episode : Episode \cup {NoEpisode}]
Types ==
    /\ transcript \in [Sessions -> 0 .. MaxLen]
    /\ manifest \in Manifest
    /\ written \subseteq Episode /\ IsFiniteSet(written)
    /\ \A e \in written : e.id <= Cardinality(written)
    /\ expired \in Nat
    /\ pc \in [Procs -> Labels]
    /\ job \in [Procs -> Jobs]
    /\ \A p \in Procs : pc[p] = "capture" => job[p].session \in Sessions

EpisodicInv == Types /\ CopiesSound /\ SavesFollow /\ UnconfirmedStay

------------------------------------------------------------------------------
(* What grows: a sound copy stays sound while the surroundings move on.    *)
Grows ==
    /\ promotions \subseteq promotions' /\ confirmed \subseteq confirmed' /\ expired <= expired'
    /\ truncated \subseteq truncated' /\ written \subseteq written'
    /\ \A s \in Sessions \ truncated' : transcript[s] <= transcript'[s]
    /\ \A e \in written : e.id \notin files => e.id \notin files'

LEMMA SoundStays ==
    ASSUME Types, Types', Grows, NEW m \in Manifest, Sound(m)
    PROVE  Sound(m)'
<1> USE DEF Grows, Sound
<1>1. /\ m.through \in [Sessions -> 0 .. MaxLen] /\ m.episodes \subseteq Episode
      /\ \A e \in m.episodes : e.id \in Int /\ e.to \in Int /\ e.session \in Sessions
      /\ \A s \in Sessions : m.through[s] \in Int /\ transcript[s] \in Int /\ transcript'[s] \in Int
      /\ expired \in Int /\ expired' \in Int
  BY EpisodicAssumption DEF Manifest, Episode, Types
<1>2. FatesTrue(m)'
  <2>1. ASSUME NEW e \in m.episodes, e.status = "evictable"
        PROVE  e.id <= expired' \/ e.promoted \subseteq confirmed'
    <3>1. e.id <= expired \/ e.promoted \subseteq confirmed
      BY <2>1 DEF FatesTrue
    <3>2. e.id <= expired => e.id <= expired'
      BY <1>1
    <3> QED
      BY <3>1, <3>2
  <2> QED
    BY <2>1 DEF FatesTrue
<1>3. BelowWatermark(m)'
  BY <1>1 DEF BelowWatermark
<1>4. RangesApart(m)'
  BY DEF RangesApart
<1>5. Covered(m)'
  BY DEF Covered, Covers
<1> QED
  BY <1>2, <1>3, <1>4, <1>5

LEMMA EmptySound == Types => EmptyManifest \in Manifest /\ Sound(EmptyManifest)
<1> SUFFICES ASSUME Types PROVE EmptyManifest \in Manifest /\ Sound(EmptyManifest)
  OBVIOUS
<1>1. EmptyManifest.episodes = {} /\ \A s \in Sessions : EmptyManifest.through[s] = 0
  BY DEF EmptyManifest
<1>2. EmptyManifest \in Manifest
  BY EpisodicAssumption DEF EmptyManifest, Manifest
<1>3. \A s \in Sessions : 0 <= transcript[s]
  BY EpisodicAssumption DEF Types
<1> QED
  BY <1>1, <1>2, <1>3 DEF Sound, FatesTrue, BelowWatermark, RangesApart, Covered

LEMMA NoJobType == NoJob \in Jobs /\ NoJob.manifest = EmptyManifest
BY EpisodicAssumption DEF NoJob, JobOf, Jobs, EmptyManifest, Manifest

LEMMA FollowStays ==
    ASSUME Types, Types', Grows, NEW m \in Manifest, NEW e, FollowsCopy(e, m)
    PROVE  FollowsCopy(e, m)'
<1>1. e \in Episode /\ e.session \in Sessions /\ e.to \in Int
  BY DEF FollowsCopy, Types, Episode
<1>2. transcript[e.session] \in Int /\ transcript'[e.session] \in Int
  BY <1>1 DEF Types
<1> QED
  BY <1>1, <1>2 DEF FollowsCopy, Grows

------------------------------------------------------------------------------
(* Steps that leave manifest.json and the jobs alone.                      *)
LEMMA SurroundingsInv ==
    ASSUME EpisodicInv, Types', Grows, UNCHANGED <<manifest, job, pc>>, UnconfirmedStay'
    PROVE  EpisodicInv'
<1>1. manifest \in Manifest /\ \A p \in Procs : job[p].manifest \in Manifest
  BY DEF EpisodicInv, Types, Jobs
<1>2. CopiesSound'
  BY <1>1, SoundStays DEF EpisodicInv, CopiesSound
<1>3. SavesFollow'
  BY <1>1, FollowStays DEF EpisodicInv, SavesFollow
<1> QED
  BY <1>2, <1>3 DEF EpisodicInv

(* A step of one process: the copy it is left with and the manifest it     *)
(* leaves behind are to be shown sound.                                    *)
LEMMA ProcessInv ==
    ASSUME EpisodicInv, Types', Grows, NEW p \in Procs, NEW j \in Jobs, NEW l \in Labels,
           job' = [job EXCEPT ![p] = j], pc' = [pc EXCEPT ![p] = l],
           Sound(manifest)', Sound(j.manifest)',
           l = "save" => FollowsCopy(j.episode, j.manifest)',
           UnconfirmedStay'
    PROVE  EpisodicInv'
<1>1. /\ \A q \in Procs : job[q].manifest \in Manifest
      /\ pc \in [Procs -> Labels] /\ job \in [Procs -> Jobs]
  BY DEF EpisodicInv, Types, Jobs
<1>2. CopiesSound'
  BY <1>1, SoundStays DEF EpisodicInv, CopiesSound
<1>3. SavesFollow'
  BY <1>1, FollowStays DEF EpisodicInv, SavesFollow
<1> QED
  BY <1>2, <1>3 DEF EpisodicInv

------------------------------------------------------------------------------
LEMMA InitEpisodic == Init => EpisodicInv
<1> SUFFICES ASSUME Init PROVE EpisodicInv
  OBVIOUS
<1>1. Types
  <2>1. IsFiniteSet({}) /\ EmptyManifest \in Manifest
    BY FS_EmptySet, EpisodicAssumption DEF EmptyManifest, Manifest
  <2> QED
    BY <2>1, NoJobType, EpisodicAssumption DEF Init, Types, Labels
<1>2. \A p \in Procs : job[p].manifest = EmptyManifest /\ pc[p] = "idle"
  BY NoJobType DEF Init
<1>3. CopiesSound
  BY <1>1, <1>2, EmptySound DEF Init, CopiesSound
<1> QED
  BY <1>1, <1>2, <1>3 DEF Init, EpisodicInv, SavesFollow, UnconfirmedStay

LEMMA Unmoved ==
    ASSUME Types, UNCHANGED <<promotions, confirmed, expired, truncated, written, transcript, files>>
    PROVE  Grows /\ (UnconfirmedStay => UnconfirmedStay')
           /\ \A m : Sound(m)' <=> Sound(m)
<1>1. /\ expired <= expired
      /\ \A s \in Sessions : transcript[s] <= transcript[s]
  BY EpisodicAssumption DEF Types
<1>2. Grows
  BY <1>1 DEF Grows
<1> QED
  BY <1>2 DEF UnconfirmedStay, Sound, FatesTrue, BelowWatermark, RangesApart, Covered, Covers

LEMMA LoadInv ==
    ASSUME EpisodicInv, NEW p \in Procs, NEW op \in {"capture", "consolidate", "evict"},
           NEW s \in Sessions \cup {NoJob.session}, NEW l \in Labels \ {"save"},
           l = "capture" => s \in Sessions,
           LoadManifest(p, op, s, l)
    PROVE  EpisodicInv'
<1> USE DEF EpisodicInv
<1>1. PICK j \in Jobs :
         /\ j.manifest = manifest /\ j.session = s
         /\ job' = [job EXCEPT ![p] = j] /\ pc' = [pc EXCEPT ![p] = l]
         /\ UNCHANGED <<transcript, manifest, files, written, confirmed, expired, promotions, truncated>>
  BY DEF LoadManifest, Goto, JobOf, Jobs, Types
<1>2. Types'
  BY <1>1 DEF Types
<1>3. Grows /\ UnconfirmedStay' /\ \A m : Sound(m)' <=> Sound(m)
  BY <1>1, Unmoved
<1>4. Sound(manifest)' /\ Sound(j.manifest)'
  BY <1>1, <1>3 DEF CopiesSound
<1> QED
  BY <1>1, <1>2, <1>3, <1>4, ProcessInv

LEMMA ReturnInv ==
    ASSUME EpisodicInv, NEW p \in Procs, Return(p),
           UNCHANGED <<transcript, manifest, files, written, confirmed, expired, promotions, truncated>>
    PROVE  EpisodicInv'
<1> USE DEF EpisodicInv
<1>1. job' = [job EXCEPT ![p] = NoJob] /\ pc' = [pc EXCEPT ![p] = "idle"] /\ "idle" \in Labels
  BY DEF Return, Goto, Labels
<1>2. Types'
  BY <1>1, NoJobType DEF Types
<1>3. Grows /\ UnconfirmedStay' /\ Sound(manifest)' /\ Sound(NoJob.manifest)'
  BY Unmoved, EmptySound, NoJobType DEF CopiesSound
<1> QED
  BY <1>1, <1>2, <1>3, NoJobType, ProcessInv

(* Nobody reuses the number of an episode, so that no file comes back.     *)
LEMMA WriteEpisodeInv ==
    ASSUME EpisodicInv, NEW p \in Procs, WriteEpisode(p)
    PROVE  EpisodicInv'
<1> USE DEF EpisodicInv
<1> DEFINE s == job[p].session
           m == job[p].manifest
<1>1. /\ pc[p] = "capture" /\ s \in Sessions /\ m \in Manifest /\ job[p] \in Jobs
      /\ m.through \in [Sessions -> 0 .. MaxLen] /\ transcript[s] \in 0 .. MaxLen
      /\ Sound(m) /\ Sound(manifest)
  BY DEF WriteEpisode, Types, Jobs, Manifest, CopiesSound
<1>2. PICK r \in Tail(s, m.through[s]) :
         LET e == [id |-> Cardinality(written) + 1, session |-> s, from |-> r[1], to |-> r[2],
                   status |-> "unconsolidated", promoted |-> {}]
         IN  /\ Cardinality(written) < MaxEpisodes
             /\ written' = written \cup {e}
             /\ files' = files \cup {e.id}
             /\ job' = [job EXCEPT ![p].episode = e]
             /\ pc' = [pc EXCEPT ![p] = "save"]
             /\ UNCHANGED <<transcript, manifest, confirmed, expired, promotions, truncated>>
  BY DEF WriteEpisode, Goto
<1>3. Cardinality(written) \in Nat /\ MaxLen \in Nat /\ MaxEpisodes \in Nat
  BY FS_CardinalityType, EpisodicAssumption DEF Types
<1>4. r[1] \in 0 .. MaxLen /\ r[2] \in 0 .. MaxLen
  BY <1>1, <1>2, <1>3 DEF Tail
<1>5. s \notin truncated => r[1] = m.through[s] /\ r[1] <= r[2] /\ r[2] <= transcript[s]
  <2>1. s \notin truncated => ~(transcript[s] < m.through[s])
    BY <1>1 DEF Sound, BelowWatermark
  <2> QED
    BY <1>1, <1>2, <2>1 DEF Tail
<1>6. PICK e \in Episode :
         /\ e.id = Cardinality(written) + 1 /\ e.session = s
         /\ e.status = "unconsolidated" /\ e.from = r[1] /\ e.to = r[2]
         /\ written' = written \cup {e} /\ files' = files \cup {e.id}
         /\ job' = [job EXCEPT ![p].episode = e]
  <2> DEFINE e == [id |-> Cardinality(written) + 1, session |-> s, from |-> r[1], to |-> r[2],
                   status |-> "unconsolidated", promoted |-> {}]
  <2>1. e \in Episode
    BY <1>1, <1>2, <1>3, <1>4 DEF Episode, Status
  <2> QED
    BY <1>2, <2>1
<1>7. /\ pc' = [pc EXCEPT ![p] = "save"]
      /\ UNCHANGED <<transcript, manifest, confirmed, expired, promotions, truncated>>
  BY <1>2
<1>8. PICK j \in Jobs : j.manifest = m /\ j.episode = e /\ job' = [job EXCEPT ![p] = j]
  <2>1. [job[p] EXCEPT !.episode = e] \in Jobs
    BY <1>1, <1>6 DEF Jobs
  <2> QED
    BY <1>1, <1>6, <2>1 DEF Types, Jobs
<1> HIDE DEF m, s
<1>9. Types'
  <2>1. e \notin written
    BY <1>3, <1>6 DEF Types
  <2>2. IsFiniteSet(written') /\ Cardinality(written') = Cardinality(written) + 1
    BY <1>6, <1>7, <2>1, FS_AddElement DEF Types
  <2>3. \A d \in written' : d.id <= Cardinality(written')
    <3>1. \A d \in written : d.id \in Int
      BY EpisodicAssumption DEF Types, Episode
    <3> QED
      BY <1>3, <1>6, <1>7, <2>2, <3>1 DEF Types
  <2>4. "save" \in Labels /\ "save" # "capture"
    BY DEF Labels
  <2> QED
    BY <1>6, <1>7, <1>8, <2>2, <2>3, <2>4 DEF Types
<1>10. \A d \in written : d.id # e.id
  <2>1. \A d \in written : d.id \in Int /\ d.id <= Cardinality(written)
    BY EpisodicAssumption DEF Types, Episode
  <2> QED
    BY <1>3, <1>6, <2>1
<1>11. Grows
  <2>1. expired <= expired /\ \A t \in Sessions : transcript[t] <= transcript[t]
    BY EpisodicAssumption DEF Types
  <2> QED
    BY <1>6, <1>7, <1>10, <2>1 DEF Grows
<1>12. Sound(manifest)' /\ Sound(j.manifest)'
  <2>1. manifest \in Manifest
    BY DEF Types
  <2> QED
    BY <1>1, <1>6, <1>7, <1>8, <1>9, <1>11, <2>1, SoundStays
<1>13. FollowsCopy(j.episode, j.manifest)'
  BY <1>1, <1>5, <1>6, <1>7, <1>8 DEF FollowsCopy, s, m
<1>14. UnconfirmedStay'
  BY <1>6, <1>7 DEF UnconfirmedStay
<1>15. "save" \in Labels
  BY DEF Labels
<1> QED
  BY <1>6, <1>7, <1>8, <1>9, <1>11, <1>12, <1>13, <1>14, <1>15, ProcessInv

(* A step that only replaces manifest.json, by m, and ends the operation.  *)
LEMMA ReplaceInv ==
    ASSUME EpisodicInv, NEW p \in Procs, NEW m \in Manifest, Return(p), manifest' = m,
           UNCHANGED <<transcript, files, written, confirmed, expired, truncated>>,
           promotions \subseteq promotions', Sound(m)'
    PROVE  EpisodicInv'
<1> USE DEF EpisodicInv
<1>1. job' = [job EXCEPT ![p] = NoJob] /\ pc' = [pc EXCEPT ![p] = "idle"] /\ "idle" \in Labels
  BY DEF Return, Goto, Labels
<1>2. Types'
  BY <1>1, NoJobType DEF Types
<1>3. Grows
  <2>1. expired <= expired /\ \A t \in Sessions : transcript[t] <= transcript[t]
    BY EpisodicAssumption DEF Types
  <2> QED
    BY <2>1 DEF Grows
<1>4. Sound(NoJob.manifest)'
  BY <1>2, <1>3, EmptySound, NoJobType, SoundStays
<1>5. UnconfirmedStay'
  BY DEF UnconfirmedStay
<1> QED
  BY <1>1, <1>2, <1>3, <1>4, <1>5, NoJobType, ProcessInv

LEMMA SaveCaptureInv ==
    ASSUME EpisodicInv, NEW p \in Procs, SaveCapture(p)
    PROVE  EpisodicInv'
<1> USE DEF EpisodicInv
<1> DEFINE c == job[p].manifest
           e == job[p].episode
           m == Captured(c, e)
<1>1. /\ pc[p] = "save" /\ manifest' = m /\ Return(p)
      /\ UNCHANGED <<transcript, files, written, confirmed, expired, promotions, truncated>>
  BY DEF SaveCapture
<1>2. /\ c \in Manifest /\ Sound(c) /\ FollowsCopy(e, c)
      /\ e \in Episode /\ e \in written
  BY <1>1 DEF Types, Jobs, CopiesSound, SavesFollow, FollowsCopy
<1>3. /\ m \in Manifest /\ m.episodes = c.episodes \cup {e}
      /\ m.through = [c.through EXCEPT ![e.session] = e.to]
      /\ e.session \in Sessions /\ c.through \in [Sessions -> 0 .. MaxLen]
      /\ e.from \in Int /\ e.to \in Int
      /\ \A d \in c.episodes : d.session \in Sessions /\ d.from \in Int /\ d.to \in Int
      /\ \A s \in Sessions : c.through[s] \in Int /\ transcript[s] \in Int
  BY <1>2, EpisodicAssumption DEF Captured, Manifest, Episode, Types
<1> HIDE DEF m, c, e
<1>4. FatesTrue(m)
  BY <1>2, <1>3 DEF FatesTrue, Sound, FollowsCopy
<1>5. BelowWatermark(m)
  <2>1. \A s \in Sessions \ truncated : m.through[s] <= transcript[s]
    BY <1>2, <1>3 DEF BelowWatermark, Sound, FollowsCopy
  <2>2. \A d \in m.episodes : d.session \notin truncated => d.to <= m.through[d.session]
    BY <1>2, <1>3 DEF BelowWatermark, Sound, FollowsCopy
  <2> QED
    BY <2>1, <2>2 DEF BelowWatermark
<1>6. RangesApart(m)
  <2>1. ASSUME NEW d \in c.episodes, d.session = e.session, e.session \notin truncated
        PROVE  d.to <= e.from
    BY <1>2, <1>3, <2>1 DEF Sound, BelowWatermark, FollowsCopy
  <2> QED
    BY <1>2, <1>3, <2>1 DEF RangesApart, Sound
<1>7. Covered(m)
  <2> SUFFICES ASSUME NEW s \in Sessions \ truncated, NEW b \in 0 .. MaxLen - 1, b < m.through[s]
               PROVE  Covers(m, s, b)
    BY DEF Covered
  <2>1. b < c.through[s] => Covers(m, s, b)
    <3>1. b < c.through[s] => Covers(c, s, b)
      BY <1>2 DEF Sound, Covered
    <3>2. Ids(c.episodes) \subseteq Ids(m.episodes)
      BY <1>3 DEF Ids
    <3> QED
      BY <3>1, <3>2 DEF Covers
  <2>2. CASE s # e.session
    BY <1>3, <2>1, <2>2
  <2>3. CASE s = e.session /\ ~(b < c.through[s])
    <3>1. e.from <= b /\ b < e.to
      BY <1>2, <1>3, <2>3 DEF FollowsCopy
    <3>2. e.id \in Ids(m.episodes)
      BY <1>3 DEF Ids
    <3> QED
      BY <1>2, <2>3, <3>1, <3>2 DEF Covers
  <2> QED
    BY <2>1, <2>2, <2>3
<1>8. PICK n \in Manifest : n = m
  BY <1>3
<1>9. Sound(n)'
  BY <1>1, <1>4, <1>5, <1>6, <1>7, <1>8, Unmoved DEF Sound
<1> QED
  BY <1>1, <1>8, <1>9, ReplaceInv

(* Changing what is said of episodes, but not their ranges, changes nothing *)
(* of what the watermark and the ranges say.                               *)
LEMMA RangesKept ==
    ASSUME NEW c, NEW m, NEW was,
           m.through = c.through, m.episodes = {was[e] : e \in c.episodes},
           \A e \in c.episodes :
              /\ was[e].id = e.id /\ was[e].session = e.session
              /\ was[e].from = e.from /\ was[e].to = e.to,
           BelowWatermark(c), RangesApart(c), Covered(c)
    PROVE  BelowWatermark(m) /\ RangesApart(m) /\ Covered(m)
<1>1. BelowWatermark(m)
  BY DEF BelowWatermark
<1>2. RangesApart(m)
  BY DEF RangesApart
<1>3. Ids(m.episodes) = Ids(c.episodes)
  BY DEF Ids
<1>4. Covered(m)
  BY <1>3 DEF Covered, Covers
<1> QED
  BY <1>1, <1>2, <1>4

(* The agent changes the status of one episode, and nothing of its range.  *)
LEMMA ConsolidateInv ==
    ASSUME EpisodicInv, NEW p \in Procs, Consolidate(p)
    PROVE  EpisodicInv'
<1> USE DEF EpisodicInv
<1>1. PICK c \in Manifest : c = job[p].manifest /\ Sound(c)
  BY DEF Types, Jobs, CopiesSound
<1>2. PICK e \in c.episodes, bs \in SUBSET Blocks :
         /\ manifest' = [c EXCEPT !.episodes = (@ \ {e}) \cup
                           {[e EXCEPT !.status = "pending_confirmation", !.promoted = bs]}]
         /\ promotions' = promotions \cup {[id |-> e.id, blocks |-> bs]}
         /\ Return(p)
         /\ UNCHANGED <<transcript, files, written, confirmed, expired, truncated>>
  BY <1>1 DEF Consolidate
<1>3. PICK f \in Episode :
         /\ f.id = e.id /\ f.session = e.session /\ f.from = e.from /\ f.to = e.to
         /\ f.status = "pending_confirmation" /\ f.promoted = bs
         /\ f = [e EXCEPT !.status = "pending_confirmation", !.promoted = bs]
  BY <1>1 DEF Manifest, Episode, Status
<1>4. PICK m \in Manifest : /\ m = manifest' /\ m.through = c.through
                            /\ m.episodes = (c.episodes \ {e}) \cup {f}
  BY <1>2, <1>3 DEF Manifest
<1>5. Types'
  <2>1. job' = [job EXCEPT ![p] = NoJob] /\ pc' = [pc EXCEPT ![p] = "idle"] /\ "idle" \in Labels
    BY <1>2 DEF Return, Goto, Labels
  <2> QED
    BY <1>2, <1>4, <2>1, NoJobType DEF Types
<1>6. Grows
  <2>1. expired <= expired /\ \A t \in Sessions : transcript[t] <= transcript[t]
    BY EpisodicAssumption DEF Types
  <2> QED
    BY <1>2, <2>1 DEF Grows
<1>7. Sound(c)'
  BY <1>1, <1>5, <1>6, SoundStays
<1>8. Sound(m)'
  <2>1. FatesTrue(m)'
    BY <1>2, <1>3, <1>4, <1>7 DEF Sound, FatesTrue
  <2>2. BelowWatermark(m) /\ RangesApart(m) /\ Covered(m)
    <3> DEFINE was == [d \in c.episodes |-> IF d = e THEN f ELSE d]
    <3>1. m.episodes = {was[d] : d \in c.episodes}
      BY <1>4
    <3>2. \A d \in c.episodes : /\ was[d].id = d.id /\ was[d].session = d.session
                               /\ was[d].from = d.from /\ was[d].to = d.to
      BY <1>3
    <3> HIDE DEF was
    <3> QED
      BY <1>1, <1>4, <3>1, <3>2, RangesKept DEF Sound
  <2>3. BelowWatermark(m)' /\ RangesApart(m)' /\ Covered(m)'
    BY <1>2, <2>2 DEF BelowWatermark, RangesApart, Covered, Covers
  <2> QED
    BY <2>1, <2>3 DEF Sound
<1> QED
  BY <1>2, <1>4, <1>8, ReplaceInv

------------------------------------------------------------------------------
(* Eviction.                                                               *)

LEMMA ReconcileInv ==
    ASSUME EpisodicInv, NEW p \in Procs, Reconcile(p)
    PROVE  EpisodicInv'
<1> USE DEF EpisodicInv
<1>1. PICK c \in Manifest : c = job[p].manifest /\ Sound(c)
  BY DEF Types, Jobs, CopiesSound
<1> DEFINE Fate(e) == IF MayGo(e) THEN [e EXCEPT !.status = "evictable"] ELSE e
<1>2. /\ job' = [job EXCEPT ![p].manifest.episodes = {Fate(e) : e \in @}]
      /\ pc' = [pc EXCEPT ![p] = "prune"] /\ "prune" \in Labels
      /\ UNCHANGED <<transcript, manifest, files, written, confirmed, expired, promotions, truncated>>
  BY DEF Reconcile, Goto, Labels
<1>3. PICK was \in [c.episodes -> Episode] : \A e \in c.episodes :
         /\ was[e] = Fate(e) /\ was[e].id = e.id /\ was[e].session = e.session
         /\ was[e].from = e.from /\ was[e].to = e.to /\ was[e].promoted = e.promoted
         /\ was[e].status # e.status => MayGo(e)
  <2>1. \A e \in c.episodes :
           /\ Fate(e) \in Episode /\ Fate(e).id = e.id /\ Fate(e).session = e.session
           /\ Fate(e).from = e.from /\ Fate(e).to = e.to /\ Fate(e).promoted = e.promoted
           /\ Fate(e).status # e.status => MayGo(e)
    BY DEF Manifest, Episode, Status
  <2> HIDE DEF Fate
  <2>2. [e \in c.episodes |-> Fate(e)] \in [c.episodes -> Episode]
    BY <2>1
  <2> QED
    BY <2>1, <2>2
<1>4. PICK m \in Manifest : /\ m.through = c.through /\ m.episodes = {was[e] : e \in c.episodes}
                            /\ m = [c EXCEPT !.episodes = {Fate(e) : e \in @}]
  <2> HIDE DEF Fate
  <2>1. {was[e] : e \in c.episodes} \subseteq Episode
    OBVIOUS
  <2>2. {was[e] : e \in c.episodes} = {Fate(e) : e \in c.episodes}
    BY <1>3
  <2> DEFINE es == {was[e] : e \in c.episodes}
  <2>3. [c EXCEPT !.episodes = es] \in Manifest
    BY <2>1 DEF Manifest
  <2> QED
    BY <2>2, <2>3 DEF Manifest
<1>5. PICK j \in Jobs : j.manifest = m /\ job' = [job EXCEPT ![p] = j]
  <2>1. [job[p] EXCEPT !.manifest = m] \in Jobs
    BY DEF Types, Jobs
  <2>2. job' = [job EXCEPT ![p] = [job[p] EXCEPT !.manifest = m]]
    BY <1>1, <1>2, <1>4 DEF Types, Jobs
  <2> QED
    BY <2>1, <2>2 DEF Types, Jobs
<1>6. Types'
  BY <1>2, <1>5 DEF Types
<1>7. Grows /\ UnconfirmedStay' /\ \A n : Sound(n)' <=> Sound(n)
  BY <1>2, Unmoved
<1>8. Sound(m)
  <2> HIDE DEF Fate
  <2>1. FatesTrue(m)
    <3> SUFFICES ASSUME NEW e \in c.episodes
                 PROVE  /\ was[e].status # "unconsolidated" =>
                              [id |-> was[e].id, blocks |-> was[e].promoted] \in promotions
                        /\ was[e].status = "evictable" =>
                              was[e].id <= expired \/ was[e].promoted \subseteq confirmed
      BY <1>4 DEF FatesTrue
    <3>1. /\ e.status # "unconsolidated" => [id |-> e.id, blocks |-> e.promoted] \in promotions
          /\ e.status = "evictable" => e.id <= expired \/ e.promoted \subseteq confirmed
      BY <1>1 DEF Sound, FatesTrue
    <3>2. was[e].id = e.id /\ was[e].promoted = e.promoted
          /\ (was[e].status # e.status => MayGo(e))
      BY <1>3
    <3> QED
      BY <3>1, <3>2 DEF MayGo
  <2>2. \A e \in c.episodes : /\ was[e].id = e.id /\ was[e].session = e.session
                             /\ was[e].from = e.from /\ was[e].to = e.to
    BY <1>3
  <2>3. m.through = c.through /\ m.episodes = {was[e] : e \in c.episodes}
    BY <1>4
  <2>4. BelowWatermark(m) /\ RangesApart(m) /\ Covered(m)
    BY <1>1, <2>2, <2>3, RangesKept DEF Sound
  <2> QED
    BY <2>1, <2>4 DEF Sound
<1> QED
  BY <1>2, <1>5, <1>6, <1>7, <1>8, ProcessInv DEF CopiesSound

(* A file goes only when a copy says that its episode may go.              *)
LEMMA RemoveFileInv ==
    ASSUME EpisodicInv, NEW p \in Procs, RemoveFile(p)
    PROVE  EpisodicInv'
<1> USE DEF EpisodicInv
<1>1. PICK c \in Manifest : c = job[p].manifest /\ Sound(c)
  BY DEF Types, Jobs, CopiesSound
<1>2. PICK e \in Evictable(c) :
         /\ files' = files \ {e.id}
         /\ UNCHANGED <<transcript, manifest, written, confirmed, expired, pc, job, promotions, truncated>>
  BY <1>1 DEF RemoveFile
<1>3. Types'
  BY <1>2 DEF Types
<1>4. Grows
  <2>1. expired <= expired /\ \A t \in Sessions : transcript[t] <= transcript[t]
    BY EpisodicAssumption DEF Types
  <2> QED
    BY <1>2, <2>1 DEF Grows
<1>5. UnconfirmedStay'
  <2>1. /\ [id |-> e.id, blocks |-> e.promoted] \in promotions
        /\ e.id <= expired \/ e.promoted \subseteq confirmed
    BY <1>1, <1>2 DEF Evictable, Sound, FatesTrue
  <2>2. PICK r \in promotions : r.id = e.id /\ (r.id <= expired \/ r.blocks \subseteq confirmed)
    BY <2>1
  <2> QED
    BY <1>2, <2>2 DEF UnconfirmedStay
<1> QED
  BY <1>2, <1>3, <1>4, <1>5, SurroundingsInv

LEMMA SavePrunedInv ==
    ASSUME EpisodicInv, NEW p \in Procs, SavePruned(p)
    PROVE  EpisodicInv'
<1> USE DEF EpisodicInv
<1>1. PICK c \in Manifest : c = job[p].manifest /\ Sound(c)
  BY DEF Types, Jobs, CopiesSound
<1>2. /\ Ids(Evictable(c)) \cap files = {} /\ Return(p)
      /\ manifest' = IF Evictable(c) = {} THEN manifest
                     ELSE [c EXCEPT !.episodes = @ \ Evictable(c)]
      /\ UNCHANGED <<transcript, files, written, confirmed, expired, promotions, truncated>>
  BY <1>1 DEF SavePruned
<1>3. \A n : Sound(n)' <=> Sound(n)
  BY <1>2, Unmoved
<1>4. CASE Evictable(c) = {}
  <2>1. PICK m \in Manifest : m = manifest /\ Sound(m)
    BY DEF Types, CopiesSound
  <2>2. Sound(m)'
    BY <1>3, <2>1
  <2> QED
    BY <1>2, <1>4, <2>1, <2>2, ReplaceInv
<1>5. CASE Evictable(c) # {}
  <2>1. PICK m \in Manifest : /\ m = manifest' /\ m.through = c.through
                              /\ m.episodes = c.episodes \ Evictable(c)
    BY <1>2, <1>5 DEF Manifest
  <2>2. FatesTrue(m) /\ BelowWatermark(m) /\ RangesApart(m)
    BY <1>1, <2>1 DEF Sound, FatesTrue, BelowWatermark, RangesApart
  <2>3. Covered(m)
    <3>1. \A i \in Ids(c.episodes) : i \in Ids(m.episodes) \/ i \notin files
      BY <1>2, <2>1 DEF Ids
    <3>2. \A s, b : Covers(c, s, b) => Covers(m, s, b)
      BY <3>1 DEF Covers
    <3> QED
      BY <1>1, <2>1, <3>2 DEF Sound, Covered
  <2>4. Sound(m)'
    BY <1>3, <2>2, <2>3 DEF Sound
  <2> QED
    BY <1>2, <2>1, <2>4, ReplaceInv
<1> QED
  BY <1>4, <1>5

------------------------------------------------------------------------------
(* Transcripts, confirmations and the clock.                               *)
LEMMA WorldInv ==
    ASSUME EpisodicInv,
           \/ \E s \in Sessions : Talk(s) \/ Truncate(s)
           \/ \E b \in Blocks : Confirm(b)
           \/ Age
    PROVE  EpisodicInv'
<1> USE DEF EpisodicInv
<1>0. /\ MaxLen \in Nat /\ expired \in Nat
      /\ \A s \in Sessions : transcript[s] \in 0 .. MaxLen
  BY EpisodicAssumption DEF Types
<1>1. Types'
  <2>1. CASE \E s \in Sessions : Talk(s)
    BY <1>0, <2>1 DEF Talk, Types
  <2>2. CASE \E s \in Sessions : Truncate(s)
    BY <1>0, <2>2 DEF Truncate, Types
  <2>3. CASE (\E b \in Blocks : Confirm(b)) \/ Age
    BY <1>0, <2>3 DEF Confirm, Age, Types
  <2> QED
    BY <2>1, <2>2, <2>3
<1>2. Grows
  <2>1. CASE \E s \in Sessions : Talk(s)
    BY <1>0, <2>1 DEF Talk, Types, Grows
  <2>2. CASE \E s \in Sessions : Truncate(s)
    BY <1>0, <2>2 DEF Truncate, Types, Grows
  <2>3. CASE (\E b \in Blocks : Confirm(b)) \/ Age
    BY <1>0, <2>3 DEF Confirm, Age, Grows
  <2> QED
    BY <2>1, <2>2, <2>3
<1>3. UNCHANGED <<manifest, job, pc, files, written, promotions>>
  BY DEF Talk, Truncate, Confirm, Age
<1>4. UnconfirmedStay'
  <2> SUFFICES ASSUME NEW e \in written, e.id \notin files
               PROVE  \E r \in promotions : r.id = e.id
                         /\ (r.id <= expired' \/ r.blocks \subseteq confirmed')
    BY <1>3 DEF UnconfirmedStay
  <2>1. PICK r \in promotions : r.id = e.id /\ (r.id <= expired \/ r.blocks \subseteq confirmed)
    BY DEF UnconfirmedStay
  <2>2. e.id \in Nat /\ expired' \in Nat
    BY <1>0, <1>1, EpisodicAssumption DEF Types, Episode
  <2>3. r.id <= expired => r.id <= expired'
    BY <1>0, <1>2, <2>1, <2>2 DEF Grows
  <2> QED
    BY <1>2, <2>1, <2>3 DEF Grows
<1> QED
  BY <1>1, <1>2, <1>3, <1>4, SurroundingsInv

------------------------------------------------------------------------------
LEMMA StepEpisodic == EpisodicInv /\ [Next]_vars => EpisodicInv'
<1> SUFFICES ASSUME EpisodicInv, [Next]_vars PROVE EpisodicInv'
  OBVIOUS
<1> USE DEF Labels
<1>1. ASSUME NEW p \in Procs, Step(p)
      PROVE  EpisodicInv'
  <2>1. CASE \E s \in Sessions : BeginCapture(p, s)
    BY <2>1, LoadInv DEF BeginCapture
  <2>2. CASE BeginConsolidate(p) \/ BeginEvict(p)
    BY <2>2, LoadInv DEF BeginConsolidate, BeginEvict
  <2>3. CASE NothingNew(p) \/ Crash(p)
    BY <2>3, ReturnInv DEF NothingNew, Crash
  <2> QED
    BY <1>1, <2>1, <2>2, <2>3, WriteEpisodeInv, SaveCaptureInv, ConsolidateInv, ReconcileInv,
       RemoveFileInv, SavePrunedInv DEF Step
<1>2. CASE UNCHANGED vars
  <2>1. Types'
    BY <1>2 DEF vars, EpisodicInv, Types
  <2>2. Grows /\ UnconfirmedStay'
    BY <1>2, Unmoved DEF vars, EpisodicInv
  <2> QED
    BY <1>2, <2>1, <2>2, SurroundingsInv DEF vars
<1> QED
  BY <1>1, <1>2, WorldInv DEF Next

LEMMA AlwaysEpisodicInv == Spec => []EpisodicInv
BY InitEpisodic, StepEpisodic, PTL DEF Spec

(* No byte of a transcript that was never truncated is in two episodes of  *)
(* the manifest (capture.rs:38-65).                                        *)
THEOREM AlwaysNoDoubleCapture == Spec => []NoDoubleCapture
<1>1. EpisodicInv => NoDoubleCapture
  BY DEF EpisodicInv, CopiesSound, Sound, RangesApart, NoDoubleCapture
<1> QED
  BY <1>1, AlwaysEpisodicInv, PTL

(* Nothing below a watermark is missing but what was pruned, although      *)
(* whole manifests overwrite each other (capture.rs:84-93).                *)
THEOREM AlwaysWatermarkIsCovered == Spec => []WatermarkIsCovered
<1>1. EpisodicInv => WatermarkIsCovered
  BY DEF EpisodicInv, CopiesSound, Sound, Covered, Covers, WatermarkIsCovered
<1> QED
  BY <1>1, AlwaysEpisodicInv, PTL

(* An episode's file is removed only once its promotion is confirmed or    *)
(* its time is over (eviction.rs:27-105).                                  *)
THEOREM AlwaysUnconfirmedStay == Spec => []UnconfirmedStay
BY AlwaysEpisodicInv, PTL DEF EpisodicInv
=============================================================================
