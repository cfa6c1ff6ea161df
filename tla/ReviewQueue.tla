---------------------------- MODULE ReviewQueue ----------------------------
(***************************************************************************)
(* Consolidation of chats (scripts/): producers extract claims from the    *)
(* chat index and queue them as review items (chat-consolidate.sh,         *)
(* consolidate_run.py --review), reviewers drain the queue                 *)
(* (cortex_review.py).  Producers, reviewers and the index's own updates   *)
(* interleave at every file operation; nothing takes a lock, and any of    *)
(* them may die between two steps.  An item is written to <path>.tmp, which*)
(* all writers of that path share, and renamed into place; it is smaller   *)
(* than a file buffer, so that its text is written at once, on closing.    *)
(*                                                                         *)
(* The claims are all on one topic, so each is a neighbor of every other   *)
(* once it is in the ledger; which of them contradict is the classifier's  *)
(* word.  What a language model answers (the candidates, the verdicts, the *)
(* relations) is an arbitrary choice.                                      *)
(***************************************************************************)
EXTENDS Naturals, FiniteSets, Functions

CONSTANTS Producers,  \* processes that may run consolidate_run.py
          Reviewers,  \* processes that may run cortex_review.py
          Claims,     \* what a chat may be condensed to
          Days,       \* the date in a producer's scope, "recent since <date>"
          MaxErrors,  \* bound: items whose ledger call answers with an error
          Setups,     \* the deployments to look at
          Absent, Empty, Garbled,  \* a file that is missing, truncated, torn
          None

ASSUME ReviewAssumption ==
    /\ \A c \in {Absent, Empty, Garbled} :
          c \notin [action : {"tag", "corroborate", "contradict"}, novel : BOOLEAN]
    /\ Absent \notin {Empty, Garbled} /\ None \notin Nat
    /\ Producers \cap Reviewers = {}
    /\ \A s \in Setups :
          /\ s.producers \subseteq Producers /\ IsFiniteSet(s.producers)
          /\ s.reviewers \subseteq Reviewers /\ IsFiniteSet(s.reviewers)
          /\ s.claims \subseteq Claims /\ s.project \in Nat \cup {None}
          /\ s.maxWrites \in Nat /\ s.maxUpdates \in Nat /\ s.maxFaults \in Nat

VARIABLES file,       \* review/<directory>/<id>.json
          tmp,        \* review/<directory>/<id>.json.tmp
          out,        \* of producers and reviewers: what the file they have opened is now
          ledger,     \* the learnings of the ledger that is written: what each claims, and the
                      \* how many-th that does
          fresh,      \* a file of the chat index is newer than the marker last-run
          unread,     \* the index has changed since the last run that succeeded began
          pc,         \* of producers and reviewers
          run,        \* of a producer: its scope, its survivors, its counts
          task,       \* of a reviewer: the item, where it goes, the rest of the list
          report,     \* what the last direct run said, whether a call had failed or a count
          writes,     \* history: how often each item was put in the queue
          commits,    \* history: how often each item was committed
          refused,    \* history: items whose ledger call answered with an error
          skipped,    \* history: a run whose extraction was lost has touched the marker
          overlapped, \* history: paths that two processes had open at once
          clashes,    \* history: how often a reviewer could not file what it had committed
          faults, updates, setup

files == <<file, tmp, out, overlapped, clashes>>
marker == <<fresh, unread, skipped, updates>>
calls == <<ledger, commits, refused>>
vars == <<files, calls, marker, pc, run, task, report, writes, faults, setup>>

(* A deployment: who is there; whether producers write the ledger directly *)
(* (no --review); whether the index changes only between their runs; the   *)
(* learnings in the ledger of the project they are run in, if it has one   *)
(* (ledger_stats counts that one, tag_learning writes the global one).  Its*)
(* bounds: what is extracted, up to when an item that has been queued is   *)
(* extracted again, how often the index changes and how many processes die.*)
Setup == [producers : SUBSET Producers, reviewers : SUBSET Reviewers,
          direct : BOOLEAN, quiet : BOOLEAN, project : Nat \cup {None},
          claims : SUBSET Claims, maxWrites : Nat, maxUpdates : Nat, maxFaults : Nat]

(* An item is named by the hash of its content and scope: the same claim   *)
(* of another day is another item.                                         *)
Ids == Claims \X Days
Proposal == [action : {"tag", "corroborate", "contradict"}, novel : BOOLEAN]
Content == Proposal \cup {Absent, Empty, Garbled}
Pending(id) == <<"pending", id>>
Paths == {"pending", "approved", "rejected"} \X Ids
Filed(dir) == {id \in Ids : file[<<dir, id>>] # Absent}
Queue == Filed("pending")
Learning == [claim : Claims, nth : Nat]
Stating(c) == {l \in ledger : l.claim = c}
Known == {l.claim : l \in ledger}
TotalLearnings == IF setup.project = None THEN Cardinality(ledger) ELSE setup.project

NoRun == [day |-> None, todo |-> [c \in {} |-> Absent], claim |-> None,
          missed |-> FALSE, lost |-> FALSE, before |-> 0, misread |-> FALSE,
          tagged |-> 0, failed |-> FALSE]
NoTask == [id |-> None, item |-> Absent, dest |-> "none", bulk |-> FALSE, list |-> {}]
Task(id, dest) == [NoTask EXCEPT !.id = id, !.item = file[Pending(id)], !.dest = dest]

GoTo(p, step) == pc' = [pc EXCEPT ![p] = step]
Running(w, step, r) == GoTo(w, step) /\ run' = [run EXCEPT ![w] = r] /\ UNCHANGED task
Reviewing(r, step, t) == GoTo(r, step) /\ task' = [task EXCEPT ![r] = t] /\ UNCHANGED run

(* A ledger tool called through cortex_session.  An error of the tool is   *)
(* the text of an ordinary result, which no caller looks at.               *)
Call(id, isTag) ==
    \/ /\ ledger' = IF isTag
                    THEN ledger \cup {[claim |-> id[1], nth |-> Cardinality(Stating(id[1])) + 1]}
                    ELSE ledger
       /\ commits' = [commits EXCEPT ![id] = @ + 1]
       /\ UNCHANGED refused
    \/ /\ Cardinality(refused \cup {id}) <= MaxErrors
       /\ refused' = refused \cup {id}
       /\ UNCHANGED <<ledger, commits>>

------------------------------------------------------------------------------
(* The chat index, and the heartbeat that runs the producer. *)

(* refresh-corpus.sh indexes a new export, or another tool adds to it.     *)
UpdateIndex ==
    /\ updates < setup.maxUpdates
    /\ setup.quiet => \A w \in Producers : pc[w] = "idle"
    /\ updates' = updates + 1
    /\ fresh' = TRUE
    /\ unread' = TRUE
    /\ run' = [w \in Producers |->
                 IF pc[w] = "idle" THEN run[w] ELSE [run[w] EXCEPT !.missed = TRUE]]
    /\ UNCHANGED <<files, calls, skipped, pc, task, report, writes, faults, setup>>

Begin(w) ==
    /\ pc[w] = "idle" /\ w \in setup.producers
    /\ \E day \in Days : Running(w, "extract", [NoRun EXCEPT !.day = day])
    /\ UNCHANGED <<files, calls, marker, report, writes, faults, setup>>

(* The timer: nothing runs unless the index is newer than the marker.      *)
Heartbeat(w) == ~setup.direct /\ fresh /\ Begin(w)

(* --force, as refresh-corpus.sh passes it; or a direct run, by hand.      *)
Forced(w) == (setup.direct \/ ~fresh) /\ Begin(w)

(* Mutant: the marker is touched though the run failed. *)
TouchAnyway(w) ==
    /\ pc[w] = "emit"
    /\ fresh' = FALSE
    /\ unread' = (unread /\ (run[w].missed \/ run[w].lost \/ DOMAIN run[w].todo # {}))
    /\ skipped' = (skipped \/ run[w].lost)
    /\ Running(w, "idle", NoRun)
    /\ UNCHANGED <<files, calls, updates, report, writes, faults, setup>>

(* The producer exited 0: the marker is touched now, at the end of it, also*)
(* if it has seen nothing of the change (lost).                            *)
Touch(w) ==
    /\ pc[w] = "emit" /\ DOMAIN run[w].todo = {}
    /\ fresh' = FALSE
    /\ unread' = (unread /\ (run[w].missed \/ run[w].lost))
    /\ skipped' = (skipped \/ run[w].lost)
    /\ Running(w, "idle", NoRun)
    /\ UNCHANGED <<files, calls, updates, report, writes, faults, setup>>

------------------------------------------------------------------------------
(* Writing an item: open(tmp, "w"), json.dump, os.replace(tmp, path).      *)

Path(p) == IF p \in Producers THEN Pending(<<run[p].claim, run[p].day>>)
                               ELSE <<task[p].dest, task[p].id>>
Text(p) == IF p \in Producers THEN run[p].todo[run[p].claim] ELSE task[p].item
WritersOf(path) ==
    {q \in Producers \cup Reviewers : pc[q] \in {"write", "replace"} /\ Path(q) = path}

(* A temporary file that is there is truncated, whoever is writing to it.  *)
OpenTmp(p) ==
    /\ pc[p] = "open"
    /\ tmp' = [tmp EXCEPT ![Path(p)] = Empty]
    /\ out' = [out EXCEPT ![p] = "tmp"]
    /\ overlapped' = IF WritersOf(Path(p)) = {} THEN overlapped ELSE overlapped \cup {Path(p)}
    /\ GoTo(p, "write")
    /\ UNCHANGED <<file, clashes, calls, marker, run, task, report, writes, faults, setup>>

(* What is there already is overwritten from its start: of a longer text   *)
(* the end remains.  The open file may have got its final name by now, or  *)
(* have none any more.                                                     *)
Over(content, text) == IF content = Empty THEN {text} ELSE {text, Garbled}
WriteTmp(p) ==
    LET path == Path(p)
    IN  /\ pc[p] = "write"
        /\ \/ /\ out[p] = "tmp" /\ UNCHANGED file
              /\ \E c \in Over(tmp[path], Text(p)) : tmp' = [tmp EXCEPT ![path] = c]
           \/ /\ out[p] = "file" /\ UNCHANGED tmp
              /\ \E c \in Over(file[path], Text(p)) : file' = [file EXCEPT ![path] = c]
           \/ out[p] = "gone" /\ UNCHANGED <<file, tmp>>
        /\ out' = [out EXCEPT ![p] = "none"]
        /\ GoTo(p, "replace")
        /\ UNCHANGED <<overlapped, clashes, calls, marker, run, task, report, writes, faults, setup>>

(* The rename takes whatever is in the temporary file, by now.             *)
Renamed(path) == [q \in Producers \cup Reviewers |->
    IF pc[q] = "write" /\ Path(q) = path /\ out[q] \in {"tmp", "file"}
    THEN IF out[q] = "tmp" THEN "file" ELSE "gone"
    ELSE out[q]]
Replaced(p) ==
    LET path == Path(p)
    IN  /\ tmp[path] # Absent
        /\ file' = [file EXCEPT ![path] = tmp[path]]
        /\ tmp' = [tmp EXCEPT ![path] = Absent]
        /\ out' = Renamed(path)

(* Somebody else has renamed it: FileNotFoundError.                        *)
ReplaceRaises(p) == tmp[Path(p)] = Absent /\ UNCHANGED <<file, tmp, out>>

------------------------------------------------------------------------------
(* consolidate_run.py. *)

(* What the gate may say of a survivor: its neighbors are the learnings    *)
(* there are on the topic, and only to one of those can it be related (the *)
(* project's are on another).  If the search answers with an error, it has *)
(* found none.                                                             *)
Gate == {[action |-> "tag", novel |-> TRUE]} \cup
        IF Known = {} THEN {} ELSE [action : {"tag", "corroborate", "contradict"}, novel : {FALSE}]

Handled == IF setup.direct THEN commits ELSE writes

(* Extract, verify and gate.  A run of the language model that fails, or   *)
(* whose answer is no JSON array, is taken for an empty list (lost).       *)
(* Without candidates a run is over; one that queues them exits as if all  *)
(* had been dropped.                                                       *)
Extract(w) ==
    /\ pc[w] = "extract"
    /\ \/ \E passed \in SUBSET {c \in setup.claims : Handled[<<c, run[w].day>>] < setup.maxWrites} :
          \E todo \in [passed -> Gate], lost \in (IF passed = {} THEN BOOLEAN ELSE {FALSE}) :
             Running(w, IF setup.direct THEN "count" ELSE "emit",
                     [run[w] EXCEPT !.todo = todo, !.lost = lost])
       \/ setup.direct /\ Running(w, "idle", NoRun)
    /\ UNCHANGED <<files, calls, marker, report, writes, faults, setup>>

(* emit_review_item: an item that is in the queue already is left alone.   *)
(* What is written after that check replaces what came in between.         *)
Emit(w) ==
    /\ pc[w] = "emit"
    /\ \E c \in DOMAIN run[w].todo :
          IF <<c, run[w].day>> \in Queue
          THEN Running(w, "emit", [run[w] EXCEPT !.todo = Restrict(@, DOMAIN @ \ {c})])
          ELSE Running(w, "open", [run[w] EXCEPT !.claim = c])
    /\ UNCHANGED <<files, calls, marker, report, writes, faults, setup>>

(* What is published, or the rest of the run if the rename raised: exit 1. *)
ReplaceItem(w) ==
    LET c == run[w].claim
        id == <<c, run[w].day>>
    IN  /\ w \in Producers /\ pc[w] = "replace"
        /\ \/ /\ Replaced(w)
              /\ writes' = [writes EXCEPT ![id] = @ + 1]
              /\ Running(w, "emit",
                         [run[w] EXCEPT !.todo = Restrict(@, DOMAIN @ \ {c}), !.claim = None])
           \/ ReplaceRaises(w) /\ Running(w, "idle", NoRun) /\ UNCHANGED writes
        /\ UNCHANGED <<overlapped, clashes, calls, marker, report, faults, setup>>

(* Without --review: the learnings are counted before and after.  A count  *)
(* that answers with an error is 0.                                        *)
Count == {[n |-> TotalLearnings, misread |-> FALSE], [n |-> 0, misread |-> TRUE]}

CountBefore(w) ==
    /\ pc[w] = "count"
    /\ \E count \in Count :
          Running(w, "direct", [run[w] EXCEPT !.before = count.n, !.misread = count.misread])
    /\ UNCHANGED <<files, calls, marker, report, writes, faults, setup>>

(* A contradiction is set aside, the rest is committed.                    *)
WriteDirect(w) ==
    /\ pc[w] = "direct"
    /\ \E c \in DOMAIN run[w].todo :
          LET action == run[w].todo[c].action
              rest == [run[w] EXCEPT !.todo = Restrict(@, DOMAIN @ \ {c}),
                                     !.tagged = IF action = "tag" THEN @ + 1 ELSE @]
          IN  IF action = "contradict"
              THEN UNCHANGED calls /\ Running(w, "direct", rest)
              ELSE /\ Call(<<c, run[w].day>>, action = "tag")
                   /\ Running(w, "direct",
                        [rest EXCEPT !.failed = @ \/ (action = "tag" /\ ledger' = ledger)])
    /\ UNCHANGED <<files, marker, report, writes, faults, setup>>

(* Mutant: as many new learnings as tags at most. *)
DeltaAtMost(delta, tagged) == delta <= tagged

(* ok = delta == len(tagged): the count, not the answers, says what was written. *)
DeltaOk(delta, tagged) == delta = tagged

VerifyDelta(w) ==
    /\ pc[w] = "direct" /\ DOMAIN run[w].todo = {}
    /\ \E count \in Count :
          report' = [ok |-> DeltaOk(count.n - run[w].before, run[w].tagged),
                     failed |-> run[w].failed, misread |-> run[w].misread \/ count.misread]
    /\ Running(w, "idle", NoRun)
    /\ UNCHANGED <<files, calls, marker, writes, faults, setup>>

------------------------------------------------------------------------------
(* cortex_review.py. *)

(* Mutant: a contradiction is not told from what was committed. *)
ApproveUnresolved(r) ==
    /\ pc[r] = "idle" /\ r \in setup.reviewers
    /\ \E id \in Queue :
          /\ file[Pending(id)] \in Proposal
          /\ Reviewing(r, IF file[Pending(id)].action = "contradict" THEN "move" ELSE "commit",
                       Task(id, "approved"))
    /\ UNCHANGED <<files, calls, marker, report, writes, faults, setup>>

(* Mutant: the item is found, and not read. *)
ApproveUnread(r) ==
    /\ pc[r] = "idle" /\ r \in setup.reviewers
    /\ \E id \in Queue : Reviewing(r, "commit", [Task(id, "approved") EXCEPT !.item = Absent])
    /\ UNCHANGED <<files, calls, marker, report, writes, faults, setup>>

(* approve <id> [--force-tag]: a contradiction is only committed by force; *)
(* an item that is empty or torn cannot be read, and nothing happens.      *)
Approve(r) ==
    /\ pc[r] = "idle" /\ r \in setup.reviewers
    /\ \E id \in Queue, force \in BOOLEAN :
          /\ file[Pending(id)] \in Proposal
          /\ file[Pending(id)].action = "contradict" => force
          /\ Reviewing(r, "commit", Task(id, "approved"))
    /\ UNCHANGED <<files, calls, marker, report, writes, faults, setup>>

Reject(r) ==
    /\ pc[r] = "idle" /\ r \in setup.reviewers
    /\ \E id \in Queue : Reviewing(r, "move", Task(id, "rejected"))
    /\ UNCHANGED <<files, calls, marker, report, writes, faults, setup>>

(* approve-clean works through the items there are when it starts.         *)
ApproveClean(r) ==
    /\ pc[r] = "idle" /\ r \in setup.reviewers
    /\ Queue # {}
    /\ Reviewing(r, "next", [NoTask EXCEPT !.bulk = TRUE, !.list = Queue])
    /\ UNCHANGED <<files, calls, marker, report, writes, faults, setup>>

(* An item that is gone by now, or torn, ends the command.                 *)
NextClean(r) ==
    /\ pc[r] = "next"
    /\ \E id \in task[r].list :
          LET rest == task[r].list \ {id}
          IN  IF file[Pending(id)] \notin Proposal THEN Reviewing(r, "idle", NoTask)
              ELSE IF file[Pending(id)].action = "tag" /\ file[Pending(id)].novel
              THEN Reviewing(r, "commit",
                     [Task(id, "approved") EXCEPT !.bulk = TRUE, !.list = rest])
              ELSE IF rest = {} THEN Reviewing(r, "idle", NoTask)
              ELSE Reviewing(r, "next", [task[r] EXCEPT !.list = rest])
    /\ UNCHANGED <<files, calls, marker, report, writes, faults, setup>>

Commit(r) ==
    /\ pc[r] = "commit"
    /\ Call(task[r].id, task[r].item.action # "corroborate")
    /\ Reviewing(r, "move", task[r])
    /\ UNCHANGED <<files, marker, report, writes, faults, setup>>

(* What happens to pending/<id>.json when it is removed.                   *)
RemovePending(id) ==
    /\ file' = [file EXCEPT ![Pending(id)] = Absent]
    /\ out' = [q \in Producers \cup Reviewers |->
          IF pc[q] = "write" /\ Path(q) = Pending(id) /\ out[q] = "file" THEN "gone" ELSE out[q]]

(* Mutant: the file is taken out of pending before it is written elsewhere. *)
MoveRemovingFirst(r) ==
    LET id == task[r].id
    IN  /\ pc[r] = "move" /\ file[Pending(id)] \in Proposal
        /\ RemovePending(id)
        /\ Reviewing(r, "open", [task[r] EXCEPT !.item = file[Pending(id)]])
        /\ UNCHANGED <<tmp, overlapped, clashes, calls, marker, report, writes, faults, setup>>

(* A command ends: if the item had been committed, it will not be filed.   *)
GivesUp(r) ==
    /\ Reviewing(r, "idle", NoTask)
    /\ clashes' = IF task[r].dest = "approved" /\ task[r].id \in Queue THEN clashes + 1 ELSE clashes

(* _move reads the item again: if another reviewer was faster it raises,   *)
(* as it does if the item has been torn meanwhile.                         *)
Move(r) ==
    LET item == file[Pending(task[r].id)]
    IN  /\ pc[r] = "move"
        /\ IF item \in Proposal
           THEN Reviewing(r, "open", [task[r] EXCEPT !.item = item]) /\ UNCHANGED clashes
           ELSE GivesUp(r)
        /\ UNCHANGED <<file, tmp, out, overlapped, calls, marker, report, writes, faults, setup>>

(* What is in the way at the destination is replaced.                      *)
ReplaceFiled(r) ==
    /\ r \in Reviewers /\ pc[r] = "replace"
    /\ \/ Replaced(r) /\ Reviewing(r, "remove", task[r]) /\ UNCHANGED clashes
       \/ ReplaceRaises(r) /\ GivesUp(r)
    /\ UNCHANGED <<overlapped, calls, marker, report, writes, faults, setup>>

(* What the reviewer does when the item is moved: approve-clean goes on.   *)
Moved(r) ==
    IF task[r].list = {} THEN Reviewing(r, "idle", NoTask)
    ELSE Reviewing(r, "next", [NoTask EXCEPT !.bulk = TRUE, !.list = task[r].list])

(* Mutant: the item is copied, not moved. *)
RemoveNothing(r) ==
    /\ pc[r] = "remove"
    /\ Moved(r)
    /\ UNCHANGED <<files, calls, marker, report, writes, faults, setup>>

Remove(r) ==
    /\ pc[r] = "remove"
    /\ IF task[r].id \in Queue
       THEN RemovePending(task[r].id) /\ Moved(r)
       ELSE UNCHANGED <<file, out>> /\ Reviewing(r, "idle", NoTask)
    /\ UNCHANGED <<tmp, overlapped, clashes, calls, marker, report, writes, faults, setup>>

------------------------------------------------------------------------------

(* A producer or a reviewer dies (killed, no answer from the ledger or the *)
(* model): what it has renamed and what it has not stays as it is, and a   *)
(* producer leaves the marker.                                             *)
Die(p) ==
    /\ pc[p] # "idle"
    /\ faults < setup.maxFaults
    /\ faults' = faults + 1
    /\ GoTo(p, "idle")
    /\ run' = [w \in Producers |-> IF w = p THEN NoRun ELSE run[w]]
    /\ task' = [r \in Reviewers |-> IF r = p THEN NoTask ELSE task[r]]
    /\ out' = [out EXCEPT ![p] = "none"]
    /\ UNCHANGED <<file, tmp, overlapped, clashes, calls, marker, report, writes, setup>>

Init ==
    /\ setup \in Setups
    /\ file = [path \in Paths |-> Absent] /\ tmp = [path \in Paths |-> Absent]
    /\ out = [p \in Producers \cup Reviewers |-> "none"]
    /\ overlapped = {} /\ clashes = 0
    /\ ledger = {}
    /\ fresh = TRUE /\ unread = TRUE /\ skipped = FALSE
    /\ pc = [p \in Producers \cup Reviewers |-> "idle"]
    /\ run = [w \in Producers |-> NoRun]
    /\ task = [r \in Reviewers |-> NoTask]
    /\ report = [ok |-> TRUE, failed |-> FALSE, misread |-> FALSE]
    /\ writes = [id \in Ids |-> 0]
    /\ commits = [id \in Ids |-> 0]
    /\ refused = {}
    /\ faults = 0 /\ updates = 0

Produce(w) ==
    \/ Extract(w) \/ Emit(w) \/ OpenTmp(w) \/ WriteTmp(w) \/ ReplaceItem(w) \/ Touch(w)
    \/ CountBefore(w) \/ WriteDirect(w) \/ VerifyDelta(w)
Review(r) ==
    \/ NextClean(r) \/ Commit(r) \/ Move(r)
    \/ OpenTmp(r) \/ WriteTmp(r) \/ ReplaceFiled(r) \/ Remove(r)

Next ==
    \/ UpdateIndex
    \/ \E w \in Producers : Heartbeat(w) \/ Forced(w) \/ Produce(w) \/ Die(w)
    \/ \E r \in Reviewers : Approve(r) \/ Reject(r) \/ ApproveClean(r) \/ Review(r) \/ Die(r)

Spec == Init /\ [][Next]_vars

(* systemd fires the timer every day and lets a started run go on; nobody  *)
(* has to review.                                                          *)
FairSpec == Spec /\ \A w \in Producers : WF_vars(Heartbeat(w)) /\ WF_vars(Produce(w))

------------------------------------------------------------------------------
(* Properties. *)

Steps == {"idle", "extract", "emit", "open", "write", "replace", "count", "direct",
          "next", "commit", "move", "remove"}

(* A file is missing, empty, torn or an item, and a process's own copy of  *)
(* one is an item: nobody commits or files what is not.                    *)
TypeOK ==
    /\ file \in [Paths -> Content] /\ tmp \in [Paths -> Content]
    /\ out \in [Producers \cup Reviewers -> {"none", "tmp", "file", "gone"}]
    /\ refused \subseteq Ids /\ overlapped \subseteq Paths /\ clashes \in Nat
    /\ ledger \subseteq Learning /\ commits \in [Ids -> Nat] /\ writes \in [Ids -> Nat]
    /\ fresh \in BOOLEAN /\ unread \in BOOLEAN /\ skipped \in BOOLEAN
    /\ pc \in [Producers \cup Reviewers -> Steps]
    /\ \A r \in Reviewers : pc[r] \in {"commit", "move", "open", "write", "replace", "remove"} =>
          /\ task[r].id \in Ids /\ task[r].dest \in {"approved", "rejected"}
          /\ pc[r] \notin {"move", "remove"} => task[r].item \in Proposal
    /\ report \in [ok : BOOLEAN, failed : BOOLEAN, misread : BOOLEAN]

(* "this keeps judgment in the loop" (cortex_review.py:6): an item that    *)
(* was put in the queue is still there or has been filed under a verdict,  *)
(* whoever dies where: _move writes the new file before it removes the old.*)
(* And "Atomically drop a review item" (consolidate_run.py:37): no file is *)
(* empty or torn, unless two processes have had its temporary file open at *)
(* once.                                                                   *)
QueueConserves ==
    /\ \A id \in Ids : writes[id] > 0 => id \in Queue \cup Filed("approved") \cup Filed("rejected")
    /\ \A path \in Paths \ overlapped : file[path] \in Proposal \cup {Absent}

(* What is filed as approved has been committed, unless the ledger tool    *)
(* answered with an error, which nobody looks at.                          *)
ApprovedIsCommitted == \A id \in Filed("approved") : commits[id] > 0 \/ id \in refused

(* An approval commits an item once for each time it was queued and each   *)
(* reviewer who saw it there; once more only if somebody died in between,  *)
(* or could not file it because another process wrote the same file.       *)
DuplicatesAreFaults ==
    ~setup.direct => \A id \in Ids :
        commits[id] <= writes[id] * Cardinality(setup.reviewers) + faults + clashes

(* With one reviewer, none of whose commands died or clashed, an item that *)
(* was queued once gets one verdict: what is filed as rejected is not in   *)
(* the ledger.                                                             *)
OneVerdict ==
    Cardinality(setup.reviewers) <= 1 /\ faults + clashes = 0 => \A id \in Filed("rejected") :
        writes[id] = 1 => commits[id] = 0 /\ id \notin Filed("approved")

(* Verdicts stand: the two properties above.                               *)
VerdictsStand == DuplicatesAreFaults /\ OneVerdict

(* consolidate_run.py:14 "Independent ledger_stats delta is asserted": if  *)
(* a direct run has the ledger to itself and both its counts are answered, *)
(* it says OK only if every tag was written, whatever the tools answered   *)
(* and whichever ledger is counted; where that is the one that is written, *)
(* it says so exactly then.                                                *)
DeltaIsHonest ==
    Cardinality(setup.producers \cup setup.reviewers) = 1 /\ ~report.misread =>
        /\ report.ok => ~report.failed
        /\ setup.project = None /\ ~report.failed => report.ok

(* chat-consolidate.sh:48 "marker unchanged so next run retries": when the *)
(* index has changed, a run that began after it succeeds some day, as long *)
(* as the index does not change while one is under way, unless one whose   *)
(* extraction was lost has touched the marker.                             *)
DeltasAreProduced == setup.quiet => (unread ~> (~unread \/ skipped))

(* cortex_review.py:138 "Only truly-novel items (no topic-adjacent         *)
(* neighbor) are safe to bulk-commit": what approve-clean commits has no   *)
(* learning on its topic in the ledger at that time.                       *)
BulkIsNovel ==
    \A r \in Reviewers : pc[r] = "commit" /\ task[r].bulk => Known = {}

=============================================================================
