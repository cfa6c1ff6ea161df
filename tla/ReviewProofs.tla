--------------------------- MODULE ReviewProofs ---------------------------
(***************************************************************************)
(* Theorems about ReviewQueue, for any number of producers and reviewers,  *)
(* of claims and of days, and for every bound.                             *)
(***************************************************************************)
EXTENDS ReviewQueue, FiniteSetTheorems, TLAPS

------------------------------------------------------------------------------
(* The inductive invariant. *)

Writing == {"write", "replace"}
Copying == {"open", "write", "replace"}
Active == {"extract", "emit", "count", "direct"} \cup Copying
RunOf(d, t, c, m, s, b, e, n, f) ==
    [day |-> d, todo |-> t, claim |-> c, missed |-> m, lost |-> s,
     before |-> b, misread |-> e, tagged |-> n, failed |-> f]
RunShape(x) ==
    x = RunOf(x.day, x.todo, x.claim, x.missed, x.lost, x.before, x.misread, x.tagged, x.failed)
TodoOK(todo) == \A c \in DOMAIN todo : c \in Claims /\ todo[c] \in Proposal
FlagsOK(x) == x.failed \in BOOLEAN /\ x.lost \in BOOLEAN /\ x.misread \in BOOLEAN

(* A producer that is at `step' with the run x.                            *)
RunAt(step, x) ==
    /\ RunShape(x) /\ TodoOK(x.todo) /\ FlagsOK(x)
    /\ step \in Active => x.day \in Days
    /\ step \in Copying => x.claim \in DOMAIN x.todo

TaskOf(i, m, d, b, l) == [id |-> i, item |-> m, dest |-> d, bulk |-> b, list |-> l]
TaskShape(t) == t = TaskOf(t.id, t.item, t.dest, t.bulk, t.list)

Holding == {"commit", "move", "remove"} \cup Copying

(* A reviewer that is at `step' with the task t: it commits only what is   *)
(* to be approved.                                                         *)
TaskAt(step, t) ==
    /\ TaskShape(t) /\ t.list \subseteq Ids
    /\ step \in Holding => t.id \in Ids /\ t.dest \in {"approved", "rejected"}
    /\ step \in {"commit"} \cup Copying => t.item \in Proposal
    /\ step = "commit" => t.dest = "approved"

Runs == \A w \in Producers : RunAt(pc[w], run[w])
Tasks == \A r \in Reviewers : TaskAt(pc[r], task[r])

Files ==
    /\ file \in [Paths -> Content] /\ tmp \in [Paths -> Content]
    /\ out \in [Producers \cup Reviewers -> {"none", "tmp", "file", "gone"}]
    /\ overlapped \subseteq Paths /\ clashes \in Nat
(* The learnings that state a claim are numbered from 1 on.                *)
LedgerInv == IsFiniteSet(ledger) /\ \A l \in ledger : l.nth <= Cardinality(Stating(l.claim))
Calls ==
    /\ refused \subseteq Ids /\ commits \in [Ids -> Nat]
    /\ ledger \subseteq Learning /\ LedgerInv
Rest ==
    /\ writes \in [Ids -> Nat]
    /\ fresh \in BOOLEAN /\ unread \in BOOLEAN /\ skipped \in BOOLEAN
    /\ report \in [ok : BOOLEAN, failed : BOOLEAN, misread : BOOLEAN]
    /\ setup \in Setups
Control ==
    /\ pc \in [Producers \cup Reviewers -> Steps]
    /\ run = [w \in Producers |-> run[w]] /\ task = [r \in Reviewers |-> task[r]]
    /\ Runs /\ Tasks

(* The file of a path that no two processes have had open at once: only    *)
(* one is writing there, to a temporary file that nobody renames but it.   *)
PathOK(path) ==
    /\ \A p \in WritersOf(path) : \A q \in WritersOf(path) : p = q
    /\ \A p \in WritersOf(path) :
          /\ pc[p] = "write" => out[p] = "tmp" /\ tmp[path] = Empty
          /\ pc[p] = "replace" => tmp[path] \in Proposal
    /\ file[path] \in Proposal \cup {Absent}
PathsOK == \A path \in Paths \ overlapped : PathOK(path)

(* Who writes to a file that has its final name writes to one that is there. *)
OutOK ==
    \A p \in Producers \cup Reviewers :
        out[p] = "file" => pc[p] = "write" /\ file[Path(p)] # Absent

(* An item is taken out of pending only when it is filed.                  *)
Safe(step, t) == step = "remove" => file[<<t.dest, t.id>>] # Absent
RemovedAreFiled == \A r \in Reviewers : Safe(pc[r], task[r])

(* What is on its way to approved has been committed.                      *)
Settled(id) == commits[id] > 0 \/ id \in refused
Backed(step, t) == step \in {"move"} \cup Copying /\ t.dest = "approved" => Settled(t.id)
MovedAreCommitted == \A r \in Reviewers : Backed(pc[r], task[r])

Conserved ==
    \A id \in Ids : writes[id] > 0 => id \in Queue \cup Filed("approved") \cup Filed("rejected")
Book == RemovedAreFiled /\ MovedAreCommitted /\ Conserved /\ ApprovedIsCommitted

IInv == Files /\ Calls /\ Rest /\ Control /\ PathsOK /\ OutOK /\ Book

LEMMA IInvTypeOK == IInv => TypeOK
BY DEF IInv, TypeOK, Files, Calls, Rest, Control, Tasks, TaskAt, Holding, Copying

LEMMA IInvQueueConserves == IInv => QueueConserves
BY DEF IInv, QueueConserves, Book, Conserved, PathsOK, PathOK

(* The three sentinels are no items, and differ as far as it matters.      *)
LEMMA NoItems ==
    /\ Absent \notin Proposal /\ Empty \notin Proposal /\ Garbled \notin Proposal
    /\ Absent # Empty /\ Absent # Garbled
BY ReviewAssumption DEF Proposal

------------------------------------------------------------------------------
(* One process takes a step of its own. *)

(* Where a process is, its run or task, and so its path, are as they were. *)
Still(q) ==
    /\ pc'[q] = pc[q]
    /\ (q \in Producers => run'[q] = run[q]) /\ (q \in Reviewers => task'[q] = task[q])

LEMMA StillPath ==
    ASSUME NEW q \in Producers \cup Reviewers, Still(q)
    PROVE  Path(q)' = Path(q) /\ Text(q)' = Text(q)
BY DEF Still, Path, Text, Pending

LEMMA RunningControl ==
    ASSUME Control, NEW w \in Producers, NEW step \in Steps, NEW x,
           Running(w, step, x), RunAt(step, x)
    PROVE  /\ Control' /\ pc'[w] = step /\ run'[w] = x
           /\ \A q \in (Producers \cup Reviewers) \ {w} : Still(q)
           /\ \A r \in Reviewers : pc'[r] = pc[r] /\ task'[r] = task[r]
<1>1. pc' = [pc EXCEPT ![w] = step] /\ run' = [run EXCEPT ![w] = x] /\ task' = task
  BY DEF Running, GoTo
<1>2. pc' \in [Producers \cup Reviewers -> Steps]
  BY <1>1 DEF Control
<1>3. run' = [v \in Producers |-> run'[v]] /\ task' = [r \in Reviewers |-> task'[r]]
  BY <1>1 DEF Control
<1>4. \A r \in Reviewers : pc'[r] = pc[r] /\ task'[r] = task[r]
  BY <1>1, ReviewAssumption DEF Control
<1>5. pc'[w] = step /\ run'[w] = x
  BY <1>1 DEF Control
<1>6. \A q \in (Producers \cup Reviewers) \ {w} : Still(q)
  BY <1>1 DEF Still, Control
<1>7. Runs'
  <2> SUFFICES ASSUME NEW v \in Producers PROVE RunAt(pc'[v], run'[v])
    BY DEF Runs
  <2>1. CASE v = w
    BY <1>5, <2>1
  <2>2. CASE v # w
    BY <1>6, <2>2 DEF Control, Runs, Still
  <2> QED
    BY <2>1, <2>2
<1>8. Tasks'
  BY <1>4 DEF Control, Tasks
<1> QED
  BY <1>2, <1>3, <1>4, <1>5, <1>6, <1>7, <1>8 DEF Control

LEMMA ReviewingControl ==
    ASSUME Control, NEW r \in Reviewers, NEW step \in Steps, NEW t,
           Reviewing(r, step, t), TaskAt(step, t)
    PROVE  /\ Control' /\ pc'[r] = step /\ task'[r] = t
           /\ \A q \in (Producers \cup Reviewers) \ {r} : Still(q)
           /\ \A q \in Reviewers \ {r} : pc'[q] = pc[q] /\ task'[q] = task[q]
<1>1. pc' = [pc EXCEPT ![r] = step] /\ task' = [task EXCEPT ![r] = t] /\ run' = run
  BY DEF Reviewing, GoTo
<1>2. pc' \in [Producers \cup Reviewers -> Steps]
  BY <1>1 DEF Control
<1>3. run' = [v \in Producers |-> run'[v]] /\ task' = [q \in Reviewers |-> task'[q]]
  BY <1>1 DEF Control
<1>4. \A v \in Producers : pc'[v] = pc[v] /\ run'[v] = run[v]
  BY <1>1, ReviewAssumption DEF Control
<1>5. Runs'
  BY <1>4 DEF Control, Runs
<1>6. pc'[r] = step /\ task'[r] = t
  BY <1>1 DEF Control
<1>7. \A q \in (Producers \cup Reviewers) \ {r} : Still(q)
  BY <1>1 DEF Still, Control
<1>8. \A q \in Reviewers \ {r} : pc'[q] = pc[q] /\ task'[q] = task[q]
  BY <1>7 DEF Still
<1>9. Tasks'
  BY <1>6, <1>8 DEF Control, Tasks
<1> QED
  BY <1>2, <1>3, <1>5, <1>6, <1>7, <1>8, <1>9 DEF Control

(* A process goes on with the copy it has.                                 *)
LEMMA CopyingControl ==
    ASSUME Control, NEW p \in Producers \cup Reviewers, NEW step \in Copying, pc[p] \in Copying,
           GoTo(p, step), UNCHANGED <<run, task>>
    PROVE  /\ Control' /\ pc'[p] = step
           /\ \A q \in (Producers \cup Reviewers) \ {p} : Still(q)
<1>1. pc' = [pc EXCEPT ![p] = step] /\ run' = run /\ task' = task
  BY DEF GoTo
<1>2. pc' \in [Producers \cup Reviewers -> Steps] /\ pc'[p] = step
  BY <1>1 DEF Control, Steps, Copying
<1>3. \A q \in (Producers \cup Reviewers) \ {p} : Still(q)
  BY <1>1 DEF Still, Control
<1>4. Runs'
  <2> SUFFICES ASSUME NEW v \in Producers PROVE RunAt(pc'[v], run'[v])
    BY DEF Runs
  <2>1. RunAt(pc[v], run[v])
    BY DEF Control, Runs
  <2>2. CASE v = p
    BY <1>1, <1>2, <2>1, <2>2 DEF RunAt, Active
  <2>3. CASE v # p
    BY <1>3, <2>1, <2>3 DEF Still
  <2> QED
    BY <2>2, <2>3
<1>5. Tasks'
  <2> SUFFICES ASSUME NEW r \in Reviewers PROVE TaskAt(pc'[r], task'[r])
    BY DEF Tasks
  <2>1. TaskAt(pc[r], task[r])
    BY DEF Control, Tasks
  <2>2. CASE r = p
    BY <1>1, <1>2, <2>1, <2>2 DEF TaskAt, Holding, Copying
  <2>3. CASE r # p
    BY <1>3, <2>1, <2>3 DEF Still
  <2> QED
    BY <2>2, <2>3
<1> QED
  BY <1>1, <1>2, <1>3, <1>4, <1>5 DEF Control

(* What a process copies is an item, and it knows where to.                *)
LEMMA CopyOf ==
    ASSUME Control, NEW p \in Producers \cup Reviewers, pc[p] \in Copying
    PROVE  Path(p) \in Paths /\ Text(p) \in Proposal
<1>1. CASE p \in Producers
  <2>1. RunAt(pc[p], run[p])
    BY <1>1 DEF Control, Runs
  <2> QED
    BY <1>1, <2>1 DEF RunAt, Active, TodoOK, Path, Text, Paths, Pending, Ids
<1>2. CASE p \notin Producers
  <2>1. TaskAt(pc[p], task[p])
    BY <1>2 DEF Control, Tasks
  <2> QED
    BY <1>2, <2>1 DEF TaskAt, Holding, Path, Text, Paths
<1> QED
  BY <1>1, <1>2

------------------------------------------------------------------------------
(* What the steps do to the files. *)

(* Nothing: who is writing is writing where it was.                        *)
LEMMA StillPaths ==
    ASSUME PathsOK, OutOK, UNCHANGED <<file, tmp, overlapped>>,
           \A q \in Producers \cup Reviewers :
              \/ Still(q) /\ out'[q] = out[q]
              \/ pc'[q] \notin Writing /\ out'[q] # "file"
    PROVE  PathsOK' /\ OutOK'
<1>1. ASSUME NEW q \in Producers \cup Reviewers, out'[q] = "file"
      PROVE  pc'[q] = "write" /\ file'[Path(q)'] # Absent
  <2>1. Still(q) /\ out[q] = "file"
    BY <1>1
  <2> QED
    BY <2>1, StillPath DEF OutOK, Still
<1>2. ASSUME NEW path, NEW q \in WritersOf(path)'
      PROVE  q \in WritersOf(path) /\ pc'[q] = pc[q] /\ out'[q] = out[q]
  <2>1. q \in Producers \cup Reviewers /\ pc'[q] \in Writing /\ Path(q)' = path
    BY <1>2 DEF WritersOf, Writing
  <2>2. Still(q) /\ out'[q] = out[q]
    BY <2>1
  <2> QED
    BY <2>1, <2>2, StillPath DEF Still, WritersOf, Writing
<1>3. ASSUME NEW path \in Paths \ overlapped PROVE PathOK(path)'
  <2>1. PathOK(path)
    BY <1>3 DEF PathsOK
  <2> QED
    BY <1>2, <2>1 DEF PathOK
<1> QED
  BY <1>1, <1>3 DEF PathsOK, OutOK

(* All writers of a path but p, after a step that only p takes.            *)
LEMMA OtherWriters ==
    ASSUME NEW p, \A q \in (Producers \cup Reviewers) \ {p} : Still(q), NEW path
    PROVE  WritersOf(path)' \ {p} = WritersOf(path) \ {p}
<1>1. \A q \in (Producers \cup Reviewers) \ {p} : pc'[q] = pc[q] /\ Path(q)' = Path(q)
  BY StillPath DEF Still
<1> QED
  BY <1>1 DEF WritersOf

LEMMA OpenTmpFiles ==
    ASSUME IInv, NEW p \in Producers \cup Reviewers, OpenTmp(p)
    PROVE  /\ PathsOK' /\ OutOK' /\ Files' /\ Control' /\ pc'[p] = "write"
           /\ \A q \in (Producers \cup Reviewers) \ {p} : Still(q)
<1> DEFINE P == Path(p)
<1>1. /\ pc[p] = "open" /\ GoTo(p, "write") /\ UNCHANGED <<run, task, file, clashes>>
      /\ tmp' = [tmp EXCEPT ![P] = Empty] /\ out' = [out EXCEPT ![p] = "tmp"]
      /\ overlapped' = IF WritersOf(P) = {} THEN overlapped ELSE overlapped \cup {P}
  BY DEF OpenTmp
<1>2. /\ Control' /\ pc'[p] = "write"
      /\ \A q \in (Producers \cup Reviewers) \ {p} : Still(q)
  BY <1>1, CopyingControl DEF IInv, Copying
<1>3. P \in Paths /\ P' = P
  BY <1>1, CopyOf DEF IInv, Copying, Path, Pending
<1> HIDE DEF P
<1>4. Files'
  BY <1>1, <1>3 DEF IInv, Files, Content
<1>5. out'[p] = "tmp" /\ \A q \in (Producers \cup Reviewers) \ {p} : out'[q] = out[q]
  BY <1>1 DEF IInv, Files
<1>6. OutOK'
  <2> SUFFICES ASSUME NEW q \in Producers \cup Reviewers, out'[q] = "file"
               PROVE  pc'[q] = "write" /\ file'[Path(q)'] # Absent
    BY DEF OutOK
  <2>1. q # p /\ Still(q) /\ out[q] = "file"
    BY <1>2, <1>5
  <2> QED
    BY <1>1, <2>1, StillPath DEF IInv, OutOK, Still
<1>7. ASSUME NEW path \in Paths \ overlapped' PROVE PathOK(path)'
  <2>1. PathOK(path)
    BY <1>1, <1>7 DEF IInv, PathsOK
  <2>2. WritersOf(path)' \ {p} = WritersOf(path) \ {p}
    BY <1>2, OtherWriters
  <2>3. p \notin WritersOf(path) /\ (p \in WritersOf(path)' => path = P)
    BY <1>1, <1>3 DEF WritersOf, P
  <2>4. CASE path = P
    <3>1. WritersOf(path) = {}
      BY <1>1, <1>7, <2>4
    <3>2. \A q \in WritersOf(path)' : q = p
      BY <2>2, <3>1
    <3>3. tmp'[path] = Empty /\ file'[path] = file[path]
      BY <1>1, <1>3, <2>4 DEF IInv, Files
    <3> QED
      BY <1>2, <1>5, <2>1, <3>2, <3>3 DEF PathOK
  <2>5. CASE path # P
    <3>1. WritersOf(path)' = WritersOf(path)
      BY <2>2, <2>3, <2>5
    <3>2. \A q \in WritersOf(path) : pc'[q] = pc[q] /\ out'[q] = out[q]
      BY <1>2, <1>5, <2>3 DEF WritersOf, Still
    <3>3. tmp'[path] = tmp[path] /\ file'[path] = file[path]
      BY <1>1, <2>5, <1>7 DEF IInv, Files
    <3> QED
      BY <2>1, <3>1, <3>2, <3>3 DEF PathOK
  <2> QED
    BY <2>4, <2>5
<1> QED
  BY <1>2, <1>4, <1>6, <1>7 DEF PathsOK

(* Writing makes no file, and unmakes none.                                *)
LEMMA WriteTmpFiles ==
    ASSUME IInv, NEW p \in Producers \cup Reviewers, WriteTmp(p)
    PROVE  /\ PathsOK' /\ OutOK' /\ Files' /\ Control' /\ pc'[p] = "replace"
           /\ \A q \in (Producers \cup Reviewers) \ {p} : Still(q)
           /\ \A path \in Paths : (file[path] = Absent)' = (file[path] = Absent)
<1> DEFINE P == Path(p)
<1>1. /\ pc[p] = "write" /\ GoTo(p, "replace") /\ UNCHANGED <<run, task, overlapped, clashes>>
      /\ out' = [out EXCEPT ![p] = "none"]
      /\ \/ /\ out[p] = "tmp" /\ file' = file
            /\ \E c \in Over(tmp[P], Text(p)) : tmp' = [tmp EXCEPT ![P] = c]
         \/ /\ out[p] = "file" /\ tmp' = tmp
            /\ \E c \in Over(file[P], Text(p)) : file' = [file EXCEPT ![P] = c]
         \/ out[p] = "gone" /\ UNCHANGED <<file, tmp>>
  BY DEF WriteTmp
<1>2. /\ Control' /\ pc'[p] = "replace"
      /\ \A q \in (Producers \cup Reviewers) \ {p} : Still(q)
  BY <1>1, CopyingControl DEF IInv, Copying
<1>3. P \in Paths /\ P' = P /\ Text(p) \in Proposal
  BY <1>1, CopyOf DEF IInv, Copying, Path, Pending
<1>5. \A x : \A c \in Over(x, Text(p)) : c \in Content /\ c # Absent
  BY <1>3, NoItems DEF Over, Content
<1> HIDE DEF P
<1>6. Files'
  BY <1>1, <1>3, <1>5 DEF IInv, Files
<1>7. out'[p] = "none" /\ \A q \in (Producers \cup Reviewers) \ {p} : out'[q] = out[q]
  BY <1>1 DEF IInv, Files
<1>8. ASSUME NEW path \in Paths PROVE (file'[path] = Absent) = (file[path] = Absent)
  <2>1. CASE file' = file
    BY <2>1
  <2>2. CASE out[p] = "file" /\ \E c \in Over(file[P], Text(p)) : file' = [file EXCEPT ![P] = c]
    <3>1. file[P] # Absent
      BY <2>2 DEF IInv, OutOK, P
    <3> QED
      BY <1>3, <1>5, <2>2, <3>1 DEF IInv, Files
  <2> QED
    BY <1>1, <2>1, <2>2
<1>9. OutOK'
  <2> SUFFICES ASSUME NEW q \in Producers \cup Reviewers, out'[q] = "file"
               PROVE  pc'[q] = "write" /\ file'[Path(q)'] # Absent
    BY DEF OutOK
  <2>1. q # p /\ Still(q) /\ out[q] = "file"
    BY <1>2, <1>7
  <2>2. pc[q] = "write" /\ file[Path(q)] # Absent
    BY <2>1 DEF IInv, OutOK
  <2>3. Path(q) \in Paths
    BY <2>2, CopyOf DEF IInv, Copying
  <2> QED
    BY <1>8, <2>1, <2>2, <2>3, StillPath DEF Still
<1>10. ASSUME NEW path \in Paths \ overlapped PROVE PathOK(path)'
  <2>1. PathOK(path)
    BY <1>10 DEF IInv, PathsOK
  <2>2. WritersOf(path)' \ {p} = WritersOf(path) \ {p}
    BY <1>2, OtherWriters
  <2>3. /\ p \in WritersOf(path) <=> path = P
        /\ p \in WritersOf(path)' <=> path = P
    BY <1>1, <1>2, <1>3 DEF WritersOf, P
  <2>4. CASE path = P
    <3>1. \A q \in WritersOf(path)' : q = p
      BY <2>1, <2>2, <2>3, <2>4 DEF PathOK
    <3>2. out[p] = "tmp" /\ tmp[path] = Empty
      BY <1>1, <2>1, <2>3, <2>4 DEF PathOK
    <3>3. file' = file /\ tmp' = [tmp EXCEPT ![P] = Text(p)]
      BY <1>1, <2>4, <3>2 DEF Over
    <3>4. tmp'[path] \in Proposal
      BY <1>3, <2>4, <3>3 DEF IInv, Files
    <3> QED
      BY <1>2, <2>1, <3>1, <3>3, <3>4 DEF PathOK
  <2>5. CASE path # P
    <3>1. WritersOf(path)' = WritersOf(path)
      BY <2>2, <2>3, <2>5
    <3>2. \A q \in WritersOf(path) : pc'[q] = pc[q] /\ out'[q] = out[q]
      BY <1>2, <1>7, <2>3, <2>5 DEF WritersOf, Still
    <3>3. tmp'[path] = tmp[path] /\ file'[path] = file[path]
      BY <1>1, <2>5, <1>10 DEF IInv, Files
    <3> QED
      BY <2>1, <3>1, <3>2, <3>3 DEF PathOK
  <2> QED
    BY <2>4, <2>5
<1> QED
  BY <1>1, <1>2, <1>6, <1>8, <1>9, <1>10 DEF PathsOK

(* A rename makes the file of a path, whatever is in the temporary one.    *)
LEMMA ReplacedFiles ==
    ASSUME IInv, NEW p \in Producers \cup Reviewers, pc[p] = "replace", Replaced(p),
           overlapped' = overlapped, pc'[p] \notin Writing, clashes' = clashes,
           \A q \in (Producers \cup Reviewers) \ {p} : Still(q)
    PROVE  /\ PathsOK' /\ OutOK' /\ Files'
           /\ Path(p) \in Paths /\ file'[Path(p)] # Absent
           /\ \A path \in Paths \ {Path(p)} : file'[path] = file[path]
<1> DEFINE P == Path(p)
<1>1. /\ tmp[P] # Absent /\ file' = [file EXCEPT ![P] = tmp[P]]
      /\ tmp' = [tmp EXCEPT ![P] = Absent] /\ out' = Renamed(P)
  BY DEF Replaced
<1>2. P \in Paths
  BY CopyOf DEF IInv, Copying
<1>3. file'[P] = tmp[P] /\ \A path \in Paths \ {P} : file'[path] = file[path] /\ tmp'[path] = tmp[path]
  BY <1>1, <1>2 DEF IInv, Files
<1>4. \A q \in Producers \cup Reviewers :
         out'[q] = IF pc[q] = "write" /\ Path(q) = P /\ out[q] \in {"tmp", "file"}
                   THEN IF out[q] = "tmp" THEN "file" ELSE "gone"
                   ELSE out[q]
  BY <1>1 DEF Renamed
<1> HIDE DEF P
<1>5. Files'
  <2>1. file' \in [Paths -> Content] /\ tmp' \in [Paths -> Content]
    BY <1>1, <1>2 DEF IInv, Files, Content
  <2>2. out' \in [Producers \cup Reviewers -> {"none", "tmp", "file", "gone"}]
    <3>1. \A q \in Producers \cup Reviewers : out[q] \in {"none", "tmp", "file", "gone"}
      BY DEF IInv, Files
    <3> QED
      BY <1>1, <3>1 DEF Renamed
  <2> QED
    BY <2>1, <2>2 DEF IInv, Files
<1>6. OutOK'
  <2> SUFFICES ASSUME NEW q \in Producers \cup Reviewers, out'[q] = "file"
               PROVE  pc'[q] = "write" /\ file'[Path(q)'] # Absent
    BY DEF OutOK
  <2>1. CASE pc[q] = "write" /\ Path(q) = P /\ out[q] = "tmp"
    <3>1. Still(q)
      BY <2>1
    <3> QED
      BY <1>1, <1>3, <2>1, <3>1, StillPath DEF Still
  <2>2. CASE out[q] = "file" /\ ~(pc[q] = "write" /\ Path(q) = P)
    <3>1. pc[q] = "write" /\ file[Path(q)] # Absent
      BY <2>2 DEF IInv, OutOK
    <3>2. Path(q) \in Paths
      BY <3>1, CopyOf DEF IInv, Copying
    <3>3. Still(q)
      BY <3>1
    <3> QED
      BY <1>3, <2>2, <3>1, <3>2, <3>3, StillPath DEF Still
  <2> QED
    BY <1>4, <2>1, <2>2
<1>7. ASSUME NEW path \in Paths \ overlapped PROVE PathOK(path)'
  <2>1. PathOK(path)
    BY <1>7 DEF IInv, PathsOK
  <2>2. WritersOf(path)' = WritersOf(path) \ {p}
    <3>1. WritersOf(path)' \ {p} = WritersOf(path) \ {p}
      BY OtherWriters
    <3>2. p \notin WritersOf(path)'
      BY DEF WritersOf, Writing
    <3> QED
      BY <3>1, <3>2
  <2>3. CASE path = P
    <3>1. p \in WritersOf(path)
      BY <2>3 DEF WritersOf, P
    <3>2. WritersOf(path)' = {} /\ tmp[path] \in Proposal
      BY <2>1, <2>2, <3>1 DEF PathOK
    <3> QED
      BY <1>3, <2>3, <3>2 DEF PathOK
  <2>4. CASE path # P
    <3>1. \A q \in WritersOf(path)' : pc'[q] = pc[q] /\ out'[q] = out[q]
      <4> TAKE q \in WritersOf(path)'
      <4>1. q \in WritersOf(path) /\ q # p
        BY <2>2
      <4>2. q \in Producers \cup Reviewers /\ Path(q) = path
        BY <4>1 DEF WritersOf
      <4> QED
        BY <1>4, <2>4, <4>1, <4>2 DEF Still
    <3> QED
      BY <1>3, <1>7, <2>1, <2>2, <2>4, <3>1 DEF PathOK
  <2> QED
    BY <2>3, <2>4
<1> QED
  BY <1>1, <1>2, <1>3, <1>5, <1>6, <1>7 DEF PathsOK, P

(* Removing a pending item leaves a writer of it with a file of no name.   *)
LEMMA RemovePendingFiles ==
    ASSUME IInv, NEW p \in Producers \cup Reviewers, NEW id \in Ids, RemovePending(id),
           pc[p] # "write", pc'[p] \notin Writing, UNCHANGED <<tmp, overlapped, clashes>>,
           \A q \in (Producers \cup Reviewers) \ {p} : Still(q)
    PROVE  /\ PathsOK' /\ OutOK' /\ Files'
           /\ file'[Pending(id)] = Absent
           /\ \A path \in Paths \ {Pending(id)} : file'[path] = file[path]
<1> DEFINE P == Pending(id)
<1>1. /\ file' = [file EXCEPT ![P] = Absent]
      /\ out' = [q \in Producers \cup Reviewers |->
            IF pc[q] = "write" /\ Path(q) = P /\ out[q] = "file" THEN "gone" ELSE out[q]]
  BY DEF RemovePending
<1>2. P \in Paths
  BY DEF Paths, Pending
<1>3. file'[P] = Absent /\ \A path \in Paths \ {P} : file'[path] = file[path]
  BY <1>1, <1>2 DEF IInv, Files
<1>4. \A q \in Producers \cup Reviewers :
         out'[q] = IF pc[q] = "write" /\ Path(q) = P /\ out[q] = "file" THEN "gone" ELSE out[q]
  BY <1>1
<1> HIDE DEF P
<1>5. Files'
  <2>1. file' \in [Paths -> Content]
    BY <1>1, <1>2 DEF IInv, Files, Content
  <2>2. out' \in [Producers \cup Reviewers -> {"none", "tmp", "file", "gone"}]
    <3>1. \A q \in Producers \cup Reviewers : out[q] \in {"none", "tmp", "file", "gone"}
      BY DEF IInv, Files
    <3> QED
      BY <1>1, <3>1
  <2> QED
    BY <2>1, <2>2 DEF IInv, Files
<1>6. OutOK'
  <2> SUFFICES ASSUME NEW q \in Producers \cup Reviewers, out'[q] = "file"
               PROVE  pc'[q] = "write" /\ file'[Path(q)'] # Absent
    BY DEF OutOK
  <2>1. out[q] = "file" /\ ~(pc[q] = "write" /\ Path(q) = P)
    BY <1>4
  <2>2. pc[q] = "write" /\ file[Path(q)] # Absent
    BY <2>1 DEF IInv, OutOK
  <2>3. Path(q) \in Paths
    BY <2>2, CopyOf DEF IInv, Copying
  <2>4. Still(q)
    BY <2>2
  <2> QED
    BY <1>3, <2>1, <2>2, <2>3, <2>4, StillPath DEF Still
<1>7. ASSUME NEW path \in Paths \ overlapped PROVE PathOK(path)'
  <2>1. PathOK(path)
    BY <1>7 DEF IInv, PathsOK
  <2>2. WritersOf(path)' \subseteq WritersOf(path) \ {p}
    <3>1. WritersOf(path)' \ {p} = WritersOf(path) \ {p}
      BY OtherWriters
    <3>2. p \notin WritersOf(path)'
      BY DEF WritersOf, Writing
    <3> QED
      BY <3>1, <3>2
  <2>3. \A q \in WritersOf(path)' : pc'[q] = pc[q] /\ out'[q] = out[q]
    <3> TAKE q \in WritersOf(path)'
    <3>1. q \in WritersOf(path) /\ q # p
      BY <2>2
    <3>2. q \in Producers \cup Reviewers
      BY <3>1 DEF WritersOf
    <3>3. pc[q] = "write" => out[q] = "tmp"
      BY <2>1, <3>1 DEF PathOK
    <3> QED
      BY <1>4, <3>1, <3>2, <3>3 DEF Still
  <2>4. file'[path] \in Proposal \cup {Absent}
    BY <1>3, <1>7, <2>1 DEF PathOK
  <2> QED
    BY <2>1, <2>2, <2>3, <2>4 DEF PathOK
<1> QED
  BY <1>3, <1>5, <1>6, <1>7 DEF PathsOK, P

------------------------------------------------------------------------------
(* What the steps do to the book of items. *)

(* The files of each directory, the queue's history and the ledger's word  *)
(* are as they were; a reviewer has moved, if at all, to where it may be.  *)
LEMMA BookKept ==
    ASSUME Book, Control, \A path \in Paths : (file[path] = Absent)' = (file[path] = Absent),
           UNCHANGED <<commits, refused, writes>>,
           \A r \in Reviewers :
              \/ pc'[r] = pc[r] /\ task'[r] = task[r]
              \/ pc'[r] # "remove" /\ Backed(pc'[r], task'[r])
    PROVE  Book'
<1>1. ASSUME NEW dir \in {"pending", "approved", "rejected"} PROVE Filed(dir)' = Filed(dir)
  BY <1>1 DEF Filed, Paths
<1>2. Queue' = Queue
  BY <1>1 DEF Queue
<1>3. RemovedAreFiled'
  <2> SUFFICES ASSUME NEW r \in Reviewers, pc'[r] = "remove"
               PROVE  file'[<<task'[r].dest, task'[r].id>>] # Absent
    BY DEF RemovedAreFiled, Safe
  <2>1. pc[r] = "remove" /\ task'[r] = task[r]
    OBVIOUS
  <2>2. <<task[r].dest, task[r].id>> \in Paths /\ file[<<task[r].dest, task[r].id>>] # Absent
    BY <2>1 DEF Book, RemovedAreFiled, Safe, Control, Tasks, TaskAt, Holding, Paths
  <2> QED
    BY <2>1, <2>2
<1>4. MovedAreCommitted'
  BY DEF Book, MovedAreCommitted, Backed, Settled
<1>5. Conserved'
  BY <1>1, <1>2 DEF Book, Conserved
<1>6. ApprovedIsCommitted'
  BY <1>1 DEF Book, ApprovedIsCommitted
<1> QED
  BY <1>3, <1>4, <1>5, <1>6 DEF Book

(* A tag that is taken makes one learning more, which was not there.       *)
LEMMA TagAdds ==
    ASSUME Calls, NEW c \in Claims, NEW l, l = [claim |-> c, nth |-> Cardinality(Stating(c)) + 1],
           ledger' = ledger \cup {l}
    PROVE  /\ ledger' \subseteq Learning /\ LedgerInv'
           /\ ledger' # ledger /\ Cardinality(ledger') = Cardinality(ledger) + 1
<1> DEFINE n == Cardinality(Stating(c))
<1>1. IsFiniteSet(ledger) /\ \A k \in ledger : k \in Learning /\ k.nth <= Cardinality(Stating(k.claim))
  BY DEF Calls, LedgerInv
<1>2. IsFiniteSet(Stating(c)) /\ n \in Nat
  BY <1>1, FS_Subset, FS_CardinalityType DEF Stating
<1>3. l \in Learning /\ l.claim = c /\ l.nth = n + 1
  BY <1>2 DEF Learning
<1>4. l \notin ledger
  <2> SUFFICES ASSUME l \in ledger PROVE FALSE
    OBVIOUS
  <2>1. l.nth <= n
    BY <1>1, <1>3
  <2> QED
    BY <1>2, <1>3, <2>1
<1>5. IsFiniteSet(ledger') /\ Cardinality(ledger') = Cardinality(ledger) + 1
  BY <1>1, <1>4, FS_AddElement
<1>6. Stating(c)' = Stating(c) \cup {l} /\ l \notin Stating(c)
  BY <1>3, <1>4 DEF Stating
<1>7. Cardinality(Stating(c)') = n + 1
  BY <1>2, <1>6, FS_AddElement
<1>8. ASSUME NEW k \in ledger' PROVE k.nth <= Cardinality({m \in ledger' : m.claim = k.claim})
  <2>0. Stating(c)' = {m \in ledger' : m.claim = c} /\ \A d : Stating(d) = {m \in ledger : m.claim = d}
    BY DEF Stating
  <2>1. CASE k = l
    <3>1. {m \in ledger' : m.claim = k.claim} = Stating(c)'
      BY <1>3, <2>0, <2>1
    <3>2. Cardinality({m \in ledger' : m.claim = k.claim}) = n + 1
      BY ONLY <1>7, <3>1
    <3> HIDE DEF n
    <3> QED
      BY ONLY <1>2, <1>3, <2>1, <3>2
  <2>2. CASE k # l /\ k.claim = c
    <3>1. k \in ledger /\ k.nth <= n /\ k.nth \in Nat
      BY <1>1, <2>2 DEF Learning
    <3>2. {m \in ledger' : m.claim = k.claim} = Stating(c)'
      BY <2>0, <2>2
    <3>3. Cardinality({m \in ledger' : m.claim = k.claim}) = n + 1
      BY ONLY <1>7, <3>2
    <3> HIDE DEF n
    <3> QED
      BY ONLY <1>2, <3>1, <3>3
  <2>3. CASE k.claim # c
    <3>1. k \in ledger /\ k.nth <= Cardinality(Stating(k.claim))
      BY <1>1, <1>3, <2>3
    <3>2. {m \in ledger' : m.claim = k.claim} = Stating(k.claim)
      BY <1>3, <2>0, <2>3
    <3> QED
      BY <3>1, <3>2
  <2> QED
    BY <2>1, <2>2, <2>3
<1>9. LedgerInv'
  BY <1>5, <1>8 DEF LedgerInv, Stating
<1>10. ledger' \subseteq Learning
  BY <1>1, <1>3
<1> QED
  BY <1>3, <1>4, <1>5, <1>9, <1>10

(* What the ledger does when it is called: a tag makes one learning more   *)
(* or fails, and leaves it as it was; nothing else changes it.             *)
LEMMA CallLedger ==
    ASSUME Calls, NEW id \in Ids, NEW isTag \in BOOLEAN, Call(id, isTag)
    PROVE  /\ ledger' \subseteq Learning /\ LedgerInv'
           /\ \/ isTag /\ ledger' # ledger /\ Cardinality(ledger') = Cardinality(ledger) + 1
              \/ ledger' = ledger /\ Cardinality(ledger') = Cardinality(ledger)
<1>1. id[1] \in Claims
  BY DEF Ids
<1>2. CASE ledger' = ledger
  BY <1>2 DEF Calls, LedgerInv, Stating
<1>3. CASE isTag /\ ledger' = ledger \cup {[claim |-> id[1], nth |-> Cardinality(Stating(id[1])) + 1]}
  BY <1>1, <1>3, TagAdds
<1> QED
  BY <1>2, <1>3 DEF Call

(* What the ledger has answered once stays so.                             *)
LEMMA CallSettles ==
    ASSUME IInv, NEW id \in Ids, NEW isTag \in BOOLEAN, Call(id, isTag)
    PROVE  /\ Calls' /\ Settled(id)'
           /\ \A other \in Ids : Settled(other) => Settled(other)'
<1>1. ledger' \subseteq Learning /\ LedgerInv'
  BY CallLedger DEF IInv
<1>2. CASE commits' = [commits EXCEPT ![id] = @ + 1] /\ refused' = refused
  <2>1. \A other \in Ids : commits'[other] = IF other = id THEN commits[other] + 1 ELSE commits[other]
    BY <1>2 DEF IInv, Calls
  <2>2. commits' \in [Ids -> Nat]
    BY <1>2 DEF IInv, Calls
  <2>3. \A other \in Ids : commits[other] \in Nat
    BY DEF IInv, Calls
  <2> QED
    BY <1>1, <1>2, <2>1, <2>2, <2>3 DEF IInv, Calls, Settled
<1>3. CASE refused' = refused \cup {id} /\ commits' = commits
  BY <1>1, <1>3 DEF IInv, Calls, Settled
<1> QED
  BY <1>2, <1>3 DEF Call

------------------------------------------------------------------------------
(* The updates of a run, field by field. *)

LEMMA RunOfShape ==
    ASSUME NEW d, NEW t, NEW c, NEW m, NEW s, NEW b, NEW e, NEW n, NEW f,
           NEW y, y = RunOf(d, t, c, m, s, b, e, n, f)
    PROVE  /\ RunShape(y) /\ y.day = d /\ y.todo = t /\ y.claim = c /\ y.missed = m
           /\ y.lost = s /\ y.before = b /\ y.misread = e /\ y.tagged = n /\ y.failed = f
BY DEF RunShape, RunOf

LEMMA SetDay ==
    ASSUME NEW x, RunShape(x), NEW u, NEW y, y = [x EXCEPT !.day = u]
    PROVE  y = RunOf(u, x.todo, x.claim, x.missed, x.lost, x.before, x.misread, x.tagged, x.failed)
BY DEF RunShape, RunOf

LEMMA SetMissed ==
    ASSUME NEW x, RunShape(x), NEW u, NEW y, y = [x EXCEPT !.missed = u]
    PROVE  y = RunOf(x.day, x.todo, x.claim, u, x.lost, x.before, x.misread, x.tagged, x.failed)
BY DEF RunShape, RunOf

LEMMA SetClaim ==
    ASSUME NEW x, RunShape(x), NEW u, NEW y, y = [x EXCEPT !.claim = u]
    PROVE  y = RunOf(x.day, x.todo, u, x.missed, x.lost, x.before, x.misread, x.tagged, x.failed)
BY DEF RunShape, RunOf

LEMMA SetTodo ==
    ASSUME NEW x, RunShape(x), NEW u, NEW y, y = [x EXCEPT !.todo = u]
    PROVE  y = RunOf(x.day, u, x.claim, x.missed, x.lost, x.before, x.misread, x.tagged, x.failed)
BY DEF RunShape, RunOf

LEMMA SetTodoLost ==
    ASSUME NEW x, RunShape(x), NEW u, NEW v, NEW y, y = [x EXCEPT !.todo = u, !.lost = v]
    PROVE  y = RunOf(x.day, u, x.claim, x.missed, v, x.before, x.misread, x.tagged, x.failed)
BY DEF RunShape, RunOf

LEMMA SetBefore ==
    ASSUME NEW x, RunShape(x), NEW u, NEW v, NEW y, y = [x EXCEPT !.before = u, !.misread = v]
    PROVE  y = RunOf(x.day, x.todo, x.claim, x.missed, x.lost, u, v, x.tagged, x.failed)
BY DEF RunShape, RunOf

LEMMA SetTodoClaim ==
    ASSUME NEW x, RunShape(x), NEW u, NEW v, NEW y, y = [x EXCEPT !.todo = u, !.claim = v]
    PROVE  y = RunOf(x.day, u, v, x.missed, x.lost, x.before, x.misread, x.tagged, x.failed)
BY DEF RunShape, RunOf

LEMMA SetTodoTagged ==
    ASSUME NEW x, RunShape(x), NEW u, NEW v, NEW y, y = [x EXCEPT !.todo = u, !.tagged = v]
    PROVE  y = RunOf(x.day, u, x.claim, x.missed, x.lost, x.before, x.misread, v, x.failed)
BY DEF RunShape, RunOf

LEMMA SetFailed ==
    ASSUME NEW x, RunShape(x), NEW u, NEW y, y = [x EXCEPT !.failed = u]
    PROVE  y = RunOf(x.day, x.todo, x.claim, x.missed, x.lost, x.before, x.misread, x.tagged, u)
BY DEF RunShape, RunOf

(* What is left when a claim has been handled.                             *)
LEMMA TodoLeft ==
    ASSUME NEW todo, TodoOK(todo), NEW c
    PROVE  TodoOK(Restrict(todo, DOMAIN todo \ {c}))
BY DEF TodoOK, Restrict

LEMMA NoRunAt ==
    /\ RunAt("idle", NoRun) /\ NoRun.before = 0 /\ NoRun.tagged = 0 /\ NoRun.failed = FALSE
    /\ \A day \in Days : RunAt("extract", [NoRun EXCEPT !.day = day])
<1>1. RunShape(NoRun) /\ TodoOK(NoRun.todo) /\ FlagsOK(NoRun)
  BY DEF NoRun, RunShape, RunOf, TodoOK, FlagsOK
<1>2. RunAt("idle", NoRun) /\ NoRun.before = 0 /\ NoRun.tagged = 0 /\ NoRun.failed = FALSE
  BY <1>1 DEF RunAt, Active, Copying, NoRun
<1>3. ASSUME NEW day \in Days PROVE RunAt("extract", [NoRun EXCEPT !.day = day])
  <2>1. PICK y : y = [NoRun EXCEPT !.day = day]
    OBVIOUS
  <2>2. /\ RunShape(y) /\ y.day = day /\ y.todo = NoRun.todo /\ y.lost = NoRun.lost
        /\ y.misread = NoRun.misread /\ y.failed = NoRun.failed
    BY <1>1, <2>1, SetDay, RunOfShape
  <2>3. RunAt("extract", y)
    BY <1>1, <2>2 DEF RunAt, FlagsOK, Copying
  <2> QED
    BY <2>1, <2>3
<1> QED
  BY <1>2, <1>3

------------------------------------------------------------------------------
(* The initial state, and the chat index. *)

LEMMA NoTaskAt == TaskAt("idle", NoTask)
BY DEF TaskAt, TaskShape, TaskOf, NoTask, Holding, Copying

LEMMA InitIInv == Init => IInv
<1> SUFFICES ASSUME Init PROVE IInv
  OBVIOUS
<1>1. Files /\ Calls /\ Rest
  BY FS_EmptySet DEF Init, Files, Content, Calls, LedgerInv, Rest
<1>2. Control
  BY NoRunAt, NoTaskAt DEF Init, Control, Runs, Tasks, Steps
<1>3. PathsOK
  BY DEF Init, PathsOK, PathOK, WritersOf
<1>4. OutOK
  BY DEF Init, OutOK
<1>5. Book
  BY DEF Init, Book, RemovedAreFiled, Safe, MovedAreCommitted, Backed, Copying, Conserved,
         ApprovedIsCommitted, Filed, Paths
<1> QED
  BY <1>1, <1>2, <1>3, <1>4, <1>5 DEF IInv

(* A step that leaves the files, the ledger and the counts alone preserves *)
(* the invariant if it leaves the processes well-formed.                   *)
LEMMA QuietIInv ==
    ASSUME IInv, UNCHANGED <<file, tmp, overlapped, calls, writes>>, clashes' \in Nat, Rest', Control',
           out' \in [Producers \cup Reviewers -> {"none", "tmp", "file", "gone"}],
           \A q \in Producers \cup Reviewers :
              \/ Still(q) /\ out'[q] = out[q]
              \/ pc'[q] \notin Writing /\ out'[q] # "file",
           \A r \in Reviewers :
              \/ pc'[r] = pc[r] /\ task'[r] = task[r]
              \/ pc'[r] # "remove" /\ Backed(pc'[r], task'[r])
    PROVE  IInv'
<1>1. Files' /\ Calls'
  BY DEF IInv, Files, Calls, LedgerInv, Stating, calls
<1>2. PathsOK' /\ OutOK'
  BY StillPaths DEF IInv
<1>3. Book'
  BY BookKept DEF IInv, calls
<1> QED
  BY <1>1, <1>2, <1>3 DEF IInv

LEMMA MissedAt ==
    ASSUME NEW step, NEW x, RunAt(step, x), NEW y, y = [x EXCEPT !.missed = TRUE]
    PROVE  /\ RunAt(step, y) /\ y.day = x.day /\ y.claim = x.claim /\ y.todo = x.todo
           /\ y.before = x.before /\ y.misread = x.misread /\ y.tagged = x.tagged
           /\ y.failed = x.failed
<1>1. /\ RunShape(y) /\ y.day = x.day /\ y.todo = x.todo /\ y.claim = x.claim
      /\ y.failed = x.failed /\ y.lost = x.lost /\ y.misread = x.misread
      /\ y.before = x.before /\ y.tagged = x.tagged
  BY SetMissed, RunOfShape DEF RunAt
<1> QED
  BY <1>1 DEF RunAt, FlagsOK

LEMMA UpdateIndexIInv ==
    ASSUME IInv, UpdateIndex
    PROVE  IInv'
<1>1. UNCHANGED <<files, calls, writes, pc, task>>
  BY DEF UpdateIndex
<1>2. Rest'
  BY DEF IInv, Rest, UpdateIndex
<1>3. ASSUME NEW w \in Producers
      PROVE  RunAt(pc'[w], run'[w]) /\ Path(w)' = Path(w) /\ Text(w)' = Text(w)
  <2>1. RunAt(pc[w], run[w])
    BY DEF IInv, Control, Runs
  <2>2. pc'[w] = pc[w] /\ run'[w] \in {run[w], [run[w] EXCEPT !.missed = TRUE]}
    BY DEF UpdateIndex
  <2>3. /\ RunAt(pc[w], run'[w]) /\ run'[w].day = run[w].day /\ run'[w].claim = run[w].claim
        /\ run'[w].todo = run[w].todo
    BY <2>1, <2>2, MissedAt
  <2> QED
    BY <2>2, <2>3 DEF Path, Text, Pending
<1>4. run' = [w \in Producers |-> run'[w]]
  BY DEF UpdateIndex
<1>5. Control'
  BY <1>1, <1>3, <1>4 DEF IInv, Control, Runs, Tasks
<1>6. \A q \in Producers \cup Reviewers : Path(q)' = Path(q)
  BY <1>1, <1>3 DEF Path
<1>7. UNCHANGED <<file, tmp, out, overlapped, clashes, ledger, commits, refused>>
  BY <1>1 DEF files, calls
<1>8. \A path : WritersOf(path)' = WritersOf(path)
  BY <1>1, <1>6 DEF WritersOf
<1>9. PathsOK' /\ OutOK'
  BY <1>1, <1>6, <1>7, <1>8 DEF IInv, PathsOK, PathOK, OutOK
<1>10. Files' /\ Calls'
  BY <1>7 DEF IInv, Files, Calls, LedgerInv, Stating
<1>11. Book'
  <2>1. \A path \in Paths : (file[path] = Absent)' = (file[path] = Absent)
    BY <1>7
  <2>2. \A r \in Reviewers : pc'[r] = pc[r] /\ task'[r] = task[r]
    BY <1>1
  <2>3. Book /\ Control /\ UNCHANGED <<commits, refused, writes>>
    BY <1>1, <1>7 DEF IInv
  <2> QED
    BY <2>1, <2>2, <2>3, BookKept
<1> QED
  BY <1>2, <1>5, <1>9, <1>10, <1>11 DEF IInv

------------------------------------------------------------------------------
(* The steps of a producer. *)

(* A step of a producer that touches no file of the queue.                 *)
LEMMA QuietProducer ==
    ASSUME IInv, NEW w \in Producers, NEW step \in Steps \ Writing, NEW x, pc[w] # "write",
           Running(w, step, x), RunAt(step, x), UNCHANGED <<files, calls, writes>>, Rest'
    PROVE  IInv'
<1>1. /\ Control' /\ pc'[w] = step
      /\ \A q \in (Producers \cup Reviewers) \ {w} : Still(q)
      /\ \A r \in Reviewers : pc'[r] = pc[r] /\ task'[r] = task[r]
  BY RunningControl DEF IInv
<1>2. UNCHANGED <<file, tmp, out, overlapped, clashes>>
  BY DEF files
<1>3. out[w] # "file"
  BY DEF IInv, OutOK
<1>4. clashes' \in Nat /\ out' \in [Producers \cup Reviewers -> {"none", "tmp", "file", "gone"}]
  BY <1>2 DEF IInv, Files
<1>5. \A q \in Producers \cup Reviewers :
         \/ Still(q) /\ out'[q] = out[q]
         \/ pc'[q] \notin Writing /\ out'[q] # "file"
  BY <1>1, <1>2, <1>3
<1>6. UNCHANGED <<file, tmp, overlapped, calls, writes>>
  BY <1>2
<1> QED
  BY <1>1, <1>4, <1>5, <1>6, QuietIInv

LEMMA BeginIInv ==
    ASSUME IInv, NEW w \in Producers, Begin(w)
    PROVE  IInv'
<1>1. PICK day \in Days : Running(w, "extract", [NoRun EXCEPT !.day = day])
  BY DEF Begin
<1>2. UNCHANGED <<files, calls, writes>> /\ Rest' /\ pc[w] # "write"
  BY DEF IInv, Rest, Begin, marker
<1>3. "extract" \in Steps \ Writing
  BY DEF Steps, Writing
<1> QED
  BY <1>1, <1>2, <1>3, NoRunAt, QuietProducer

(* A run that is over.                                                     *)
LEMMA EndIInv ==
    ASSUME IInv, NEW w \in Producers, pc[w] # "write", Running(w, "idle", NoRun),
           UNCHANGED <<files, calls, writes>>, Rest'
    PROVE  IInv'
<1>1. "idle" \in Steps \ Writing
  BY DEF Steps, Writing
<1> QED
  BY <1>1, NoRunAt, QuietProducer

LEMMA TouchIInv ==
    ASSUME IInv, NEW w \in Producers, Touch(w)
    PROVE  IInv'
<1>1. UNCHANGED <<files, calls, writes>> /\ pc[w] # "write" /\ Running(w, "idle", NoRun)
  BY DEF Touch
<1>2. run[w].lost \in BOOLEAN
  BY DEF IInv, Control, Runs, RunAt, FlagsOK
<1>3. fresh' \in BOOLEAN /\ unread' \in BOOLEAN /\ skipped' \in BOOLEAN
  BY <1>2 DEF Touch, IInv, Rest
<1>4. Rest'
  BY <1>3 DEF IInv, Rest, Touch
<1> QED
  BY <1>1, <1>4, EndIInv

LEMMA GateIsProposal == Gate \subseteq Proposal
<1>1. [action |-> "tag", novel |-> TRUE] \in Proposal
  BY DEF Proposal
<1>2. [action : {"tag", "corroborate", "contradict"}, novel : {FALSE}] \subseteq Proposal
  BY DEF Proposal
<1> QED
  BY <1>1, <1>2, Zenon DEF Gate

(* What a run has when it has extracted.                                   *)
LEMMA ExtractRun ==
    ASSUME NEW w, Extract(w)
    PROVE  \/ \E passed \in SUBSET setup.claims : \E todo \in [passed -> Gate], lost \in BOOLEAN :
                 Running(w, IF setup.direct THEN "count" ELSE "emit",
                         [run[w] EXCEPT !.todo = todo, !.lost = lost])
           \/ Running(w, "idle", NoRun)
<1>1. CASE Running(w, "idle", NoRun)
  BY <1>1
<1>2. CASE \E passed \in SUBSET {c \in setup.claims : Handled[<<c, run[w].day>>] < setup.maxWrites} :
             \E todo \in [passed -> Gate], lost \in (IF passed = {} THEN BOOLEAN ELSE {FALSE}) :
                Running(w, IF setup.direct THEN "count" ELSE "emit",
                        [run[w] EXCEPT !.todo = todo, !.lost = lost])
  <2>1. PICK passed \in SUBSET {c \in setup.claims : Handled[<<c, run[w].day>>] < setup.maxWrites} :
           \E todo \in [passed -> Gate], lost \in (IF passed = {} THEN BOOLEAN ELSE {FALSE}) :
              Running(w, IF setup.direct THEN "count" ELSE "emit",
                      [run[w] EXCEPT !.todo = todo, !.lost = lost])
    BY <1>2
  <2>2. passed \in SUBSET setup.claims /\ (IF passed = {} THEN BOOLEAN ELSE {FALSE}) \subseteq BOOLEAN
    OBVIOUS
  <2> QED
    BY <2>1, <2>2
<1> QED
  BY <1>1, <1>2 DEF Extract

LEMMA ExtractIInv ==
    ASSUME IInv, NEW w \in Producers, Extract(w)
    PROVE  IInv'
<1>1. UNCHANGED <<files, calls, writes>> /\ Rest' /\ pc[w] = "extract"
  BY DEF IInv, Rest, Extract, marker
<1>2. CASE Running(w, "idle", NoRun)
  BY <1>1, <1>2, EndIInv
<1>3. ASSUME NEW passed \in SUBSET setup.claims, NEW todo \in [passed -> Gate], NEW lost \in BOOLEAN,
             NEW step \in {"count", "emit"}, Running(w, step, [run[w] EXCEPT !.todo = todo, !.lost = lost])
      PROVE  IInv'
  <2>1. setup.claims \subseteq Claims
    BY ReviewAssumption DEF IInv, Rest
  <2>2. TodoOK(todo)
    BY <2>1, GateIsProposal DEF TodoOK
  <2>3. RunAt("extract", run[w])
    BY <1>1 DEF IInv, Control, Runs
  <2>4. PICK y : y = [run[w] EXCEPT !.todo = todo, !.lost = lost]
    OBVIOUS
  <2>5. /\ RunShape(y) /\ y.todo = todo /\ y.lost = lost /\ y.day = run[w].day
        /\ y.failed = run[w].failed /\ y.misread = run[w].misread
    <3>1. y = RunOf(run[w].day, todo, run[w].claim, run[w].missed, lost, run[w].before,
                    run[w].misread, run[w].tagged, run[w].failed)
      BY <2>3, <2>4, SetTodoLost DEF RunAt
    <3> QED
      BY <3>1, RunOfShape
  <2>6. RunAt(step, y)
    BY <2>2, <2>3, <2>5 DEF RunAt, FlagsOK, Active, Copying
  <2>7. step \in Steps \ Writing
    BY DEF Steps, Writing
  <2> QED
    BY <1>1, <1>3, <2>4, <2>6, <2>7, QuietProducer
<1>4. (IF setup.direct THEN "count" ELSE "emit") \in {"count", "emit"}
  OBVIOUS
<1> QED
  BY <1>2, <1>3, <1>4, ExtractRun

(* A run that has handled the claim c.                                     *)
LEMMA LeftAt ==
    ASSUME NEW step \in Active, NEW x, RunAt(step, x), NEW c, NEW y, RunShape(y), FlagsOK(y),
           y.todo = Restrict(x.todo, DOMAIN x.todo \ {c}), y.day = x.day,
           NEW next \in {"emit", "direct"}
    PROVE  RunAt(next, y)
BY TodoLeft DEF RunAt, Active, Copying

LEMMA EmitIInv ==
    ASSUME IInv, NEW w \in Producers, Emit(w)
    PROVE  IInv'
<1>1. UNCHANGED <<files, calls, writes>> /\ Rest' /\ pc[w] = "emit"
  BY DEF IInv, Rest, Emit, marker
<1>2. RunAt("emit", run[w])
  BY <1>1 DEF IInv, Control, Runs
<1>3. PICK c \in DOMAIN run[w].todo :
         \/ Running(w, "emit", [run[w] EXCEPT !.todo = Restrict(@, DOMAIN @ \ {c})])
         \/ Running(w, "open", [run[w] EXCEPT !.claim = c])
  BY DEF Emit
<1>4. "emit" \in Steps \ Writing /\ "open" \in Steps \ Writing
  BY DEF Steps, Writing
<1>5. CASE Running(w, "emit", [run[w] EXCEPT !.todo = Restrict(@, DOMAIN @ \ {c})])
  <2>1. PICK left : left = Restrict(run[w].todo, DOMAIN run[w].todo \ {c})
    OBVIOUS
  <2>2. PICK y : y = [run[w] EXCEPT !.todo = left]
    OBVIOUS
  <2>3. /\ RunShape(y) /\ y.todo = left /\ y.day = run[w].day /\ y.lost = run[w].lost
        /\ y.failed = run[w].failed /\ y.misread = run[w].misread
    BY <1>2, <2>2, SetTodo, RunOfShape DEF RunAt
  <2>4. FlagsOK(y)
    BY <1>2, <2>3 DEF RunAt, FlagsOK
  <2>5. RunAt("emit", y)
    BY <1>2, <2>1, <2>3, <2>4, LeftAt DEF Active
  <2> QED
    BY <1>1, <1>4, <1>5, <2>1, <2>2, <2>5, QuietProducer
<1>6. CASE Running(w, "open", [run[w] EXCEPT !.claim = c])
  <2>1. PICK y : y = [run[w] EXCEPT !.claim = c]
    OBVIOUS
  <2>2. /\ RunShape(y) /\ y.todo = run[w].todo /\ y.claim = c /\ y.day = run[w].day
        /\ y.lost = run[w].lost /\ y.failed = run[w].failed /\ y.misread = run[w].misread
    BY <1>2, <2>1, SetClaim, RunOfShape DEF RunAt
  <2>3. RunAt("open", y)
    BY <1>2, <2>2 DEF RunAt, FlagsOK, Active
  <2> QED
    BY <1>1, <1>4, <1>6, <2>1, <2>3, QuietProducer
<1> QED
  BY <1>3, <1>5, <1>6

LEMMA CountOf ==
    ASSUME NEW count \in Count
    PROVE  \/ count.n = TotalLearnings /\ count.misread = FALSE
           \/ count.n = 0 /\ count.misread = TRUE
<1>1. PICK total : total = TotalLearnings
  OBVIOUS
<1>2. count = [n |-> total, misread |-> FALSE] \/ count = [n |-> 0, misread |-> TRUE]
  BY <1>1 DEF Count
<1>3. CASE count = [n |-> total, misread |-> FALSE]
  BY <1>1, <1>3
<1>4. CASE count = [n |-> 0, misread |-> TRUE]
  BY <1>4
<1> QED
  BY <1>2, <1>3, <1>4

LEMMA CountBeforeIInv ==
    ASSUME IInv, NEW w \in Producers, CountBefore(w)
    PROVE  IInv'
<1>1. UNCHANGED <<files, calls, writes>> /\ Rest' /\ pc[w] = "count"
  BY DEF IInv, Rest, CountBefore, marker
<1>2. PICK count \in Count :
         Running(w, "direct", [run[w] EXCEPT !.before = count.n, !.misread = count.misread])
  BY DEF CountBefore
<1>3. RunAt("count", run[w])
  BY <1>1 DEF IInv, Control, Runs
<1>4. PICK n, e : n = count.n /\ e = count.misread
  OBVIOUS
<1>5. e \in BOOLEAN
  BY <1>4, CountOf
<1>6. PICK y : y = [run[w] EXCEPT !.before = n, !.misread = e]
  OBVIOUS
<1>7. /\ RunShape(y) /\ y.todo = run[w].todo /\ y.day = run[w].day /\ y.lost = run[w].lost
      /\ y.failed = run[w].failed /\ y.misread = e
  <2>1. y = RunOf(run[w].day, run[w].todo, run[w].claim, run[w].missed, run[w].lost, n, e,
                  run[w].tagged, run[w].failed)
    BY <1>3, <1>6, SetBefore DEF RunAt
  <2> QED
    BY <2>1, RunOfShape
<1>8. RunAt("direct", y) /\ "direct" \in Steps \ Writing
  BY <1>3, <1>5, <1>7 DEF RunAt, FlagsOK, Active, Copying, Steps, Writing
<1> QED
  BY <1>1, <1>2, <1>4, <1>6, <1>8, QuietProducer

LEMMA VerifyDeltaIInv ==
    ASSUME IInv, NEW w \in Producers, VerifyDelta(w)
    PROVE  IInv'
<1>1. UNCHANGED <<files, calls, writes>> /\ pc[w] # "write" /\ Running(w, "idle", NoRun)
  BY DEF VerifyDelta
<1>2. run[w].failed \in BOOLEAN /\ run[w].misread \in BOOLEAN
  BY DEF IInv, Control, Runs, RunAt, FlagsOK
<1>3. Rest'
  <2>1. PICK count \in Count :
           report' = [ok |-> DeltaOk(count.n - run[w].before, run[w].tagged),
                      failed |-> run[w].failed, misread |-> run[w].misread \/ count.misread]
    BY DEF VerifyDelta
  <2>2. DeltaOk(count.n - run[w].before, run[w].tagged) \in BOOLEAN
    BY DEF DeltaOk
  <2>3. report' \in [ok : BOOLEAN, failed : BOOLEAN, misread : BOOLEAN]
    BY <1>2, <2>1, <2>2 DEF Count
  <2> QED
    BY <2>3 DEF IInv, Rest, VerifyDelta, marker
<1> QED
  BY <1>1, <1>3, EndIInv

(* A step that leaves the files alone and what is settled, settled.        *)
LEMMA BookSettled ==
    ASSUME Book, Control, UNCHANGED <<file, writes>>,
           \A id \in Ids : Settled(id) => Settled(id)',
           \A r \in Reviewers :
              \/ pc'[r] = pc[r] /\ task'[r] = task[r]
              \/ /\ pc'[r] # "remove"
                 /\ commits'[task'[r].id] > 0 \/ task'[r].id \in refused'
    PROVE  Book'
<1>1. \A dir : Filed(dir)' = Filed(dir)
  BY DEF Filed
<1>2. RemovedAreFiled'
  BY DEF Book, RemovedAreFiled, Safe
<1>3. MovedAreCommitted'
  <2> SUFFICES ASSUME NEW r \in Reviewers, pc'[r] \in {"move"} \cup Copying, task'[r].dest = "approved"
               PROVE  commits'[task'[r].id] > 0 \/ task'[r].id \in refused'
    BY DEF MovedAreCommitted, Backed, Settled
  <2>1. CASE pc'[r] = pc[r] /\ task'[r] = task[r]
    <3>1. task[r].id \in Ids /\ Settled(task[r].id)
      BY <2>1 DEF Book, MovedAreCommitted, Backed, Control, Tasks, TaskAt, Holding
    <3> QED
      BY <2>1, <3>1 DEF Settled
  <2>2. CASE commits'[task'[r].id] > 0 \/ task'[r].id \in refused'
    BY <2>2
  <2> QED
    BY <2>1, <2>2
<1>4. Conserved'
  BY <1>1 DEF Book, Conserved, Queue
<1>5. ApprovedIsCommitted'
  <2>1. \A id \in Filed("approved") : id \in Ids /\ Settled(id)
    BY DEF Book, ApprovedIsCommitted, Settled, Filed
  <2> QED
    BY <1>1, <2>1 DEF ApprovedIsCommitted, Settled
<1> QED
  BY <1>2, <1>3, <1>4, <1>5 DEF Book

LEMMA WriteDirectIInv ==
    ASSUME IInv, NEW w \in Producers, WriteDirect(w)
    PROVE  IInv'
<1>1. RunAt("direct", run[w]) /\ pc[w] = "direct"
  BY DEF IInv, Control, Runs, WriteDirect
<1>2. PICK c \in DOMAIN run[w].todo :
         LET action == run[w].todo[c].action
             rest == [run[w] EXCEPT !.todo = Restrict(@, DOMAIN @ \ {c}),
                                    !.tagged = IF action = "tag" THEN @ + 1 ELSE @]
         IN  IF action = "contradict"
             THEN UNCHANGED calls /\ Running(w, "direct", rest)
             ELSE /\ Call(<<c, run[w].day>>, action = "tag")
                  /\ Running(w, "direct",
                       [rest EXCEPT !.failed = @ \/ (action = "tag" /\ ledger' = ledger)])
  BY DEF WriteDirect
<1> DEFINE action == run[w].todo[c].action
           id == <<c, run[w].day>>
           left == Restrict(run[w].todo, DOMAIN run[w].todo \ {c})
           tagged == IF action = "tag" THEN run[w].tagged + 1 ELSE run[w].tagged
           failed == run[w].failed \/ (action = "tag" /\ ledger' = ledger)
           y == [run[w] EXCEPT !.todo = left, !.tagged = tagged]
           z == [y EXCEPT !.failed = failed]
<1>3. UNCHANGED <<files, writes>> /\ Rest'
  BY DEF IInv, Rest, WriteDirect, marker
<1>4. id \in Ids
  BY <1>1 DEF RunAt, TodoOK, Active, Ids
<1>5. /\ RunShape(y) /\ y.todo = left /\ y.day = run[w].day /\ y.failed = run[w].failed
      /\ y.lost = run[w].lost /\ y.misread = run[w].misread
  <2>1. RunShape(run[w]) /\ y = [run[w] EXCEPT !.todo = left, !.tagged = tagged]
    BY <1>1 DEF RunAt
  <2> HIDE DEF y, left, tagged
  <2>2. y = RunOf(run[w].day, left, run[w].claim, run[w].missed, run[w].lost, run[w].before,
                  run[w].misread, tagged, run[w].failed)
    BY <2>1, SetTodoTagged
  <2> QED
    BY <2>2, RunOfShape
<1>6. \/ UNCHANGED calls /\ Running(w, "direct", y)
      \/ Call(id, action = "tag") /\ Running(w, "direct", z)
  BY <1>2
<1> HIDE DEF y
<1>7. /\ RunShape(z) /\ z.todo = left /\ z.day = run[w].day /\ z.failed = failed
      /\ z.lost = run[w].lost /\ z.misread = run[w].misread
  <2>1. z = [y EXCEPT !.failed = failed]
    OBVIOUS
  <2> HIDE DEF z, failed
  <2>2. z = RunOf(y.day, y.todo, y.claim, y.missed, y.lost, y.before, y.misread, y.tagged, failed)
    BY <1>5, <2>1, SetFailed
  <2> QED
    BY <1>5, <2>2, RunOfShape
<1>8. failed \in BOOLEAN
  OBVIOUS
<1> HIDE DEF z, failed, tagged, left, action
<1>9. RunAt("direct", y) /\ RunAt("direct", z)
  <2>1. FlagsOK(y) /\ FlagsOK(z)
    BY <1>1, <1>5, <1>7, <1>8 DEF RunAt, FlagsOK
  <2>2. RunAt("direct", y)
    BY <1>1, <1>5, <2>1, LeftAt DEF Active, left
  <2>3. RunAt("direct", z)
    BY <1>1, <1>7, <2>1, LeftAt DEF Active, left
  <2> QED
    BY <2>2, <2>3
<1>10. "direct" \in Steps \ Writing
  BY DEF Steps, Writing
<1>11. CASE UNCHANGED calls /\ Running(w, "direct", y)
  BY <1>1, <1>3, <1>9, <1>10, <1>11, QuietProducer
<1>12. CASE Call(id, action = "tag") /\ Running(w, "direct", z)
  <2>1. /\ Control' /\ pc'[w] = "direct"
        /\ \A q \in (Producers \cup Reviewers) \ {w} : Still(q)
        /\ \A r \in Reviewers : pc'[r] = pc[r] /\ task'[r] = task[r]
    BY <1>9, <1>10, <1>12, RunningControl DEF IInv
  <2>2. Calls' /\ \A other \in Ids : Settled(other) => Settled(other)'
    <3>1. (action = "tag") \in BOOLEAN
      OBVIOUS
    <3> QED
      BY <1>4, <1>12, <3>1, CallSettles
  <2>3. UNCHANGED <<file, tmp, out, overlapped, clashes>>
    BY <1>3 DEF files
  <2>4. Files'
    BY <2>3 DEF IInv, Files
  <2>5. out[w] # "file" /\ pc'[w] \notin Writing
    BY <1>1, <2>1 DEF IInv, OutOK, Writing
  <2>6. PathsOK' /\ OutOK'
    BY <2>1, <2>3, <2>5, StillPaths DEF IInv
  <2>7. Book'
    <3>1. Book /\ Control /\ UNCHANGED <<file, writes>>
      BY <1>3, <2>3 DEF IInv
    <3> QED
      BY <2>1, <2>2, <3>1, BookSettled
  <2> QED
    BY <1>3, <2>1, <2>2, <2>4, <2>6, <2>7 DEF IInv
<1> QED
  BY <1>6, <1>11, <1>12

(* A reviewer that files what it had committed goes on to do so.           *)
LEMMA CopyingBacked ==
    ASSUME IInv, NEW p \in Producers \cup Reviewers, pc[p] \in Copying, pc'[p] \in Copying, task' = task,
           \A q \in (Producers \cup Reviewers) \ {p} : Still(q), NEW r \in Reviewers
    PROVE  \/ pc'[r] = pc[r] /\ task'[r] = task[r]
           \/ pc'[r] # "remove" /\ Backed(pc'[r], task'[r])
<1>1. CASE r # p
  BY <1>1 DEF Still
<1>2. CASE r = p
  BY <1>2 DEF IInv, Book, MovedAreCommitted, Backed, Copying
<1> QED
  BY <1>1, <1>2

LEMMA OpenTmpIInv ==
    ASSUME IInv, NEW p \in Producers \cup Reviewers, OpenTmp(p)
    PROVE  IInv'
<1>1. /\ PathsOK' /\ OutOK' /\ Files' /\ Control' /\ pc'[p] = "write"
      /\ \A q \in (Producers \cup Reviewers) \ {p} : Still(q)
  BY OpenTmpFiles
<1>2. /\ pc[p] = "open" /\ file' = file /\ task' = task
      /\ UNCHANGED <<ledger, commits, refused, writes, fresh, unread, skipped, report, setup>>
  BY DEF OpenTmp, calls, marker
<1>3. Calls' /\ Rest'
  BY <1>2 DEF IInv, Calls, LedgerInv, Stating, Rest
<1>4. \A r \in Reviewers :
         \/ pc'[r] = pc[r] /\ task'[r] = task[r]
         \/ pc'[r] # "remove" /\ Backed(pc'[r], task'[r])
  BY <1>1, <1>2, CopyingBacked DEF Copying
<1>5. Book'
  BY <1>2, <1>4, BookKept DEF IInv
<1> QED
  BY <1>1, <1>3, <1>5 DEF IInv

LEMMA WriteTmpIInv ==
    ASSUME IInv, NEW p \in Producers \cup Reviewers, WriteTmp(p)
    PROVE  IInv'
<1>1. /\ PathsOK' /\ OutOK' /\ Files' /\ Control' /\ pc'[p] = "replace"
      /\ \A q \in (Producers \cup Reviewers) \ {p} : Still(q)
      /\ \A path \in Paths : (file[path] = Absent)' = (file[path] = Absent)
  BY WriteTmpFiles
<1>2. /\ pc[p] = "write" /\ task' = task
      /\ UNCHANGED <<ledger, commits, refused, writes, fresh, unread, skipped, report, setup>>
  BY DEF WriteTmp, calls, marker
<1>3. Calls' /\ Rest'
  BY <1>2 DEF IInv, Calls, LedgerInv, Stating, Rest
<1>4. \A r \in Reviewers :
         \/ pc'[r] = pc[r] /\ task'[r] = task[r]
         \/ pc'[r] # "remove" /\ Backed(pc'[r], task'[r])
  BY <1>1, <1>2, CopyingBacked DEF Copying
<1>5. Book'
  BY <1>1, <1>2, <1>4, BookKept DEF IInv
<1> QED
  BY <1>1, <1>3, <1>5 DEF IInv

LEMMA ReplaceItemIInv ==
    ASSUME IInv, NEW w \in Producers, ReplaceItem(w)
    PROVE  IInv'
<1>1. /\ pc[w] = "replace" /\ UNCHANGED <<overlapped, clashes, calls, marker, report, setup>>
      /\ \/ /\ Replaced(w)
            /\ writes' = [writes EXCEPT ![<<run[w].claim, run[w].day>>] = @ + 1]
            /\ Running(w, "emit",
                  [run[w] EXCEPT !.todo = Restrict(@, DOMAIN @ \ {run[w].claim}), !.claim = None])
         \/ ReplaceRaises(w) /\ Running(w, "idle", NoRun) /\ UNCHANGED writes
  BY DEF ReplaceItem
<1>2. RunAt("replace", run[w])
  BY <1>1 DEF IInv, Control, Runs
<1>3. CASE ReplaceRaises(w) /\ Running(w, "idle", NoRun) /\ UNCHANGED writes
  <2>1. UNCHANGED <<files, calls, writes>> /\ Rest'
    BY <1>1, <1>3 DEF ReplaceRaises, files, IInv, Rest, marker
  <2> QED
    BY <1>1, <1>3, <2>1, EndIInv
<1>4. ASSUME NEW c, c = run[w].claim, NEW id, id = <<c, run[w].day>>, Replaced(w),
             writes' = [writes EXCEPT ![id] = @ + 1],
             Running(w, "emit", [run[w] EXCEPT !.todo = Restrict(@, DOMAIN @ \ {c}), !.claim = None])
      PROVE  IInv'
  <2>1. PICK left : left = Restrict(run[w].todo, DOMAIN run[w].todo \ {c})
    OBVIOUS
  <2>2. PICK y : y = [run[w] EXCEPT !.todo = left, !.claim = None]
    OBVIOUS
  <2>3. /\ RunShape(y) /\ y.todo = left /\ y.day = run[w].day /\ y.lost = run[w].lost
        /\ y.failed = run[w].failed /\ y.misread = run[w].misread
    <3>1. y = RunOf(run[w].day, left, None, run[w].missed, run[w].lost, run[w].before,
                    run[w].misread, run[w].tagged, run[w].failed)
      BY <1>2, <2>2, SetTodoClaim DEF RunAt
    <3> QED
      BY <3>1, RunOfShape
  <2>4. FlagsOK(y)
    BY <1>2, <2>3 DEF RunAt, FlagsOK
  <2>5. RunAt("emit", y) /\ "emit" \in Steps \ Writing
    BY <1>2, <2>1, <2>3, <2>4, LeftAt DEF Active, Copying, Steps, Writing
  <2>6. /\ Control' /\ pc'[w] = "emit"
        /\ \A q \in (Producers \cup Reviewers) \ {w} : Still(q)
        /\ \A r \in Reviewers : pc'[r] = pc[r] /\ task'[r] = task[r]
    BY <1>4, <2>1, <2>2, <2>5, RunningControl DEF IInv
  <2>7. Path(w) = Pending(id) /\ id \in Ids
    BY <1>2, <1>4 DEF Path, RunAt, Active, Copying, TodoOK, Ids
  <2>8. /\ PathsOK' /\ OutOK' /\ Files' /\ file'[Pending(id)] # Absent
        /\ \A path \in Paths \ {Pending(id)} : file'[path] = file[path]
    BY <1>1, <1>4, <2>5, <2>6, <2>7, ReplacedFiles
  <2>9. Calls' /\ Rest'
    BY <1>1, <1>4, <2>7 DEF IInv, Calls, LedgerInv, Stating, Rest, calls, marker
  <2>10. Filed("approved")' = Filed("approved") /\ Filed("rejected")' = Filed("rejected")
    BY <2>8 DEF Filed, Paths, Pending
  <2>11. Queue' = Queue \cup {id}
    <3>1. \A other \in Ids \ {id} : file'[Pending(other)] = file[Pending(other)]
      BY <2>8 DEF Pending, Paths
    <3> QED
      BY <2>7, <2>8, <3>1 DEF Queue, Filed, Pending
  <2>12. Conserved'
    <3>1. \A other \in Ids \ {id} : writes'[other] = writes[other]
      BY <1>4 DEF IInv, Rest
    <3> QED
      BY <2>10, <2>11, <3>1 DEF IInv, Book, Conserved
  <2>13. RemovedAreFiled'
    <3> SUFFICES ASSUME NEW r \in Reviewers, pc'[r] = "remove"
                 PROVE  file'[<<task'[r].dest, task'[r].id>>] # Absent
      BY DEF RemovedAreFiled, Safe
    <3>1. pc[r] = "remove" /\ task'[r] = task[r]
      BY <2>6
    <3>2. /\ task[r].dest \in {"approved", "rejected"} /\ task[r].id \in Ids
          /\ file[<<task[r].dest, task[r].id>>] # Absent
      BY <3>1 DEF IInv, Book, RemovedAreFiled, Safe, Control, Tasks, TaskAt, Holding
    <3> QED
      BY <2>8, <3>1, <3>2 DEF Paths, Pending
  <2>14. MovedAreCommitted' /\ ApprovedIsCommitted'
    BY <1>1, <2>6, <2>10 DEF IInv, Book, MovedAreCommitted, ApprovedIsCommitted, Backed, Settled, calls
  <2> QED
    BY <2>6, <2>8, <2>9, <2>12, <2>13, <2>14 DEF IInv, Book
<1> QED
  BY <1>1, <1>3, <1>4

------------------------------------------------------------------------------
(* The tasks of a reviewer, field by field. *)

LEMMA TaskOfShape ==
    ASSUME NEW i, NEW m, NEW d, NEW b, NEW l, NEW t, t = TaskOf(i, m, d, b, l)
    PROVE  TaskShape(t) /\ t.id = i /\ t.item = m /\ t.dest = d /\ t.bulk = b /\ t.list = l
BY DEF TaskShape, TaskOf

LEMMA NewTask ==
    ASSUME NEW id, NEW dest, NEW t, t = Task(id, dest)
    PROVE  /\ TaskShape(t) /\ t.id = id /\ t.item = file[Pending(id)] /\ t.dest = dest
           /\ t.list = {}
<1>1. PICK b : b = FALSE
  OBVIOUS
<1>2. t = TaskOf(id, file[Pending(id)], dest, b, {})
  BY <1>1 DEF Task, NoTask, TaskOf
<1> QED
  BY <1>2, TaskOfShape

LEMMA SetBulk ==
    ASSUME NEW t, TaskShape(t), NEW rest, NEW u, u = [t EXCEPT !.bulk = TRUE, !.list = rest]
    PROVE  \E b : u = TaskOf(t.id, t.item, t.dest, b, rest)
<1>1. PICK b : b = TRUE
  OBVIOUS
<1>2. u = TaskOf(t.id, t.item, t.dest, b, rest)
  BY <1>1 DEF TaskShape, TaskOf
<1> QED
  BY <1>2

LEMMA SetList ==
    ASSUME NEW t, TaskShape(t), NEW rest, NEW u, u = [t EXCEPT !.list = rest]
    PROVE  TaskShape(u) /\ u.list = rest
<1>1. u = TaskOf(t.id, t.item, t.dest, t.bulk, rest)
  BY DEF TaskShape, TaskOf
<1> QED
  BY <1>1, TaskOfShape

LEMMA SetItem ==
    ASSUME NEW t, TaskShape(t), NEW item, NEW u, u = [t EXCEPT !.item = item]
    PROVE  TaskShape(u) /\ u.id = t.id /\ u.item = item /\ u.dest = t.dest /\ u.list = t.list
<1>1. u = TaskOf(t.id, item, t.dest, t.bulk, t.list)
  BY DEF TaskShape, TaskOf
<1> QED
  BY <1>1, TaskOfShape

LEMMA BulkAt ==
    ASSUME NEW l \in SUBSET Ids
    PROVE  TaskAt("next", [NoTask EXCEPT !.bulk = TRUE, !.list = l])
<1>1. PICK y : y = [NoTask EXCEPT !.bulk = TRUE, !.list = l]
  OBVIOUS
<1>2. PICK b : y = TaskOf(NoTask.id, NoTask.item, NoTask.dest, b, l)
  BY <1>1, NoTaskAt, SetBulk DEF TaskAt
<1>3. TaskShape(y) /\ y.list = l
  BY <1>2, TaskOfShape
<1> QED
  BY <1>1, <1>3 DEF TaskAt, Holding, Copying

------------------------------------------------------------------------------
(* The steps of a reviewer. *)

(* A step of a reviewer that touches neither a file nor the ledger.        *)
LEMMA QuietReviewer ==
    ASSUME IInv, NEW r \in Reviewers, NEW step \in Steps \ (Writing \cup {"remove"}), NEW t,
           pc[r] # "write", Reviewing(r, step, t), TaskAt(step, t), Backed(step, t),
           UNCHANGED <<file, tmp, out, overlapped, calls, writes>>, clashes' \in Nat, Rest'
    PROVE  IInv'
<1>1. /\ Control' /\ pc'[r] = step /\ task'[r] = t
      /\ \A q \in (Producers \cup Reviewers) \ {r} : Still(q)
      /\ \A q \in Reviewers \ {r} : pc'[q] = pc[q] /\ task'[q] = task[q]
  BY ReviewingControl DEF IInv
<1>2. out[r] # "file"
  BY DEF IInv, OutOK
<1>3. \A q \in Producers \cup Reviewers :
         \/ Still(q) /\ out'[q] = out[q]
         \/ pc'[q] \notin Writing /\ out'[q] # "file"
  BY <1>1, <1>2
<1>4. \A q \in Reviewers :
         \/ pc'[q] = pc[q] /\ task'[q] = task[q]
         \/ pc'[q] # "remove" /\ Backed(pc'[q], task'[q])
  <2> TAKE q \in Reviewers
  <2>1. CASE q = r
    <3>1. Backed(pc'[r], task'[r]) /\ step # "remove"
      BY <1>1
    <3> QED
      BY <1>1, <2>1, <3>1
  <2>2. CASE q # r
    BY <1>1, <2>2
  <2> QED
    BY <2>1, <2>2
<1>5. out' \in [Producers \cup Reviewers -> {"none", "tmp", "file", "gone"}]
  BY DEF IInv, Files
<1> QED
  BY <1>1, <1>3, <1>4, <1>5, QuietIInv

(* The same of a step that also leaves the count of clashes.               *)
LEMMA CalmReviewer ==
    ASSUME IInv, NEW r \in Reviewers, NEW step \in Steps \ (Writing \cup {"remove"}), NEW t,
           pc[r] # "write", Reviewing(r, step, t), TaskAt(step, t), Backed(step, t),
           UNCHANGED <<files, calls, writes>>, Rest'
    PROVE  IInv'
<1>1. UNCHANGED <<file, tmp, out, overlapped, calls, writes>> /\ clashes' \in Nat
  BY DEF files, IInv, Files
<1> QED
  BY <1>1, QuietReviewer

(* A step to `idle', to `next' or to `commit' is no step towards a file.   *)
LEMMA IdleBacked ==
    ASSUME NEW step \in {"idle", "next", "commit"}, NEW t
    PROVE  step \in Steps \ (Writing \cup {"remove"}) /\ Backed(step, t)
BY DEF Steps, Writing, Backed, Copying

LEMMA ApproveIInv ==
    ASSUME IInv, NEW r \in Reviewers, Approve(r)
    PROVE  IInv'
<1>1. UNCHANGED <<files, calls, writes>> /\ Rest' /\ pc[r] # "write"
  BY DEF IInv, Rest, Approve, marker
<1>2. PICK id \in Queue : /\ file[Pending(id)] \in Proposal
                          /\ Reviewing(r, "commit", Task(id, "approved"))
  BY DEF Approve
<1>3. PICK t : t = Task(id, "approved")
  OBVIOUS
<1>4. TaskAt("commit", t)
  <2>1. TaskShape(t) /\ t.id = id /\ t.item \in Proposal /\ t.dest = "approved" /\ t.list = {}
    BY <1>2, <1>3, NewTask
  <2>2. id \in Ids
    BY DEF Queue, Filed
  <2> QED
    BY <2>1, <2>2 DEF TaskAt
<1> QED
  BY <1>1, <1>2, <1>3, <1>4, IdleBacked, CalmReviewer

LEMMA RejectIInv ==
    ASSUME IInv, NEW r \in Reviewers, Reject(r)
    PROVE  IInv'
<1>1. UNCHANGED <<files, calls, writes>> /\ Rest' /\ pc[r] # "write"
  BY DEF IInv, Rest, Reject, marker
<1>2. PICK id \in Queue : Reviewing(r, "move", Task(id, "rejected"))
  BY DEF Reject
<1>3. PICK t : t = Task(id, "rejected")
  OBVIOUS
<1>4. TaskAt("move", t) /\ t.dest = "rejected"
  <2>1. TaskShape(t) /\ t.id = id /\ t.dest = "rejected" /\ t.list = {}
    BY <1>3, NewTask
  <2>2. id \in Ids
    BY DEF Queue, Filed
  <2> QED
    BY <2>1, <2>2 DEF TaskAt, Copying
<1>5. "move" \in Steps \ (Writing \cup {"remove"}) /\ Backed("move", t)
  BY <1>4 DEF Steps, Writing, Backed
<1> QED
  BY <1>1, <1>2, <1>3, <1>4, <1>5, CalmReviewer

LEMMA ApproveCleanIInv ==
    ASSUME IInv, NEW r \in Reviewers, ApproveClean(r)
    PROVE  IInv'
<1> DEFINE t == [NoTask EXCEPT !.bulk = TRUE, !.list = Queue]
<1>1. UNCHANGED <<files, calls, writes>> /\ Rest' /\ Reviewing(r, "next", t) /\ pc[r] # "write"
  BY DEF IInv, Rest, ApproveClean, marker
<1>2. TaskAt("next", t)
  BY BulkAt DEF Queue, Filed
<1> HIDE DEF t
<1> QED
  BY <1>1, <1>2, IdleBacked, CalmReviewer

(* What approve-clean does next: it is done, or skips an item, or takes    *)
(* one that is in the queue.                                               *)
LEMMA NextCleanTask ==
    ASSUME IInv, NEW r \in Reviewers, NextClean(r)
    PROVE  \E step \in {"idle", "next", "commit"} : \E t :
              /\ Reviewing(r, step, t) /\ TaskAt(step, t)
              /\ step = "commit" => t.id \in Queue
<1>2. PICK id \in task[r].list :
         \/ Reviewing(r, "idle", NoTask)
         \/ /\ file[Pending(id)] \in Proposal
            /\ Reviewing(r, "commit",
                  [Task(id, "approved") EXCEPT !.bulk = TRUE, !.list = task[r].list \ {id}])
         \/ Reviewing(r, "next", [task[r] EXCEPT !.list = task[r].list \ {id}])
  BY DEF NextClean
<1>3. TaskAt("next", task[r])
  BY DEF IInv, Control, Tasks, NextClean
<1> DEFINE rest == task[r].list \ {id}
           t == [Task(id, "approved") EXCEPT !.bulk = TRUE, !.list = rest]
           u == [task[r] EXCEPT !.list = rest]
<1>4. rest \in SUBSET Ids /\ id \in Ids
  BY <1>3 DEF TaskAt
<1>5. TaskShape(t) /\ t.id = id /\ t.item = file[Pending(id)] /\ t.dest = "approved" /\ t.list = rest
  <2>1. PICK v : v = Task(id, "approved")
    OBVIOUS
  <2>2. TaskShape(v) /\ v.id = id /\ v.item = file[Pending(id)] /\ v.dest = "approved"
    BY <2>1, NewTask
  <2>3. PICK y : y = [v EXCEPT !.bulk = TRUE, !.list = rest]
    OBVIOUS
  <2>4. y = t
    BY <2>1, <2>3
  <2> HIDE DEF t, rest
  <2>5. PICK b : y = TaskOf(v.id, v.item, v.dest, b, rest)
    BY <2>2, <2>3, SetBulk
  <2>6. TaskShape(y) /\ y.id = v.id /\ y.item = v.item /\ y.dest = v.dest /\ y.list = rest
    BY <2>5, TaskOfShape
  <2> QED
    BY <2>2, <2>4, <2>6
<1>6. TaskShape(u) /\ u.list = rest
  BY <1>3, SetList DEF TaskAt
<1> HIDE DEF t, u, rest
<1>7. TaskAt("next", u)
  BY <1>4, <1>6 DEF TaskAt, Holding, Copying
<1>8. ASSUME file[Pending(id)] \in Proposal PROVE TaskAt("commit", t) /\ t.id \in Queue
  <2>1. id \in Queue
    BY <1>4, <1>8, NoItems DEF Queue, Filed, Pending
  <2> QED
    BY <1>4, <1>5, <1>8, <2>1 DEF TaskAt
<1>9. CASE Reviewing(r, "idle", NoTask)
  BY <1>9, NoTaskAt
<1>10. CASE file[Pending(id)] \in Proposal /\ Reviewing(r, "commit", t)
  BY <1>8, <1>10
<1>11. CASE Reviewing(r, "next", u)
  BY <1>7, <1>11
<1> QED
  BY <1>2, <1>9, <1>10, <1>11 DEF t, u, rest

LEMMA NextCleanIInv ==
    ASSUME IInv, NEW r \in Reviewers, NextClean(r)
    PROVE  IInv'
<1>1. UNCHANGED <<files, calls, writes>> /\ Rest' /\ pc[r] # "write"
  BY DEF IInv, Rest, NextClean, marker
<1>2. PICK step \in {"idle", "next", "commit"} : \E t : Reviewing(r, step, t) /\ TaskAt(step, t)
  BY NextCleanTask
<1>3. PICK t : Reviewing(r, step, t) /\ TaskAt(step, t)
  BY <1>2
<1> QED
  BY <1>1, <1>3, IdleBacked, CalmReviewer

LEMMA CommitIInv ==
    ASSUME IInv, NEW r \in Reviewers, Commit(r)
    PROVE  IInv'
<1> DEFINE isTag == task[r].item.action # "corroborate"
<1>1. /\ Call(task[r].id, isTag) /\ Reviewing(r, "move", task[r]) /\ pc[r] = "commit"
      /\ UNCHANGED <<files, writes>> /\ Rest'
  BY DEF IInv, Rest, Commit, marker
<1>2. TaskAt("commit", task[r])
  BY DEF IInv, Control, Tasks, Commit
<1>3. task[r].id \in Ids /\ isTag \in BOOLEAN /\ TaskAt("move", task[r]) /\ "move" \in Steps
  BY <1>2 DEF TaskAt, Holding, Copying, Steps
<1> HIDE DEF isTag
<1>4. PICK id : id = task[r].id
  OBVIOUS
<1>5. /\ Calls' /\ Settled(id)'
      /\ \A other \in Ids : Settled(other) => Settled(other)'
  BY <1>1, <1>3, <1>4, CallSettles
<1>6. /\ Control' /\ pc'[r] = "move" /\ task'[r] = task[r]
      /\ \A q \in (Producers \cup Reviewers) \ {r} : Still(q)
      /\ \A q \in Reviewers \ {r} : pc'[q] = pc[q] /\ task'[q] = task[q]
  BY <1>1, <1>3, ReviewingControl DEF IInv
<1>7. UNCHANGED <<file, tmp, out, overlapped, clashes>>
  BY <1>1 DEF files
<1>8. Files'
  BY <1>7 DEF IInv, Files
<1>9. PathsOK' /\ OutOK'
  <2>1. out[r] # "file"
    BY <1>1 DEF IInv, OutOK
  <2> QED
    BY <1>6, <1>7, <2>1, StillPaths DEF IInv, Writing
<1>10. Book'
  <2>1. \A q \in Reviewers :
           \/ pc'[q] = pc[q] /\ task'[q] = task[q]
           \/ /\ pc'[q] # "remove"
              /\ commits'[task'[q].id] > 0 \/ task'[q].id \in refused'
    <3>1. commits'[task'[r].id] > 0 \/ task'[r].id \in refused'
      BY <1>4, <1>5, <1>6 DEF Settled
    <3> QED
      BY <1>6, <3>1
  <2>2. Book /\ Control /\ UNCHANGED <<file, writes>>
    BY <1>1, <1>7 DEF IInv
  <2> QED
    BY <1>5, <2>1, <2>2, BookSettled
<1> QED
  BY <1>1, <1>5, <1>6, <1>8, <1>9, <1>10 DEF IInv

(* A command that ends, filing nothing.                                    *)
LEMMA GivesUpIInv ==
    ASSUME IInv, NEW r \in Reviewers, GivesUp(r), pc[r] # "write",
           UNCHANGED <<file, tmp, out, overlapped, calls, writes>>, Rest'
    PROVE  IInv'
<1>1. clashes' \in Nat /\ Reviewing(r, "idle", NoTask)
  BY DEF GivesUp, IInv, Files
<1> QED
  BY <1>1, NoTaskAt, IdleBacked, QuietReviewer

LEMMA MoveIInv ==
    ASSUME IInv, NEW r \in Reviewers, Move(r)
    PROVE  IInv'
<1>1. /\ UNCHANGED <<file, tmp, out, overlapped, calls, writes>> /\ Rest'
      /\ pc[r] = "move"
  BY DEF IInv, Rest, Move, marker
<1>2. TaskAt("move", task[r]) /\ Backed("move", task[r])
  BY <1>1 DEF IInv, Control, Tasks, Book, MovedAreCommitted
<1>3. CASE GivesUp(r)
  BY <1>1, <1>3, GivesUpIInv
<1>4. ASSUME NEW item \in Proposal, Reviewing(r, "open", [task[r] EXCEPT !.item = item]),
             UNCHANGED clashes
      PROVE  IInv'
  <2>1. PICK u : u = [task[r] EXCEPT !.item = item]
    OBVIOUS
  <2>2. /\ TaskShape(u) /\ u.id = task[r].id /\ u.item = item /\ u.dest = task[r].dest
        /\ u.list = task[r].list
    BY <1>2, <2>1, SetItem DEF TaskAt
  <2>3. TaskAt("open", u)
    BY <1>2, <2>2 DEF TaskAt, Holding
  <2>4. Backed("open", u) /\ "open" \in Steps \ (Writing \cup {"remove"})
    BY <1>2, <2>2 DEF Backed, Steps, Writing
  <2>5. clashes' \in Nat
    BY <1>4 DEF IInv, Files
  <2> QED
    BY <1>1, <1>4, <2>1, <2>3, <2>4, <2>5, QuietReviewer
<1> QED
  BY <1>3, <1>4 DEF Move

LEMMA ReplaceFiledIInv ==
    ASSUME IInv, NEW r \in Reviewers, ReplaceFiled(r)
    PROVE  IInv'
<1>1. /\ pc[r] = "replace" /\ UNCHANGED <<overlapped, calls, writes>> /\ Rest'
      /\ \/ Replaced(r) /\ Reviewing(r, "remove", task[r]) /\ UNCHANGED clashes
         \/ ReplaceRaises(r) /\ GivesUp(r)
  BY DEF IInv, Rest, ReplaceFiled, marker
<1>2. CASE ReplaceRaises(r) /\ GivesUp(r)
  BY <1>1, <1>2, GivesUpIInv DEF ReplaceRaises
<1>3. CASE Replaced(r) /\ Reviewing(r, "remove", task[r]) /\ UNCHANGED clashes
  <2>1. TaskAt("replace", task[r]) /\ Backed("replace", task[r])
    BY <1>1 DEF IInv, Control, Tasks, Book, MovedAreCommitted
  <2>2. TaskAt("remove", task[r]) /\ "remove" \in Steps
    BY <2>1 DEF TaskAt, Holding, Copying, Steps
  <2>3. /\ Control' /\ pc'[r] = "remove" /\ task'[r] = task[r]
        /\ \A q \in (Producers \cup Reviewers) \ {r} : Still(q)
        /\ \A q \in Reviewers \ {r} : pc'[q] = pc[q] /\ task'[q] = task[q]
    BY <1>3, <2>2, ReviewingControl DEF IInv
  <2> DEFINE P == <<task[r].dest, task[r].id>>
  <2>4. P = Path(r)
    BY ReviewAssumption DEF Path
  <2>5. /\ PathsOK' /\ OutOK' /\ Files' /\ P \in Paths /\ file'[P] # Absent
        /\ \A path \in Paths \ {P} : file'[path] = file[path]
    BY <1>1, <1>3, <2>3, <2>4, ReplacedFiles DEF Writing
  <2>6. task[r].dest \in {"approved", "rejected"} /\ task[r].id \in Ids
    BY <2>1 DEF TaskAt, Holding, Copying
  <2> HIDE DEF P
  <2>7. \A path \in Paths : file[path] # Absent => file'[path] # Absent
    BY <2>5
  <2>8. \A dir \in {"pending", "approved", "rejected"} : Filed(dir) \subseteq Filed(dir)'
    BY <2>7 DEF Filed, Paths
  <2>9. Conserved'
    BY <1>1, <2>8 DEF IInv, Book, Conserved, Queue
  <2>10. RemovedAreFiled'
    <3> SUFFICES ASSUME NEW q \in Reviewers, pc'[q] = "remove"
                 PROVE  file'[<<task'[q].dest, task'[q].id>>] # Absent
      BY DEF RemovedAreFiled, Safe
    <3>1. CASE q = r
      BY <2>3, <2>5, <3>1 DEF P
    <3>2. CASE q # r
      <4>1. pc[q] = "remove" /\ task'[q] = task[q]
        BY <2>3, <3>2
      <4>2. /\ <<task[q].dest, task[q].id>> \in Paths
            /\ file[<<task[q].dest, task[q].id>>] # Absent
        BY <4>1 DEF IInv, Book, RemovedAreFiled, Safe, Control, Tasks, TaskAt, Holding, Paths
      <4> QED
        BY <2>7, <4>1, <4>2
    <3> QED
      BY <3>1, <3>2
  <2>11. UNCHANGED <<commits, refused>>
    BY <1>1 DEF calls
  <2>12. MovedAreCommitted'
    <3> SUFFICES ASSUME NEW q \in Reviewers, pc'[q] \in {"move"} \cup Copying,
                        task'[q].dest = "approved"
                 PROVE  commits[task'[q].id] > 0 \/ task'[q].id \in refused
      BY <2>11 DEF MovedAreCommitted, Backed, Settled
    <3>1. pc[q] = pc'[q] /\ task'[q] = task[q]
      BY <2>3 DEF Copying
    <3> QED
      BY <3>1 DEF IInv, Book, MovedAreCommitted, Backed, Settled
  <2>13. ApprovedIsCommitted'
    <3> SUFFICES ASSUME NEW id \in Ids, file'[<<"approved", id>>] # Absent
                 PROVE  commits[id] > 0 \/ id \in refused
      BY <2>11 DEF ApprovedIsCommitted, Filed
    <3>1. CASE <<"approved", id>> = P
      BY <2>1, <3>1 DEF P, Backed, Copying, Settled
    <3>2. CASE <<"approved", id>> # P
      BY <2>5, <3>2 DEF Paths, IInv, Book, ApprovedIsCommitted, Filed
    <3> QED
      BY <3>1, <3>2
  <2>14. Calls'
    BY <1>1 DEF IInv, Calls, LedgerInv, Stating, calls
  <2> QED
    BY <1>1, <2>3, <2>5, <2>9, <2>10, <2>12, <2>13, <2>14 DEF IInv, Book
<1> QED
  BY <1>1, <1>2, <1>3

(* When the item is moved, the reviewer is done or takes the next one.     *)
LEMMA MovedOn ==
    ASSUME NEW r \in Reviewers, Moved(r), TaskAt("remove", task[r])
    PROVE  \E step \in {"idle", "next"} : \E t : Reviewing(r, step, t) /\ TaskAt(step, t)
<1>1. CASE Reviewing(r, "idle", NoTask)
  BY <1>1, NoTaskAt
<1>2. CASE Reviewing(r, "next", [NoTask EXCEPT !.bulk = TRUE, !.list = task[r].list])
  <2>1. TaskAt("next", [NoTask EXCEPT !.bulk = TRUE, !.list = task[r].list])
    BY BulkAt DEF TaskAt
  <2> QED
    BY <1>2, <2>1
<1> QED
  BY <1>1, <1>2 DEF Moved

LEMMA RemoveIInv ==
    ASSUME IInv, NEW r \in Reviewers, Remove(r)
    PROVE  IInv'
<1> DEFINE id == task[r].id
<1>1. UNCHANGED <<tmp, overlapped, clashes, calls, writes>> /\ Rest' /\ pc[r] = "remove"
  BY DEF IInv, Rest, Remove, marker
<1>2. TaskAt("remove", task[r]) /\ file[<<task[r].dest, id>>] # Absent
  BY <1>1 DEF IInv, Control, Tasks, Book, RemovedAreFiled, Safe
<1>3. id \in Ids /\ task[r].dest \in {"approved", "rejected"}
  BY <1>2 DEF TaskAt, Holding
<1>4. CASE UNCHANGED <<file, out>> /\ Reviewing(r, "idle", NoTask)
  <2>1. clashes' \in Nat
    BY <1>1 DEF IInv, Files
  <2> QED
    BY <1>1, <1>4, <2>1, NoTaskAt, IdleBacked, QuietReviewer
<1>5. CASE RemovePending(id) /\ Moved(r)
  <2>1. PICK step \in {"idle", "next"} : \E t : Reviewing(r, step, t) /\ TaskAt(step, t)
    BY <1>2, <1>5, MovedOn
  <2>2. PICK t : Reviewing(r, step, t) /\ TaskAt(step, t)
    BY <2>1
  <2>3. /\ Control' /\ pc'[r] = step /\ task'[r] = t
        /\ \A q \in (Producers \cup Reviewers) \ {r} : Still(q)
        /\ \A q \in Reviewers \ {r} : pc'[q] = pc[q] /\ task'[q] = task[q]
    BY <2>2, IdleBacked, ReviewingControl DEF IInv
  <2>4. /\ PathsOK' /\ OutOK' /\ Files' /\ file'[Pending(id)] = Absent
        /\ \A path \in Paths \ {Pending(id)} : file'[path] = file[path]
    BY <1>1, <1>3, <1>5, <2>3, RemovePendingFiles DEF Writing
  <2>5. \A dir \in {"approved", "rejected"}, other \in Ids :
           file'[<<dir, other>>] = file[<<dir, other>>]
    BY <2>4 DEF Paths, Pending
  <2>6. Filed("approved")' = Filed("approved") /\ Filed("rejected")' = Filed("rejected")
    BY <2>5 DEF Filed
  <2>7. Conserved'
    <3> SUFFICES ASSUME NEW other \in Ids, writes'[other] > 0
                 PROVE  \/ file'[<<"pending", other>>] # Absent
                        \/ other \in Filed("approved") \cup Filed("rejected")
      BY <2>6 DEF Conserved, Queue, Filed
    <3>1. CASE other = id
      BY <1>2, <1>3, <3>1 DEF Filed
    <3>2. CASE other # id
      BY <1>1, <2>4, <3>2 DEF IInv, Book, Conserved, Queue, Filed, Paths, Pending
    <3> QED
      BY <3>1, <3>2
  <2>8. RemovedAreFiled'
    <3> SUFFICES ASSUME NEW q \in Reviewers, pc'[q] = "remove"
                 PROVE  file'[<<task'[q].dest, task'[q].id>>] # Absent
      BY DEF RemovedAreFiled, Safe
    <3>1. q # r /\ pc[q] = "remove" /\ task'[q] = task[q]
      BY <2>3
    <3>2. /\ task[q].dest \in {"approved", "rejected"} /\ task[q].id \in Ids
          /\ file[<<task[q].dest, task[q].id>>] # Absent
      BY <3>1 DEF IInv, Book, RemovedAreFiled, Safe, Control, Tasks, TaskAt, Holding
    <3> QED
      BY <2>5, <3>1, <3>2
  <2>9. UNCHANGED <<commits, refused>>
    BY <1>1 DEF calls
  <2>10. MovedAreCommitted' /\ ApprovedIsCommitted'
    BY <2>3, <2>6, <2>9 DEF IInv, Book, MovedAreCommitted, ApprovedIsCommitted, Backed, Settled, Copying
  <2>11. Calls'
    BY <1>1 DEF IInv, Calls, LedgerInv, Stating, calls
  <2> QED
    BY <1>1, <2>3, <2>4, <2>7, <2>8, <2>10, <2>11 DEF IInv, Book
<1> QED
  BY <1>4, <1>5 DEF Remove

------------------------------------------------------------------------------
(* A death forgets what the process was about, and nothing else. *)

LEMMA DieIInv ==
    ASSUME IInv, NEW p \in Producers \cup Reviewers, Die(p)
    PROVE  IInv'
<1>1. UNCHANGED <<file, tmp, overlapped, calls, writes>> /\ clashes' \in Nat /\ Rest'
  BY DEF IInv, Files, Rest, Die, marker
<1>2. /\ pc' = [pc EXCEPT ![p] = "idle"] /\ out' = [out EXCEPT ![p] = "none"]
      /\ run' = [w \in Producers |-> IF w = p THEN NoRun ELSE run[w]]
      /\ task' = [r \in Reviewers |-> IF r = p THEN NoTask ELSE task[r]]
  BY DEF Die, GoTo
<1>3. pc' \in [Producers \cup Reviewers -> Steps] /\ pc'[p] = "idle"
  BY <1>2 DEF IInv, Control, Steps
<1>4. out' \in [Producers \cup Reviewers -> {"none", "tmp", "file", "gone"}] /\ out'[p] = "none"
  BY <1>2 DEF IInv, Files
<1>5. \A q \in (Producers \cup Reviewers) \ {p} : Still(q) /\ out'[q] = out[q]
  BY <1>2 DEF IInv, Control, Files, Still
<1>6. Runs'
  <2> SUFFICES ASSUME NEW w \in Producers PROVE RunAt(pc'[w], run'[w])
    BY DEF Runs
  <2>1. CASE w = p
    BY <1>2, <1>3, <2>1, NoRunAt
  <2>2. CASE w # p
    BY <1>5, <2>2 DEF IInv, Control, Runs, Still
  <2> QED
    BY <2>1, <2>2
<1>7. \A r \in Reviewers : \/ pc'[r] = "idle" /\ task'[r] = NoTask
                           \/ pc'[r] = pc[r] /\ task'[r] = task[r]
  <2> TAKE r \in Reviewers
  <2>1. CASE r = p
    BY <1>2, <1>3, <2>1
  <2>2. CASE r # p
    BY <1>5, <2>2 DEF Still
  <2> QED
    BY <2>1, <2>2
<1>8. Tasks'
  BY <1>7, NoTaskAt DEF IInv, Control, Tasks
<1>9. run' = [w \in Producers |-> run'[w]] /\ task' = [r \in Reviewers |-> task'[r]]
  BY <1>2
<1>10. Control'
  BY <1>3, <1>6, <1>8, <1>9 DEF Control
<1>11. \A q \in Producers \cup Reviewers :
          \/ Still(q) /\ out'[q] = out[q]
          \/ pc'[q] \notin Writing /\ out'[q] # "file"
  BY <1>3, <1>4, <1>5 DEF Writing
<1>12. \A r \in Reviewers :
          \/ pc'[r] = pc[r] /\ task'[r] = task[r]
          \/ pc'[r] # "remove" /\ Backed(pc'[r], task'[r])
  BY <1>7, IdleBacked
<1> QED
  BY <1>1, <1>4, <1>10, <1>11, <1>12, QuietIInv
------------------------------------------------------------------------------
(* All steps, and the theorems. *)

LEMMA StepIInv == IInv /\ [Next]_vars => IInv'
<1> SUFFICES ASSUME IInv, [Next]_vars PROVE IInv'
  OBVIOUS
<1>1. CASE UpdateIndex
  BY <1>1, UpdateIndexIInv
<1>2. ASSUME NEW w \in Producers, Heartbeat(w) \/ Forced(w) PROVE IInv'
  BY <1>2, BeginIInv DEF Heartbeat, Forced
<1>3. ASSUME NEW w \in Producers, Produce(w) PROVE IInv'
  <2>1. CASE Extract(w) \/ Emit(w) \/ ReplaceItem(w) \/ Touch(w)
    BY <2>1, ExtractIInv, EmitIInv, ReplaceItemIInv, TouchIInv
  <2>2. CASE OpenTmp(w) \/ WriteTmp(w)
    BY <2>2, OpenTmpIInv, WriteTmpIInv
  <2>3. CASE CountBefore(w) \/ WriteDirect(w) \/ VerifyDelta(w)
    BY <2>3, CountBeforeIInv, WriteDirectIInv, VerifyDeltaIInv
  <2> QED
    BY <1>3, <2>1, <2>2, <2>3 DEF Produce
<1>4. ASSUME NEW p \in Producers \cup Reviewers, Die(p) PROVE IInv'
  BY <1>4, DieIInv
<1>5. ASSUME NEW r \in Reviewers, Approve(r) \/ Reject(r) \/ ApproveClean(r) PROVE IInv'
  BY <1>5, ApproveIInv, RejectIInv, ApproveCleanIInv
<1>6. ASSUME NEW r \in Reviewers, Review(r) PROVE IInv'
  <2>1. CASE NextClean(r) \/ Commit(r) \/ Move(r)
    BY <2>1, NextCleanIInv, CommitIInv, MoveIInv
  <2>2. CASE OpenTmp(r) \/ WriteTmp(r)
    BY <2>2, OpenTmpIInv, WriteTmpIInv
  <2>3. CASE ReplaceFiled(r) \/ Remove(r)
    BY <2>3, ReplaceFiledIInv, RemoveIInv
  <2> QED
    BY <1>6, <2>1, <2>2, <2>3 DEF Review
<1>7. CASE UNCHANGED vars
  <2>1. UNCHANGED <<files, calls, writes, pc, run, task>>
    BY <1>7 DEF vars
  <2>2. Rest' /\ Control'
    BY <1>7 DEF vars, marker, IInv, Rest, Control, Runs, Tasks
  <2>3. \A q \in Producers \cup Reviewers : Still(q) /\ out'[q] = out[q]
    BY <2>1 DEF Still, files
  <2>4. /\ UNCHANGED <<file, tmp, overlapped, calls, writes>> /\ clashes' \in Nat
        /\ out' \in [Producers \cup Reviewers -> {"none", "tmp", "file", "gone"}]
    BY <2>1 DEF files, IInv, Files
  <2>5. \A r \in Reviewers : pc'[r] = pc[r] /\ task'[r] = task[r]
    BY <2>1
  <2> QED
    BY <2>2, <2>3, <2>4, <2>5, QuietIInv
<1> QED
  BY <1>1, <1>2, <1>3, <1>4, <1>5, <1>6, <1>7 DEF Next

LEMMA AlwaysIInv == Spec => []IInv
BY InitIInv, StepIInv, PTL DEF Spec

(* Every file of the queue is missing, empty, torn or an item, and what a  *)
(* process commits or files is an item, however the writers of the shared  *)
(* temporary files interleave, and whoever dies where.                     *)
THEOREM AlwaysTypeOK == Spec => []TypeOK
BY AlwaysIInv, IInvTypeOK, PTL

(* The queue loses no item: what was written to pending is there, or was   *)
(* filed as approved or rejected, in every interleaving of the file        *)
(* operations of emit_review_item and _move, the temporary files they      *)
(* share included, and wherever a process dies; and a file is torn or empty *)
(* only if two processes have had its temporary file open at once.         *)
THEOREM AlwaysQueueConserves == Spec => []QueueConserves
BY AlwaysIInv, IInvQueueConserves, PTL

(* What stands under approved was sent to the ledger, which took it or     *)
(* answered with an error: no reviewer files an item as approved that      *)
(* another one, or a crash, kept from being committed.                     *)
THEOREM AlwaysApprovedIsCommitted == Spec => []ApprovedIsCommitted
<1>1. IInv => ApprovedIsCommitted
  BY DEF IInv, Book
<1> QED
  BY <1>1, AlwaysIInv, PTL

------------------------------------------------------------------------------
(* Who is there. *)

(* Only who belongs to the deployment does anything, and a producer queues *)
(* what it found or, in a direct deployment, writes the ledger itself.     *)
Counting == {"count", "direct"}
Queueing == {"emit"} \cup Copying
Present ==
    /\ \A w \in Producers : pc[w] # "idle" => w \in setup.producers
    /\ \A r \in Reviewers : pc[r] # "idle" => r \in setup.reviewers
    /\ \A w \in Producers : pc[w] \in Counting => setup.direct
    /\ \A w \in Producers : pc[w] \in Queueing => ~setup.direct
    /\ faults \in Nat

LEMMA PresentStep ==
    ASSUME IInv, Present, NEW p \in Producers \cup Reviewers, NEW step, GoTo(p, step),
           setup' = setup, faults' \in Nat,
           step # "idle" => p \in setup.producers \cup setup.reviewers,
           p \in Producers /\ step \in Counting => setup.direct,
           p \in Producers /\ step \in Queueing => ~setup.direct
    PROVE  Present'
<1>1. \A q \in Producers \cup Reviewers : pc'[q] = IF q = p THEN step ELSE pc[q]
  BY DEF GoTo, IInv, Control
<1>2. setup.producers \subseteq Producers /\ setup.reviewers \subseteq Reviewers
  BY ReviewAssumption DEF IInv, Rest
<1>3. Producers \cap Reviewers = {}
  BY ReviewAssumption
<1> QED
  BY <1>1, <1>2, <1>3 DEF Present

(* A process that is at work belongs to the deployment.                    *)
LEMMA AtWork ==
    ASSUME Present, NEW p \in Producers \cup Reviewers, pc[p] # "idle"
    PROVE  p \in setup.producers \cup setup.reviewers
BY DEF Present

LEMMA InitPresent == Init => Present
BY DEF Init, Present, Counting, Queueing, Copying

LEMMA BeginPresent ==
    ASSUME IInv, Present, NEW w \in Producers, Begin(w)
    PROVE  Present'
<1>1. /\ GoTo(w, "extract") /\ w \in setup.producers /\ setup' = setup /\ faults' \in Nat
  BY DEF Begin, Running, Present
<1> QED
  BY <1>1, PresentStep DEF Counting, Queueing, Copying

LEMMA ExtractPresent ==
    ASSUME IInv, Present, NEW w \in Producers, Extract(w)
    PROVE  Present'
<1>1. pc[w] = "extract" /\ setup' = setup /\ faults' \in Nat
  BY DEF Extract, Present
<1>2. GoTo(w, IF setup.direct THEN "count" ELSE "emit") \/ GoTo(w, "idle")
  BY DEF Extract, Running
<1> QED
  BY <1>1, <1>2, AtWork, PresentStep DEF Counting, Queueing, Copying

LEMMA QueueingPresent ==
    ASSUME IInv, Present, NEW w \in Producers,
           Emit(w) \/ OpenTmp(w) \/ WriteTmp(w) \/ ReplaceItem(w) \/ Touch(w)
    PROVE  Present'
<1>1. pc[w] \in Queueing /\ setup' = setup /\ faults' \in Nat
  BY DEF Emit, OpenTmp, WriteTmp, ReplaceItem, Touch, Queueing, Copying, Present
<1>2. PICK step \in {"idle"} \cup Queueing : GoTo(w, step)
  BY DEF Emit, OpenTmp, WriteTmp, ReplaceItem, Touch, Running, Queueing, Copying
<1>3. pc[w] # "idle" /\ ~setup.direct /\ step \notin Counting
  BY <1>1, <1>2 DEF Present, Queueing, Copying, Counting
<1> QED
  BY <1>1, <1>2, <1>3, AtWork, PresentStep

LEMMA CountingPresent ==
    ASSUME IInv, Present, NEW w \in Producers, CountBefore(w) \/ WriteDirect(w) \/ VerifyDelta(w)
    PROVE  Present'
<1>1. pc[w] \in Counting /\ setup' = setup /\ faults' \in Nat
  BY DEF CountBefore, WriteDirect, VerifyDelta, Counting, Present
<1>2. PICK step \in {"idle", "direct"} : GoTo(w, step)
  BY DEF CountBefore, WriteDirect, VerifyDelta, Running
<1>3. pc[w] # "idle" /\ setup.direct /\ step \notin Queueing
  BY <1>1, <1>2 DEF Present, Queueing, Copying, Counting
<1> QED
  BY <1>1, <1>2, <1>3, AtWork, PresentStep

(* A reviewer that takes a step is there, and where it goes is its own.    *)
LEMMA ReviewerIsThere ==
    ASSUME Present, NEW r \in Reviewers,
           Approve(r) \/ Reject(r) \/ ApproveClean(r) \/ Review(r)
    PROVE  /\ r \in setup.reviewers /\ setup' = setup /\ faults' = faults
           /\ \E step : GoTo(r, step)
<1>1. CASE Approve(r) \/ Reject(r) \/ ApproveClean(r) \/ NextClean(r)
  BY <1>1 DEF Approve, Reject, ApproveClean, NextClean, Present, Reviewing
<1>2. CASE Commit(r) \/ Move(r) \/ OpenTmp(r)
  BY <1>2 DEF Commit, Move, OpenTmp, Present, Reviewing, GivesUp
<1>3. CASE WriteTmp(r) \/ ReplaceFiled(r)
  BY <1>3 DEF WriteTmp, ReplaceFiled, Present, Reviewing, GivesUp
<1>4. CASE Remove(r)
  BY <1>4 DEF Remove, Moved, Present, Reviewing
<1> QED
  BY <1>1, <1>2, <1>3, <1>4 DEF Review

LEMMA ReviewerPresent ==
    ASSUME IInv, Present, NEW r \in Reviewers,
           Approve(r) \/ Reject(r) \/ ApproveClean(r) \/ Review(r)
    PROVE  Present'
<1>1. r \in setup.reviewers /\ setup' = setup /\ faults' \in Nat /\ \E step : GoTo(r, step)
  BY ReviewerIsThere DEF Present
<1>2. r \notin Producers
  BY ReviewAssumption
<1>3. PICK step : GoTo(r, step)
  BY <1>1
<1> QED
  BY <1>1, <1>2, <1>3, PresentStep

LEMMA StepPresent == IInv /\ Present /\ [Next]_vars => Present'
<1> SUFFICES ASSUME IInv, Present, [Next]_vars PROVE Present'
  OBVIOUS
<1>1. CASE UpdateIndex
  BY <1>1 DEF UpdateIndex, Present
<1>2. ASSUME NEW w \in Producers, Heartbeat(w) \/ Forced(w) \/ Produce(w) PROVE Present'
  BY <1>2, BeginPresent, ExtractPresent, QueueingPresent, CountingPresent
     DEF Heartbeat, Forced, Produce
<1>3. ASSUME NEW r \in Reviewers, Approve(r) \/ Reject(r) \/ ApproveClean(r) \/ Review(r)
      PROVE  Present'
  BY <1>3, ReviewerPresent
<1>4. ASSUME NEW p \in Producers \cup Reviewers, Die(p) PROVE Present'
  <2>1. GoTo(p, "idle") /\ setup' = setup /\ faults' \in Nat
    BY <1>4 DEF Die, Present
  <2> QED
    BY <2>1, PresentStep DEF Counting, Queueing, Copying
<1>5. CASE UNCHANGED vars
  BY <1>5 DEF vars, Present
<1> QED
  BY <1>1, <1>2, <1>3, <1>4, <1>5 DEF Next

LEMMA AlwaysPresent == Spec => []Present
BY InitPresent, StepPresent, AlwaysIInv, PTL DEF Spec
------------------------------------------------------------------------------
(* The verdicts.  What a reviewer is about to do with an item: commit it,  *)
(* or take it out of the queue as approved or as rejected.                 *)
StageAt(step, t, id) ==
    IF step \in Holding /\ t.id = id
    THEN IF step = "commit" THEN "commit"
         ELSE IF step = "remove" /\ t.dest = "rejected" THEN "filed"
         ELSE t.dest
    ELSE "free"
Stage(r, id) == StageAt(pc[r], task[r], id)
Decided(r, id) == Stage(r, id) \in {"approved", "rejected", "filed"}

(* The reviewers who may still commit an item: while it is in the queue,   *)
(* all but those who have; then those who are about to.  One who means to  *)
(* reject it may fail to, and think again.                                 *)
Open(id) == IF id \in Queue THEN {r \in setup.reviewers : Stage(r, id) # "approved"}
                            ELSE {r \in setup.reviewers : Stage(r, id) = "commit"}

(* Each time the item is queued each reviewer may commit it once.          *)
Quota(id) ==
    commits[id] + Cardinality(Open(id)) <= writes[id] * Cardinality(setup.reviewers) + (faults + clashes)

Untouched(id) == commits[id] = 0 /\ id \notin Filed("approved") /\ id \notin Filed("rejected")

(* The life of an item that is queued once, with one reviewer: what is     *)
(* taken up is in the queue, and untouched until there is a verdict.       *)
Judged(id) ==
    /\ writes[id] = 0 => id \notin Queue
    /\ id \notin Queue => \A r \in Reviewers : Stage(r, id) = "free"
    /\ writes[id] = 0 \/ (id \in Queue /\ \A r \in Reviewers : ~Decided(r, id)) => Untouched(id)
    /\ \A r \in Reviewers : Stage(r, id) = "rejected" => Untouched(id)
    /\ \A r \in Reviewers : Stage(r, id) = "filed" => commits[id] = 0 /\ id \notin Filed("approved")
    /\ \A r \in Reviewers : Stage(r, id) = "approved" => id \notin Filed("rejected")
    /\ id \in Filed("rejected") => commits[id] = 0 /\ id \notin Filed("approved")

Alone == Cardinality(setup.reviewers) <= 1 /\ faults + clashes = 0
Judgment(id) == Quota(id) /\ (Alone /\ writes[id] <= 1 => Judged(id))
Verdicts == \A id \in Ids : IF setup.direct THEN writes[id] = 0 ELSE Judgment(id)

LEMMA ItemType ==
    ASSUME IInv, Present, NEW id \in Ids
    PROVE  /\ commits[id] \in Nat /\ writes[id] \in Nat /\ faults \in Nat /\ clashes \in Nat
           /\ IsFiniteSet(setup.reviewers) /\ setup.reviewers \subseteq Reviewers
           /\ Cardinality(setup.reviewers) \in Nat
           /\ IsFiniteSet(Open(id)) /\ Open(id) \subseteq setup.reviewers
           /\ Cardinality(Open(id)) \in Nat
           /\ Cardinality(Open(id)) <= Cardinality(setup.reviewers)
<1>1. commits[id] \in Nat /\ writes[id] \in Nat /\ faults \in Nat /\ clashes \in Nat
  BY DEF IInv, Files, Calls, Rest, Present
<1>2. IsFiniteSet(setup.reviewers) /\ setup.reviewers \subseteq Reviewers
  BY ReviewAssumption DEF IInv, Rest
<1>3. Open(id) \subseteq setup.reviewers
  BY DEF Open
<1> QED
  BY <1>1, <1>2, <1>3, FS_Subset, FS_CardinalityType

LEMMA VerdictsImplied == IInv /\ Present /\ Verdicts => VerdictsStand
<1> SUFFICES ASSUME IInv, Present, Verdicts
             PROVE  DuplicatesAreFaults /\ OneVerdict
  BY DEF VerdictsStand
<1>1. DuplicatesAreFaults
  <2> SUFFICES ASSUME ~setup.direct, NEW id \in Ids
               PROVE  commits[id] <= writes[id] * Cardinality(setup.reviewers) + faults + clashes
    BY DEF DuplicatesAreFaults
  <2> DEFINE n == writes[id] * Cardinality(setup.reviewers)
  <2>1. commits[id] + Cardinality(Open(id)) <= n + (faults + clashes)
    BY DEF Verdicts, Judgment, Quota
  <2>2. /\ n \in Nat /\ commits[id] \in Nat /\ Cardinality(Open(id)) \in Nat
        /\ faults \in Nat /\ clashes \in Nat
    BY ItemType
  <2> HIDE DEF n
  <2>3. commits[id] <= n + faults + clashes
    BY <2>1, <2>2
  <2> QED
    BY <2>3 DEF n
<1>2. OneVerdict
  <2> SUFFICES ASSUME Alone, NEW id \in Filed("rejected"), writes[id] = 1
               PROVE  commits[id] = 0 /\ id \notin Filed("approved")
    BY DEF OneVerdict, Alone
  <2>1. id \in Ids
    BY DEF Filed
  <2> QED
    BY <2>1 DEF Verdicts, Judgment, Judged
<1> QED
  BY <1>1, <1>2

------------------------------------------------------------------------------
(* One reviewer who is alone. *)

LEMMA OneReviewer ==
    ASSUME IInv, Present, Alone, NEW r \in setup.reviewers, NEW q \in setup.reviewers
    PROVE  q = r
<1> DEFINE R == setup.reviewers
<1>1. IsFiniteSet(R) /\ {r, q} \subseteq R
  BY ReviewAssumption DEF IInv, Rest
<1>2. Cardinality({r, q}) <= Cardinality(R) /\ IsFiniteSet({r, q})
  BY <1>1, FS_Subset
<1>3. Cardinality({r, q}) \in Nat /\ Cardinality(R) \in Nat /\ Cardinality(R) <= 1
  BY <1>1, <1>2, FS_CardinalityType DEF Alone
<1>4. Cardinality({r, q}) # 0
  BY <1>2, FS_EmptySet
<1>5. Cardinality({r, q}) = 1
  <2> HIDE DEF R
  <2> QED
    BY <1>2, <1>3, <1>4
<1>6. PICK x : {r, q} = {x}
  BY <1>2, <1>5, FS_Singleton
<1> QED
  BY <1>6

LEMMA OthersFree ==
    ASSUME IInv, Present, Alone, NEW r \in setup.reviewers, NEW q \in Reviewers \ {r}, NEW id
    PROVE  Stage(q, id) = "free"
<1>1. pc[q] = "idle"
  BY OneReviewer DEF Present
<1> QED
  BY <1>1 DEF Stage, StageAt, Holding, Copying

------------------------------------------------------------------------------
(* What may happen to an item, and that its quota and its verdict survive. *)

Same(id) ==
    /\ (id \in Queue)' = (id \in Queue)
    /\ (id \in Filed("approved"))' = (id \in Filed("approved"))
    /\ (id \in Filed("rejected"))' = (id \in Filed("rejected"))
    /\ commits'[id] = commits[id] /\ writes'[id] = writes[id]
Others(r, id) == \A q \in Reviewers \ {r} : Stage(q, id)' = Stage(q, id)
Stays == setup' = setup /\ faults' = faults /\ clashes' \in {clashes, clashes + 1}
Both == IInv /\ Present /\ IInv' /\ Present'

LEMMA StaysAlone ==
    ASSUME Both, Stays, Alone'
    PROVE  Alone
<1>1. faults \in Nat /\ clashes \in Nat
  BY DEF Both, IInv, Files, Present
<1>2. Cardinality(setup.reviewers) <= 1
  BY DEF Stays, Alone
<1>3. faults + clashes' = 0 /\ clashes' \in {clashes, clashes + 1}
  BY DEF Stays, Alone
<1>4. CASE clashes' = clashes
  BY <1>2, <1>3, <1>4 DEF Alone
<1>5. CASE clashes' = clashes + 1
  BY <1>1, <1>3, <1>5
<1> QED
  BY <1>3, <1>4, <1>5

LEMMA QuotaKept ==
    ASSUME Both, NEW id \in Ids, Quota(id), Stays, Open(id)' \subseteq Open(id),
           commits'[id] = commits[id], writes'[id] = writes[id]
    PROVE  Quota(id)'
<1> DEFINE n == writes[id] * Cardinality(setup.reviewers)
<1>1. /\ IsFiniteSet(Open(id)) /\ Cardinality(Open(id)) \in Nat
      /\ commits[id] \in Nat /\ n \in Nat /\ faults \in Nat /\ clashes \in Nat
  BY ItemType DEF Both
<1>2. Cardinality(Open(id)') <= Cardinality(Open(id)) /\ Cardinality(Open(id)') \in Nat
  BY <1>1, FS_Subset, FS_CardinalityType
<1>3. n' = n
  BY DEF Stays
<1>4. commits[id] + Cardinality(Open(id)) <= n + (faults + clashes)
  BY DEF Quota
<1> HIDE DEF n
<1>5. commits'[id] + Cardinality(Open(id)') <= n' + (faults' + clashes')
  BY <1>1, <1>2, <1>3, <1>4 DEF Stays
<1> QED
  BY <1>5 DEF Quota, n

(* One more may commit it, who died or clashed.                            *)
LEMMA QuotaMore ==
    ASSUME Both, NEW id \in Ids, Quota(id), setup' = setup, NEW p,
           faults' + clashes' = faults + clashes + 1, Open(id)' \subseteq Open(id) \cup {p},
           commits'[id] = commits[id], writes'[id] = writes[id]
    PROVE  Quota(id)'
<1> DEFINE n == writes[id] * Cardinality(setup.reviewers)
<1>1. /\ IsFiniteSet(Open(id)) /\ Cardinality(Open(id)) \in Nat
      /\ commits[id] \in Nat /\ n \in Nat /\ faults \in Nat /\ clashes \in Nat
  BY ItemType DEF Both
<1>2. IsFiniteSet(Open(id) \cup {p}) /\ Cardinality(Open(id) \cup {p}) \in Nat
  BY <1>1, FS_AddElement, FS_CardinalityType
<1>3. Cardinality(Open(id) \cup {p}) <= Cardinality(Open(id)) + 1
  <2>1. PICK S : S = Open(id)
    OBVIOUS
  <2>2. IsFiniteSet(S) /\ Cardinality(S) \in Nat
    BY <1>1, <2>1
  <2>3. Cardinality(S \cup {p}) <= Cardinality(S) + 1
    <3> HIDE DEF n
    <3>1. CASE p \in S
      <4>1. S \cup {p} = S
        BY <3>1
      <4>2. Cardinality(S \cup {p}) = Cardinality(S)
        BY ONLY <4>1, Zenon
      <4> QED
        BY <2>2, <4>2
    <3>2. CASE p \notin S
      <4>1. Cardinality(S \cup {p}) = Cardinality(S) + 1
        BY <2>2, <3>2, FS_AddElement
      <4> QED
        BY <2>2, <4>1
    <3> QED
      BY <3>1, <3>2
  <2> QED
    BY <2>1, <2>3
<1>4. Cardinality(Open(id)') <= Cardinality(Open(id) \cup {p}) /\ Cardinality(Open(id)') \in Nat
  BY <1>2, FS_Subset, FS_CardinalityType
<1>5. n' = n
  OBVIOUS
<1>6. commits[id] + Cardinality(Open(id)) <= n + (faults + clashes)
  BY DEF Quota
<1> HIDE DEF n
<1>7. commits'[id] + Cardinality(Open(id)') <= n' + (faults + clashes + 1)
  BY <1>1, <1>2, <1>3, <1>4, <1>5, <1>6
<1>8. commits'[id] + Cardinality(Open(id)') <= n' + (faults' + clashes')
  BY <1>7
<1> QED
  BY <1>8 DEF Quota, n

(* Nothing happens to it. *)
LEMMA ItemSame ==
    ASSUME Both, NEW id \in Ids, Judgment(id), Stays, Same(id),
           \A q \in Reviewers : Stage(q, id)' = Stage(q, id)
    PROVE  Judgment(id)'
<1>1. Open(id)' = Open(id)
  <2>1. setup.reviewers \subseteq Reviewers
    BY ItemType DEF Both
  <2> QED
    BY <2>1 DEF Open, Same, Stays
<1>2. Quota(id)'
  BY <1>1, QuotaKept DEF Judgment, Same
<1>3. Judged(id) => Judged(id)'
  BY DEF Judged, Same, Untouched, Decided
<1> QED
  BY <1>2, <1>3, StaysAlone DEF Judgment, Same

(* A reviewer takes it up, to commit it or to reject it. *)
LEMMA ItemTaken ==
    ASSUME Both, NEW id \in Ids, Judgment(id), Stays, Same(id), id \in Queue,
           NEW r \in setup.reviewers, Others(r, id),
           Stage(r, id) = "free", Stage(r, id)' \in {"commit", "rejected"}
    PROVE  Judgment(id)'
<1>1. setup.reviewers \subseteq Reviewers
  BY ItemType DEF Both
<1>2. Open(id)' \subseteq Open(id)
  BY <1>1 DEF Open, Same, Stays, Others
<1>3. Quota(id)'
  BY <1>2, QuotaKept DEF Judgment, Same
<1>4. ASSUME Alone, Judged(id) PROVE Judged(id)'
  <2>1. \A q \in Reviewers \ {r} : Stage(q, id) = "free" /\ Stage(q, id)' = "free"
    BY <1>4, OthersFree DEF Both, Others
  <2>2. \A q \in Reviewers : ~Decided(q, id)
    BY <2>1 DEF Decided
  <2>3. Untouched(id)
    BY <1>4, <2>2 DEF Judged
  <2> QED
    BY <1>4, <2>1, <2>3 DEF Judged, Same, Untouched
<1> QED
  BY <1>3, <1>4, StaysAlone DEF Judgment, Same

(* The ledger has answered. *)
LEMMA ItemCommitted ==
    ASSUME Both, NEW id \in Ids, Judgment(id), Stays,
           (id \in Queue)' = (id \in Queue), writes'[id] = writes[id],
           (id \in Filed("approved"))' = (id \in Filed("approved")),
           (id \in Filed("rejected"))' = (id \in Filed("rejected")),
           commits'[id] \in {commits[id], commits[id] + 1},
           NEW r \in setup.reviewers, Others(r, id),
           Stage(r, id) = "commit", Stage(r, id)' = "approved"
    PROVE  Judgment(id)'
<1>1. setup.reviewers \subseteq Reviewers
  BY ItemType DEF Both
<1>2. r \in Open(id) /\ Open(id)' = Open(id) \ {r}
  BY <1>1 DEF Open, Stays, Others
<1>3. Quota(id)'
  <2> DEFINE n == writes[id] * Cardinality(setup.reviewers)
  <2>1. /\ IsFiniteSet(Open(id)) /\ Cardinality(Open(id)) \in Nat
        /\ commits[id] \in Nat /\ n \in Nat /\ faults \in Nat /\ clashes \in Nat
    BY ItemType DEF Both
  <2>2. Cardinality(Open(id)') = Cardinality(Open(id)) - 1
    BY <1>2, <2>1, FS_RemoveElement
  <2>3. n' = n
    BY DEF Stays
  <2>4. commits[id] + Cardinality(Open(id)) <= n + (faults + clashes)
    BY DEF Judgment, Quota
  <2> HIDE DEF n
  <2>5. commits'[id] + Cardinality(Open(id)') <= n' + (faults' + clashes')
    BY <2>1, <2>2, <2>3, <2>4 DEF Stays
  <2> QED
    BY <2>5 DEF Quota, n
<1>4. ASSUME Alone, Judged(id) PROVE Judged(id)'
  <2>1. \A q \in Reviewers \ {r} : Stage(q, id) = "free" /\ Stage(q, id)' = "free"
    BY <1>4, OthersFree DEF Both, Others
  <2>2. id \in Queue
    BY <1>1, <1>4 DEF Judged
  <2>3. writes[id] # 0
    BY <1>4, <2>2 DEF Judged
  <2>4. \A q \in Reviewers : ~Decided(q, id)
    BY <2>1 DEF Decided
  <2>5. Untouched(id)
    BY <1>4, <2>2, <2>4 DEF Judged
  <2> QED
    BY <1>1, <2>1, <2>2, <2>3, <2>5 DEF Judged, Untouched, Decided
<1> QED
  BY <1>3, <1>4, StaysAlone DEF Judgment

(* It is written under its verdict. *)
LEMMA ItemFiled ==
    ASSUME Both, NEW id \in Ids, Judgment(id), Stays,
           (id \in Queue)' = (id \in Queue), writes'[id] = writes[id], commits'[id] = commits[id],
           NEW r \in setup.reviewers, Others(r, id),
           \/ /\ Stage(r, id) = "approved" /\ Stage(r, id)' = "approved"
              /\ (id \in Filed("approved"))' = TRUE
              /\ (id \in Filed("rejected"))' = (id \in Filed("rejected"))
           \/ /\ Stage(r, id) = "rejected" /\ Stage(r, id)' = "filed"
              /\ (id \in Filed("rejected"))' = TRUE
              /\ (id \in Filed("approved"))' = (id \in Filed("approved"))
    PROVE  Judgment(id)'
<1>1. setup.reviewers \subseteq Reviewers
  BY ItemType DEF Both
<1>2. Open(id)' \subseteq Open(id)
  BY <1>1 DEF Open, Stays, Others
<1>3. Quota(id)'
  BY <1>2, QuotaKept DEF Judgment
<1>4. ASSUME Alone, Judged(id) PROVE Judged(id)'
  <2>1. \A q \in Reviewers \ {r} : Stage(q, id) = "free" /\ Stage(q, id)' = "free"
    BY <1>4, OthersFree DEF Both, Others
  <2>2. id \in Queue /\ writes[id] # 0 /\ Decided(r, id) /\ r \in Reviewers
    BY <1>1, <1>4 DEF Judged, Decided
  <2>3. CASE Stage(r, id) = "approved"
    BY <1>4, <2>1, <2>2, <2>3 DEF Judged, Decided
  <2>4. CASE Stage(r, id) = "rejected"
    BY <1>4, <2>1, <2>2, <2>4 DEF Judged, Decided, Untouched
  <2> QED
    BY <2>3, <2>4
<1> QED
  BY <1>3, <1>4, StaysAlone DEF Judgment

(* It could not be filed, or was gone when it was to be removed. *)
LEMMA ItemLeft ==
    ASSUME Both, NEW id \in Ids, Judgment(id), Stays, Same(id),
           NEW r \in setup.reviewers, Others(r, id), Decided(r, id), Stage(r, id)' = "free",
           id \in Queue => Stage(r, id) # "filed",
           id \in Queue /\ Stage(r, id) = "approved" => clashes' = clashes + 1
    PROVE  Judgment(id)'
<1>1. setup.reviewers \subseteq Reviewers /\ faults \in Nat /\ clashes \in Nat
  BY ItemType DEF Both
<1>2. CASE id \in Queue /\ Stage(r, id) = "approved"
  <2>1. Open(id)' \subseteq Open(id) \cup {r}
    BY <1>1, <1>2 DEF Open, Same, Stays, Others
  <2>2. faults' + clashes' = faults + clashes + 1 /\ setup' = setup
    BY <1>1, <1>2 DEF Stays
  <2>3. Quota(id)'
    BY <2>1, <2>2, QuotaMore DEF Judgment, Same
  <2>4. ~Alone'
    BY <1>1, <2>2 DEF Alone
  <2> QED
    BY <2>3, <2>4 DEF Judgment
<1>3. CASE ~(id \in Queue /\ Stage(r, id) = "approved")
  <2>1. Open(id)' \subseteq Open(id)
    BY <1>1, <1>3 DEF Open, Decided, Same, Stays, Others
  <2>2. Quota(id)'
    BY <2>1, QuotaKept DEF Judgment, Same
  <2>3. ASSUME Alone, Judged(id) PROVE Judged(id)'
    <3>1. id \in Queue /\ Stage(r, id) = "rejected"
      BY <1>1, <1>3, <2>3 DEF Judged, Decided
    <3>2. \A q \in Reviewers : Stage(q, id)' = "free"
      BY <2>3, OthersFree DEF Both, Others
    <3>3. Untouched(id) /\ writes[id] # 0
      BY <1>1, <2>3, <3>1 DEF Judged
    <3> QED
      BY <3>1, <3>2, <3>3 DEF Judged, Same, Untouched
  <2> QED
    BY <2>2, <2>3, StaysAlone DEF Judgment, Same
<1> QED
  BY <1>2, <1>3

(* It is taken out of the queue. *)
LEMMA ItemRemoved ==
    ASSUME Both, NEW id \in Ids, Judgment(id), Stays,
           id \in Queue, id \notin Queue', writes'[id] = writes[id], commits'[id] = commits[id],
           (id \in Filed("approved"))' = (id \in Filed("approved")),
           (id \in Filed("rejected"))' = (id \in Filed("rejected")),
           NEW r \in setup.reviewers, Others(r, id),
           Decided(r, id), Stage(r, id)' = "free"
    PROVE  Judgment(id)'
<1>1. setup.reviewers \subseteq Reviewers
  BY ItemType DEF Both
<1>2. Open(id)' \subseteq Open(id)
  BY <1>1 DEF Open, Stays, Others
<1>3. Quota(id)'
  BY <1>2, QuotaKept DEF Judgment
<1>4. ASSUME Alone, Judged(id) PROVE Judged(id)'
  <2>1. \A q \in Reviewers : Stage(q, id)' = "free"
    BY <1>4, OthersFree DEF Both, Others
  <2>2. writes[id] # 0
    BY <1>4 DEF Judged
  <2> QED
    BY <1>4, <2>1, <2>2 DEF Judged, Decided
<1> QED
  BY <1>3, <1>4, StaysAlone DEF Judgment

(* It is put in the queue. *)
LEMMA ItemQueued ==
    ASSUME Both, NEW id \in Ids, Judgment(id), Stays,
           id \in Queue', writes'[id] = writes[id] + 1, commits'[id] = commits[id],
           (id \in Filed("approved"))' = (id \in Filed("approved")),
           (id \in Filed("rejected"))' = (id \in Filed("rejected")),
           \A q \in Reviewers : Stage(q, id)' = Stage(q, id)
    PROVE  Judgment(id)'
<1>1. Quota(id)'
  <2> DEFINE k == Cardinality(setup.reviewers)
             n == writes[id] * k
  <2>1. /\ Cardinality(Open(id)) \in Nat /\ k \in Nat /\ writes[id] \in Nat
        /\ commits[id] \in Nat /\ n \in Nat /\ faults \in Nat /\ clashes \in Nat
    BY ItemType DEF Both
  <2>2. Cardinality(Open(id)') <= k /\ Cardinality(Open(id)') \in Nat
    <3>1. Open(id)' \subseteq setup.reviewers /\ IsFiniteSet(setup.reviewers)
      BY ItemType DEF Both, Open, Stays
    <3> QED
      BY <3>1, FS_Subset, FS_CardinalityType
  <2>3. n' = n + k
    <3> HIDE DEF k
    <3>1. n' = (writes[id] + 1) * k
      BY DEF Stays, k
    <3> QED
      BY <2>1, <3>1
  <2>4. commits[id] + Cardinality(Open(id)) <= n + (faults + clashes)
    BY DEF Judgment, Quota
  <2> HIDE DEF n, k
  <2>5. commits'[id] + Cardinality(Open(id)') <= n' + (faults' + clashes')
    BY <2>1, <2>2, <2>3, <2>4 DEF Stays
  <2> QED
    BY <2>5 DEF Quota, n, k
<1>2. ASSUME Judged(id), writes[id] = 0 PROVE Judged(id)'
  <2>1. id \notin Queue /\ Untouched(id) /\ \A q \in Reviewers : Stage(q, id)' = "free"
    BY <1>2 DEF Judged
  <2> QED
    BY <1>2, <2>1 DEF Judged, Untouched
<1>3. writes[id] + 1 <= 1 => writes[id] = 0
  BY ItemType DEF Both
<1> QED
  BY <1>1, <1>2, <1>3, StaysAlone DEF Judgment

(* A reviewer, who may have taken it up, or a producer dies. *)
LEMMA ItemFaulted ==
    ASSUME Both, NEW id \in Ids, Judgment(id), setup' = setup, faults' = faults + 1,
           clashes' = clashes, Same(id),
           NEW p, \A q \in Reviewers \ {p} : Stage(q, id)' = Stage(q, id)
    PROVE  Judgment(id)'
<1>1. setup.reviewers \subseteq Reviewers /\ faults \in Nat /\ clashes \in Nat
  BY ItemType DEF Both
<1>2. Open(id)' \subseteq Open(id) \cup {p}
  BY <1>1 DEF Open, Same
<1>3. faults' + clashes' = faults + clashes + 1
  BY <1>1
<1>4. Quota(id)'
  BY <1>2, <1>3, QuotaMore DEF Judgment, Same
<1>5. ~Alone'
  BY <1>1, <1>3 DEF Alone
<1> QED
  BY <1>4, <1>5 DEF Judgment
------------------------------------------------------------------------------
(* What each step does to the items. *)

LEMMA ReviewerStays ==
    ASSUME Both, NEW r \in Reviewers,
           Approve(r) \/ Reject(r) \/ ApproveClean(r) \/ Review(r)
    PROVE  r \in setup.reviewers /\ Stays
<1>1. r \in setup.reviewers /\ setup' = setup /\ faults' = faults
  BY ReviewerIsThere DEF Both
<1>2. CASE Approve(r) \/ Reject(r) \/ ApproveClean(r) \/ NextClean(r)
  BY <1>1, <1>2 DEF Approve, Reject, ApproveClean, NextClean, files, Stays
<1>3. CASE Commit(r) \/ OpenTmp(r) \/ WriteTmp(r) \/ Remove(r)
  BY <1>1, <1>3 DEF Commit, OpenTmp, WriteTmp, Remove, files, Stays
<1>4. CASE Move(r) \/ ReplaceFiled(r)
  BY <1>1, <1>4 DEF Move, ReplaceFiled, GivesUp, Stays
<1> QED
  BY <1>2, <1>3, <1>4 DEF Review

LEMMA StageReviewing ==
    ASSUME IInv, NEW r \in Reviewers, NEW step \in Steps, NEW t,
           Reviewing(r, step, t), TaskAt(step, t), NEW id
    PROVE  Others(r, id) /\ Stage(r, id)' = StageAt(step, t, id)
<1>1. /\ pc'[r] = step /\ task'[r] = t
      /\ \A q \in Reviewers \ {r} : pc'[q] = pc[q] /\ task'[q] = task[q]
  BY ReviewingControl DEF IInv
<1> QED
  BY <1>1 DEF Others, Stage, StageAt

LEMMA SameFiles ==
    ASSUME file' = file
    PROVE  /\ Queue' = Queue /\ Filed("approved")' = Filed("approved")
           /\ Filed("rejected")' = Filed("rejected")
BY DEF Queue, Filed

(* A step that no item is touched by, except that it may be taken up, or   *)
(* be left.                                                                *)
LEMMA ReviewerQuiet ==
    ASSUME Both, Verdicts, NEW r \in Reviewers, r \in setup.reviewers, Stays,
           UNCHANGED <<file, calls, writes>>,
           NEW step \in Steps, NEW t, Reviewing(r, step, t), TaskAt(step, t),
           \A id \in Ids :
              \/ StageAt(step, t, id) = Stage(r, id)
              \/ /\ id \in Queue /\ Stage(r, id) = "free"
                 /\ StageAt(step, t, id) \in {"commit", "rejected"}
              \/ /\ Decided(r, id) /\ StageAt(step, t, id) = "free"
                 /\ id \in Queue => Stage(r, id) # "filed"
                 /\ id \in Queue /\ Stage(r, id) = "approved" => clashes' = clashes + 1
    PROVE  Verdicts'
<1> SUFFICES ASSUME NEW id \in Ids, ~setup.direct PROVE Judgment(id)'
  BY DEF Verdicts, Stays
<1>1. Judgment(id) /\ Same(id)
  BY SameFiles DEF Verdicts, Same, calls
<1>2. Others(r, id) /\ Stage(r, id)' = StageAt(step, t, id)
  BY StageReviewing DEF Both
<1>3. CASE StageAt(step, t, id) = Stage(r, id)
  BY <1>1, <1>2, <1>3, ItemSame DEF Others
<1>4. CASE id \in Queue /\ Stage(r, id) = "free" /\ StageAt(step, t, id) \in {"commit", "rejected"}
  BY <1>1, <1>2, <1>4, ItemTaken
<1>5. CASE /\ Decided(r, id) /\ StageAt(step, t, id) = "free"
           /\ id \in Queue => Stage(r, id) # "filed"
           /\ id \in Queue /\ Stage(r, id) = "approved" => clashes' = clashes + 1
  BY <1>1, <1>2, <1>5, ItemLeft
<1> QED
  BY <1>3, <1>4, <1>5

(* A step with which a reviewer takes up an item of the queue, or none.    *)
LEMMA TakenVerdicts ==
    ASSUME Both, Verdicts, NEW r \in Reviewers, r \in setup.reviewers, Stays,
           UNCHANGED <<file, calls, writes>>, pc[r] \in {"idle", "next"},
           NEW step \in {"idle", "next", "commit", "move"}, NEW t,
           Reviewing(r, step, t), TaskAt(step, t),
           step \in {"commit", "move"} => t.id \in Queue,
           step = "move" => t.dest = "rejected"
    PROVE  Verdicts'
<1>1. step \in Steps
  BY DEF Steps
<1>2. ASSUME NEW id \in Ids
      PROVE  \/ StageAt(step, t, id) = Stage(r, id)
             \/ /\ id \in Queue /\ Stage(r, id) = "free"
                /\ StageAt(step, t, id) \in {"commit", "rejected"}
  BY DEF Stage, StageAt, Holding, Copying
<1> QED
  BY <1>1, <1>2, ReviewerQuiet

LEMMA ApproveVerdicts ==
    ASSUME Both, Verdicts, NEW r \in Reviewers, Approve(r)
    PROVE  Verdicts'
<1>1. UNCHANGED <<file, calls, writes>> /\ r \in setup.reviewers /\ Stays /\ pc[r] = "idle"
  BY ReviewerStays DEF Approve, files
<1>2. PICK id \in Queue : /\ file[Pending(id)] \in Proposal
                          /\ Reviewing(r, "commit", Task(id, "approved"))
  BY DEF Approve
<1>3. PICK t : t = Task(id, "approved")
  OBVIOUS
<1>4. TaskShape(t) /\ t.id = id /\ t.item \in Proposal /\ t.dest = "approved" /\ t.list = {}
  BY <1>2, <1>3, NewTask
<1>5. TaskAt("commit", t)
  BY <1>4 DEF TaskAt, Queue, Filed
<1> QED
  BY <1>1, <1>2, <1>3, <1>4, <1>5, TakenVerdicts

LEMMA RejectVerdicts ==
    ASSUME Both, Verdicts, NEW r \in Reviewers, Reject(r)
    PROVE  Verdicts'
<1>1. UNCHANGED <<file, calls, writes>> /\ r \in setup.reviewers /\ Stays /\ pc[r] = "idle"
  BY ReviewerStays DEF Reject, files
<1>2. PICK id \in Queue : Reviewing(r, "move", Task(id, "rejected"))
  BY DEF Reject
<1>3. PICK t : t = Task(id, "rejected")
  OBVIOUS
<1>4. TaskShape(t) /\ t.id = id /\ t.dest = "rejected" /\ t.list = {}
  BY <1>3, NewTask
<1>5. TaskAt("move", t)
  BY <1>4 DEF TaskAt, Copying, Queue, Filed
<1> QED
  BY <1>1, <1>2, <1>3, <1>4, <1>5, TakenVerdicts

LEMMA ApproveCleanVerdicts ==
    ASSUME Both, Verdicts, NEW r \in Reviewers, ApproveClean(r)
    PROVE  Verdicts'
<1> DEFINE t == [NoTask EXCEPT !.bulk = TRUE, !.list = Queue]
<1>1. UNCHANGED <<file, calls, writes>> /\ r \in setup.reviewers /\ Stays /\ pc[r] = "idle"
  BY ReviewerStays DEF ApproveClean, files
<1>2. Reviewing(r, "next", t) /\ TaskAt("next", t)
  BY BulkAt DEF ApproveClean, Queue, Filed
<1> HIDE DEF t
<1> QED
  BY <1>1, <1>2, TakenVerdicts

LEMMA NextCleanVerdicts ==
    ASSUME Both, Verdicts, NEW r \in Reviewers, NextClean(r)
    PROVE  Verdicts'
<1>1. UNCHANGED <<file, calls, writes>> /\ r \in setup.reviewers /\ Stays /\ pc[r] = "next"
  BY ReviewerStays DEF NextClean, Review, files
<1>2. PICK step \in {"idle", "next", "commit"} : \E t :
         /\ Reviewing(r, step, t) /\ TaskAt(step, t)
         /\ step = "commit" => t.id \in Queue
  BY NextCleanTask DEF Both
<1>3. PICK t : /\ Reviewing(r, step, t) /\ TaskAt(step, t)
               /\ step = "commit" => t.id \in Queue
  BY <1>2
<1> QED
  BY <1>1, <1>3, TakenVerdicts

LEMMA CommitVerdicts ==
    ASSUME Both, Verdicts, NEW r \in Reviewers, Commit(r)
    PROVE  Verdicts'
<1>1. UNCHANGED <<file, writes>> /\ r \in setup.reviewers /\ Stays /\ pc[r] = "commit"
  BY ReviewerStays DEF Commit, Review, files
<1>2. TaskAt("commit", task[r])
  BY DEF Both, IInv, Control, Tasks, Commit
<1>3. task[r].id \in Ids /\ TaskAt("move", task[r]) /\ task[r].dest = "approved" /\ "move" \in Steps
  BY <1>2 DEF TaskAt, Holding, Copying, Steps
<1>4. Reviewing(r, "move", task[r])
  BY DEF Commit
<1>5. commits' = [commits EXCEPT ![task[r].id] = @ + 1] \/ commits' = commits
  BY DEF Commit, Call
<1> SUFFICES ASSUME NEW id \in Ids, ~setup.direct PROVE Judgment(id)'
  BY <1>1 DEF Verdicts, Stays
<1>6. Others(r, id) /\ Stage(r, id)' = StageAt("move", task[r], id)
  BY <1>3, <1>4, StageReviewing DEF Both
<1>7. Judgment(id)
  BY DEF Verdicts
<1>8. /\ (id \in Queue)' = (id \in Queue) /\ writes'[id] = writes[id]
      /\ (id \in Filed("approved"))' = (id \in Filed("approved"))
      /\ (id \in Filed("rejected"))' = (id \in Filed("rejected"))
  BY <1>1, SameFiles
<1>9. CASE id = task[r].id
  <2>1. Stage(r, id) = "commit" /\ Stage(r, id)' = "approved"
    BY <1>1, <1>3, <1>6, <1>9 DEF Stage, StageAt, Holding
  <2>2. commits'[id] \in {commits[id], commits[id] + 1}
    BY <1>5, <1>9 DEF Both, IInv, Calls
  <2> QED
    BY <1>1, <1>6, <1>7, <1>8, <2>1, <2>2, ItemCommitted
<1>10. CASE id # task[r].id
  <2>1. Stage(r, id)' = Stage(r, id)
    BY <1>6, <1>10 DEF Stage, StageAt
  <2>2. commits'[id] = commits[id]
    BY <1>5, <1>10 DEF Both, IInv, Calls
  <2> QED
    BY <1>1, <1>6, <1>7, <1>8, <2>1, <2>2, ItemSame DEF Others, Same
<1> QED
  BY <1>9, <1>10

(* A command that ends, with the item where it was.                        *)
LEMMA GivesUpVerdicts ==
    ASSUME Both, Verdicts, NEW r \in Reviewers, r \in setup.reviewers, Stays, GivesUp(r),
           pc[r] \in {"move", "replace"}, UNCHANGED <<file, calls, writes>>
    PROVE  Verdicts'
<1>1. Reviewing(r, "idle", NoTask) /\ "idle" \in Steps
  BY DEF GivesUp, Steps
<1>2. task[r].dest \in {"approved", "rejected"}
  BY DEF Both, IInv, Control, Tasks, TaskAt, Holding, Copying
<1>3. ASSUME NEW id \in Ids
      PROVE  \/ StageAt("idle", NoTask, id) = Stage(r, id)
             \/ /\ Decided(r, id) /\ StageAt("idle", NoTask, id) = "free"
                /\ id \in Queue => Stage(r, id) # "filed"
                /\ id \in Queue /\ Stage(r, id) = "approved" => clashes' = clashes + 1
  <2>1. StageAt("idle", NoTask, id) = "free"
    BY DEF StageAt, Holding, Copying
  <2>2. CASE id # task[r].id
    BY <2>1, <2>2 DEF Stage, StageAt
  <2>3. CASE id = task[r].id
    <3>1. Stage(r, id) = task[r].dest
      BY <2>3 DEF Stage, StageAt, Holding, Copying
    <3> QED
      BY <1>2, <2>1, <2>3, <3>1 DEF Decided, GivesUp
  <2> QED
    BY <2>2, <2>3
<1> QED
  BY <1>1, <1>3, NoTaskAt, ReviewerQuiet

(* The reviewer goes on with the copy it has, or with the one it has read. *)
LEMMA MoveVerdicts ==
    ASSUME Both, Verdicts, NEW r \in Reviewers, Move(r)
    PROVE  Verdicts'
<1>1. UNCHANGED <<file, calls, writes>> /\ r \in setup.reviewers /\ Stays /\ pc[r] = "move"
  BY ReviewerStays DEF Move, Review
<1>2. TaskAt("move", task[r])
  BY <1>1 DEF Both, IInv, Control, Tasks
<1>3. CASE GivesUp(r)
  BY <1>1, <1>3, GivesUpVerdicts
<1>4. ASSUME NEW item \in Proposal, Reviewing(r, "open", [task[r] EXCEPT !.item = item])
      PROVE  Verdicts'
  <2>1. PICK u : u = [task[r] EXCEPT !.item = item]
    OBVIOUS
  <2>2. /\ TaskShape(u) /\ u.id = task[r].id /\ u.item = item /\ u.dest = task[r].dest
        /\ u.list = task[r].list
    BY <1>2, <2>1, SetItem DEF TaskAt
  <2>3. TaskAt("open", u) /\ "open" \in Steps
    BY <1>2, <2>2 DEF TaskAt, Holding, Steps
  <2>4. \A id \in Ids : StageAt("open", u, id) = Stage(r, id)
    BY <1>1, <2>2 DEF Stage, StageAt, Holding, Copying
  <2> QED
    BY <1>1, <1>4, <2>1, <2>3, <2>4, ReviewerQuiet
<1> QED
  BY <1>3, <1>4 DEF Move

(* A rename puts a file where it is to be, and no other.                   *)
LEMMA RenameAdds ==
    ASSUME IInv, NEW p \in Producers \cup Reviewers, pc[p] = "replace", Replaced(p)
    PROVE  /\ Path(p) \in Paths /\ file'[Path(p)] # Absent
           /\ \A path \in Paths \ {Path(p)} : file'[path] = file[path]
<1> DEFINE P == Path(p)
<1>1. tmp[P] # Absent /\ file' = [file EXCEPT ![P] = tmp[P]]
  BY DEF Replaced
<1>2. P \in Paths
  BY CopyOf DEF IInv, Copying
<1> HIDE DEF P
<1>3. file'[P] # Absent /\ \A path \in Paths \ {P} : file'[path] = file[path]
  BY <1>1, <1>2 DEF IInv, Files
<1> QED
  BY <1>2, <1>3 DEF P

LEMMA ReplaceFiledVerdicts ==
    ASSUME Both, Verdicts, NEW r \in Reviewers, ReplaceFiled(r)
    PROVE  Verdicts'
<1>1. /\ UNCHANGED <<calls, writes>> /\ r \in setup.reviewers /\ Stays /\ pc[r] = "replace"
      /\ \/ Replaced(r) /\ Reviewing(r, "remove", task[r])
         \/ ReplaceRaises(r) /\ GivesUp(r)
  BY ReviewerStays DEF ReplaceFiled, Review
<1>2. CASE ReplaceRaises(r) /\ GivesUp(r)
  BY <1>1, <1>2, GivesUpVerdicts DEF ReplaceRaises
<1>3. CASE Replaced(r) /\ Reviewing(r, "remove", task[r])
  <2>1. TaskAt("replace", task[r])
    BY <1>1 DEF Both, IInv, Control, Tasks
  <2>2. TaskAt("remove", task[r]) /\ "remove" \in Steps
    BY <2>1 DEF TaskAt, Holding, Copying, Steps
  <2>3. task[r].dest \in {"approved", "rejected"} /\ task[r].id \in Ids
    BY <2>2 DEF TaskAt, Holding
  <2>4. Path(r) = <<task[r].dest, task[r].id>>
    BY ReviewAssumption DEF Path
  <2>5. /\ file'[<<task[r].dest, task[r].id>>] # Absent
        /\ \A path \in Paths \ {<<task[r].dest, task[r].id>>} : file'[path] = file[path]
    BY <1>1, <1>3, <2>4, RenameAdds DEF Both
  <2> SUFFICES ASSUME NEW id \in Ids, ~setup.direct PROVE Judgment(id)'
    BY <1>1 DEF Verdicts, Stays
  <2>6. Others(r, id) /\ Stage(r, id)' = StageAt("remove", task[r], id)
    BY <1>3, <2>2, StageReviewing DEF Both
  <2>7. Judgment(id) /\ writes'[id] = writes[id] /\ commits'[id] = commits[id]
    BY <1>1 DEF Verdicts, calls
  <2>8. \A dir \in {"pending", "approved", "rejected"} :
           dir # task[r].dest \/ id # task[r].id => (id \in Filed(dir))' = (id \in Filed(dir))
    BY <2>5 DEF Filed, Paths
  <2>9. CASE id = task[r].id
    <3>1. (id \in Queue)' = (id \in Queue)
      BY <2>3, <2>8 DEF Queue
    <3>2. Stage(r, id) = task[r].dest
      BY <1>1, <2>9 DEF Stage, StageAt, Holding, Copying
    <3>3. CASE task[r].dest = "approved"
      <4>1. Stage(r, id) = "approved" /\ Stage(r, id)' = "approved"
        BY <2>6, <2>9, <3>2, <3>3 DEF StageAt, Holding
      <4>2. (id \in Filed("approved"))' = TRUE
        BY <2>5, <2>9, <3>3 DEF Filed
      <4>3. (id \in Filed("rejected"))' = (id \in Filed("rejected"))
        BY <2>8, <3>3
      <4> QED
        BY <1>1, <2>6, <2>7, <3>1, <4>1, <4>2, <4>3, ItemFiled
    <3>4. CASE task[r].dest = "rejected"
      <4>1. Stage(r, id) = "rejected" /\ Stage(r, id)' = "filed"
        BY <2>6, <2>9, <3>2, <3>4 DEF StageAt, Holding
      <4>2. (id \in Filed("rejected"))' = TRUE
        BY <2>5, <2>9, <3>4 DEF Filed
      <4>3. (id \in Filed("approved"))' = (id \in Filed("approved"))
        BY <2>8, <3>4
      <4> QED
        BY <1>1, <2>6, <2>7, <3>1, <4>1, <4>2, <4>3, ItemFiled
    <3> QED
      BY <2>3, <3>3, <3>4
  <2>10. CASE id # task[r].id
    <3>1. Same(id)
      BY <2>7, <2>8, <2>10 DEF Same, Queue
    <3>2. \A q \in Reviewers : Stage(q, id)' = Stage(q, id)
      BY <2>6, <2>10 DEF Others, Stage, StageAt
    <3> QED
      BY <1>1, <2>7, <3>1, <3>2, ItemSame
  <2> QED
    BY <2>9, <2>10
<1> QED
  BY <1>1, <1>2, <1>3

LEMMA RemoveVerdicts ==
    ASSUME Both, Verdicts, NEW r \in Reviewers, Remove(r)
    PROVE  Verdicts'
<1>1. UNCHANGED <<calls, writes>> /\ r \in setup.reviewers /\ Stays /\ pc[r] = "remove"
  BY ReviewerStays DEF Remove, Review
<1>2. TaskAt("remove", task[r])
  BY <1>1 DEF Both, IInv, Control, Tasks
<1>3. task[r].id \in Ids /\ task[r].dest \in {"approved", "rejected"}
  BY <1>2 DEF TaskAt, Holding
<1>4. Decided(r, task[r].id) /\ \A id \in Ids \ {task[r].id} : Stage(r, id) = "free"
  BY <1>1, <1>3 DEF Stage, StageAt, Holding, Decided
<1>5. CASE task[r].id \notin Queue
  <2>1. file' = file /\ Reviewing(r, "idle", NoTask) /\ "idle" \in Steps
    BY <1>5 DEF Remove, Steps
  <2>2. \A id : StageAt("idle", NoTask, id) = "free"
    BY DEF StageAt, Holding, Copying
  <2> QED
    BY <1>1, <1>4, <1>5, <2>1, <2>2, NoTaskAt, ReviewerQuiet
<1>6. CASE task[r].id \in Queue
  <2>1. RemovePending(task[r].id) /\ Moved(r)
    BY <1>6 DEF Remove
  <2>2. PICK step \in {"idle", "next"} : \E t : Reviewing(r, step, t) /\ TaskAt(step, t)
    BY <1>2, <2>1, MovedOn
  <2>3. PICK t : Reviewing(r, step, t) /\ TaskAt(step, t)
    BY <2>2
  <2> SUFFICES ASSUME NEW id \in Ids, ~setup.direct PROVE Judgment(id)'
    BY <1>1 DEF Verdicts, Stays
  <2>4. Others(r, id) /\ Stage(r, id)' = "free"
    <3>1. Others(r, id) /\ Stage(r, id)' = StageAt(step, t, id)
      BY <2>3, IdleBacked, StageReviewing DEF Both
    <3> QED
      BY <3>1 DEF StageAt, Holding, Copying
  <2>5. file' = [file EXCEPT ![Pending(task[r].id)] = Absent]
    BY <2>1 DEF RemovePending
  <2>6. file'[Pending(task[r].id)] = Absent
    BY <1>3, <2>5 DEF Both, IInv, Files, Pending, Paths
  <2>7. \A path \in Paths \ {Pending(task[r].id)} : file'[path] = file[path]
    BY <2>5 DEF Both, IInv, Files
  <2>8. /\ Judgment(id) /\ writes'[id] = writes[id] /\ commits'[id] = commits[id]
        /\ (id \in Filed("approved"))' = (id \in Filed("approved"))
        /\ (id \in Filed("rejected"))' = (id \in Filed("rejected"))
    BY <1>1, <2>7 DEF Verdicts, calls, Filed, Paths, Pending
  <2>9. CASE id = task[r].id
    <3>1. id \in Queue /\ id \notin Queue'
      BY <1>6, <2>6, <2>9 DEF Queue, Filed, Pending
    <3> QED
      BY <1>1, <1>4, <2>4, <2>8, <2>9, <3>1, ItemRemoved
  <2>10. CASE id # task[r].id
    <3>1. (id \in Queue)' = (id \in Queue)
      BY <2>7, <2>10 DEF Queue, Filed, Paths, Pending
    <3>2. Same(id)
      BY <2>8, <3>1 DEF Same
    <3> QED
      BY <1>1, <1>4, <2>4, <2>8, <2>10, <3>2, ItemSame DEF Others
  <2> QED
    BY <2>9, <2>10
<1> QED
  BY <1>5, <1>6

(* Whatever leaves the files, the counts and the reviewers' stages.        *)
LEMMA KeptVerdicts ==
    ASSUME Both, Verdicts, Stays, writes' = writes,
           \A path \in Paths : (file[path] = Absent)' = (file[path] = Absent),
           \A q \in Reviewers, id \in Ids : Stage(q, id)' = Stage(q, id),
           setup.direct \/ commits' = commits
    PROVE  Verdicts'
<1> SUFFICES ASSUME NEW id \in Ids, ~setup.direct PROVE Judgment(id)'
  BY DEF Verdicts, Stays
<1>1. \A dir \in {"pending", "approved", "rejected"} : (id \in Filed(dir))' = (id \in Filed(dir))
  BY DEF Filed, Paths
<1>2. Judgment(id) /\ Same(id) /\ \A q \in Reviewers : Stage(q, id)' = Stage(q, id)
  BY <1>1 DEF Verdicts, Same, Queue
<1> QED
  BY <1>2, ItemSame

LEMMA CopyingVerdicts ==
    ASSUME Both, Verdicts, NEW p \in Producers \cup Reviewers, OpenTmp(p) \/ WriteTmp(p)
    PROVE  Verdicts'
<1>1. /\ pc[p] \in Copying /\ task' = task /\ commits' = commits /\ writes' = writes /\ Stays
  BY DEF OpenTmp, WriteTmp, Copying, calls, Stays
<1>2. /\ pc'[p] \in Copying /\ \A q \in (Producers \cup Reviewers) \ {p} : Still(q)
      /\ \A path \in Paths : (file[path] = Absent)' = (file[path] = Absent)
  <2>1. CASE OpenTmp(p)
    BY <2>1, OpenTmpFiles DEF Both, OpenTmp, Copying
  <2>2. CASE WriteTmp(p)
    BY <2>2, WriteTmpFiles DEF Both, Copying
  <2> QED
    BY <2>1, <2>2
<1>3. ASSUME NEW q \in Reviewers, NEW id \in Ids PROVE Stage(q, id)' = Stage(q, id)
  <2>1. CASE q = p
    BY <1>1, <1>2, <2>1 DEF Stage, StageAt, Holding, Copying
  <2>2. CASE q # p
    BY <1>2, <2>2 DEF Stage, Still
  <2> QED
    BY <2>1, <2>2
<1> QED
  BY <1>1, <1>2, <1>3, KeptVerdicts

(* The steps of a producer, of whom only one queues anything. *)
LEMMA ProducerVerdicts ==
    ASSUME Both, Verdicts, Stays, UNCHANGED <<file, writes>>,
           \A q \in Reviewers : pc'[q] = pc[q] /\ task'[q] = task[q],
           setup.direct \/ commits' = commits
    PROVE  Verdicts'
<1>1. \A q \in Reviewers, id \in Ids : Stage(q, id)' = Stage(q, id)
  BY DEF Stage
<1> QED
  BY <1>1, KeptVerdicts

LEMMA ProducerPc ==
    ASSUME IInv, NEW w \in Producers, NEW step, NEW x, Running(w, step, x)
    PROVE  \A q \in Reviewers : pc'[q] = pc[q] /\ task'[q] = task[q]
BY ReviewAssumption DEF Running, GoTo, IInv, Control

LEMMA ReplaceItemVerdicts ==
    ASSUME Both, Verdicts, NEW w \in Producers, ReplaceItem(w)
    PROVE  Verdicts'
<1>1. PICK i : i = <<run[w].claim, run[w].day>>
  OBVIOUS
<1>2. /\ pc[w] = "replace" /\ UNCHANGED <<commits, clashes, setup, faults>>
      /\ \/ Replaced(w) /\ writes' = [writes EXCEPT ![i] = @ + 1]
         \/ ReplaceRaises(w) /\ UNCHANGED writes
      /\ \E step, x : Running(w, step, x)
  BY <1>1 DEF ReplaceItem, calls
<1>3. \A q \in Reviewers : pc'[q] = pc[q] /\ task'[q] = task[q]
  BY <1>2, ProducerPc DEF Both
<1>4. Stays
  BY <1>2 DEF Stays
<1>5. CASE ReplaceRaises(w) /\ UNCHANGED writes
  BY <1>2, <1>3, <1>4, <1>5, ProducerVerdicts DEF ReplaceRaises
<1>6. CASE Replaced(w) /\ writes' = [writes EXCEPT ![i] = @ + 1]
  <2>1. Path(w) = Pending(i)
    BY <1>1 DEF Path
  <2>2. /\ Pending(i) \in Paths /\ file'[Pending(i)] # Absent
        /\ \A path \in Paths \ {Pending(i)} : file'[path] = file[path]
    BY <1>2, <1>6, <2>1, RenameAdds DEF Both
  <2>3. i \in Ids
    BY <2>2 DEF Paths, Pending
  <2>4. ~setup.direct
    BY <1>2 DEF Both, Present, Queueing, Copying
  <2> SUFFICES ASSUME NEW id \in Ids PROVE Judgment(id)'
    BY <1>2, <2>4 DEF Verdicts
  <2>5. Judgment(id) /\ \A q \in Reviewers : Stage(q, id)' = Stage(q, id)
    BY <1>3, <2>4 DEF Verdicts, Stage
  <2>6. /\ commits'[id] = commits[id]
        /\ (id \in Filed("approved"))' = (id \in Filed("approved"))
        /\ (id \in Filed("rejected"))' = (id \in Filed("rejected"))
    BY <1>2, <2>2 DEF Filed, Paths, Pending
  <2>7. CASE id = i
    <3>1. id \in Queue'
      BY <2>2, <2>7 DEF Queue, Filed, Pending
    <3>2. writes'[id] = writes[id] + 1
      BY <1>6, <2>7 DEF Both, IInv, Rest
    <3> QED
      BY <1>4, <2>5, <2>6, <3>1, <3>2, ItemQueued
  <2>8. CASE id # i
    <3>1. (id \in Queue)' = (id \in Queue)
      BY <2>2, <2>8 DEF Queue, Filed, Paths, Pending
    <3>2. writes'[id] = writes[id]
      BY <1>6, <2>8 DEF Both, IInv, Rest
    <3> QED
      BY <1>4, <2>5, <2>6, <3>1, <3>2, ItemSame DEF Same
  <2> QED
    BY <2>7, <2>8
<1> QED
  BY <1>2, <1>5, <1>6

LEMMA DieVerdicts ==
    ASSUME Both, Verdicts, NEW p \in Producers \cup Reviewers, Die(p)
    PROVE  Verdicts'
<1>1. UNCHANGED <<file, clashes, calls, writes, setup>> /\ faults' = faults + 1
  BY DEF Die
<1>2. \A q \in Reviewers \ {p} : pc'[q] = pc[q] /\ task'[q] = task[q]
  BY DEF Die, GoTo, Both, IInv, Control
<1> SUFFICES ASSUME NEW id \in Ids, ~setup.direct PROVE Judgment(id)'
  BY <1>1 DEF Verdicts
<1>3. Judgment(id) /\ Same(id)
  BY <1>1, SameFiles DEF Verdicts, Same, calls
<1>4. \A q \in Reviewers \ {p} : Stage(q, id)' = Stage(q, id)
  BY <1>2 DEF Stage
<1> QED
  BY <1>1, <1>3, <1>4, ItemFaulted

(* The other steps of a producer: no queue, and no commit of an item.      *)
LEMMA OtherProducerVerdicts ==
    ASSUME Both, Verdicts, NEW w \in Producers,
           \/ Begin(w) \/ Touch(w) \/ Extract(w) \/ Emit(w)
           \/ CountBefore(w) \/ WriteDirect(w) \/ VerifyDelta(w)
    PROVE  Verdicts'
<1>1. CASE Begin(w) \/ Touch(w) \/ Extract(w) \/ Emit(w)
  <2>1. \A q \in Reviewers : pc'[q] = pc[q] /\ task'[q] = task[q]
    BY <1>1, ProducerPc DEF Begin, Touch, Extract, Emit, Both
  <2>2. UNCHANGED <<file, writes, commits>> /\ Stays
    BY <1>1 DEF Begin, Touch, Extract, Emit, files, calls, Stays
  <2> QED
    BY <2>1, <2>2, ProducerVerdicts
<1>2. CASE CountBefore(w) \/ WriteDirect(w) \/ VerifyDelta(w)
  <2>1. \A q \in Reviewers : pc'[q] = pc[q] /\ task'[q] = task[q]
    BY <1>2, ProducerPc DEF CountBefore, WriteDirect, VerifyDelta, Both
  <2>2. UNCHANGED <<file, writes>> /\ Stays
    BY <1>2 DEF CountBefore, WriteDirect, VerifyDelta, files, Stays
  <2>3. setup.direct
    BY <1>2 DEF CountBefore, WriteDirect, VerifyDelta, Both, Present, Counting
  <2> QED
    BY <2>1, <2>2, <2>3, ProducerVerdicts
<1> QED
  BY <1>1, <1>2

LEMMA StepVerdicts == Both /\ Verdicts /\ [Next]_vars => Verdicts'
<1> SUFFICES ASSUME Both, Verdicts, [Next]_vars PROVE Verdicts'
  OBVIOUS
<1>1. CASE UpdateIndex
  <2>1. \A q \in Reviewers : pc'[q] = pc[q] /\ task'[q] = task[q]
    BY <1>1 DEF UpdateIndex
  <2> QED
    BY <1>1, <2>1, ProducerVerdicts DEF UpdateIndex, files, calls, Stays
<1>2. ASSUME NEW w \in Producers, Heartbeat(w) \/ Forced(w) \/ Produce(w) PROVE Verdicts'
  <2>1. CASE OpenTmp(w) \/ WriteTmp(w) \/ ReplaceItem(w)
    BY <2>1, CopyingVerdicts, ReplaceItemVerdicts
  <2>2. CASE \/ Begin(w) \/ Touch(w) \/ Extract(w) \/ Emit(w)
             \/ CountBefore(w) \/ WriteDirect(w) \/ VerifyDelta(w)
    BY <2>2, OtherProducerVerdicts
  <2> QED
    BY <1>2, <2>1, <2>2 DEF Heartbeat, Forced, Produce
<1>3. ASSUME NEW r \in Reviewers, Approve(r) \/ Reject(r) \/ ApproveClean(r) PROVE Verdicts'
  BY <1>3, ApproveVerdicts, RejectVerdicts, ApproveCleanVerdicts
<1>4. ASSUME NEW r \in Reviewers, Review(r) PROVE Verdicts'
  <2>1. CASE NextClean(r) \/ Commit(r) \/ Move(r)
    BY <2>1, NextCleanVerdicts, CommitVerdicts, MoveVerdicts
  <2>2. CASE OpenTmp(r) \/ WriteTmp(r)
    BY <2>2, CopyingVerdicts
  <2>3. CASE ReplaceFiled(r) \/ Remove(r)
    BY <2>3, ReplaceFiledVerdicts, RemoveVerdicts
  <2> QED
    BY <1>4, <2>1, <2>2, <2>3 DEF Review
<1>5. ASSUME NEW p \in Producers \cup Reviewers, Die(p) PROVE Verdicts'
  BY <1>5, DieVerdicts
<1>6. CASE UNCHANGED vars
  <2>1. \A q \in Reviewers : pc'[q] = pc[q] /\ task'[q] = task[q]
    BY <1>6 DEF vars
  <2> QED
    BY <1>6, <2>1, ProducerVerdicts DEF vars, files, calls, Stays
<1> QED
  BY <1>1, <1>2, <1>3, <1>4, <1>5, <1>6 DEF Next

LEMMA InitVerdicts == Init => Verdicts
<1> SUFFICES ASSUME Init, NEW id \in Ids PROVE writes[id] = 0 /\ Judgment(id)
  BY DEF Verdicts
<1>1. /\ writes[id] = 0 /\ commits[id] = 0 /\ faults = 0 /\ clashes = 0 /\ id \notin Queue
      /\ id \notin Filed("approved") /\ id \notin Filed("rejected")
  BY DEF Init, Queue, Filed, Paths
<1>2. \A r \in Reviewers : Stage(r, id) = "free"
  BY DEF Init, Stage, StageAt, Holding, Copying
<1>3. Open(id) = {} /\ Cardinality(Open(id)) = 0
  <2>1. setup.reviewers \subseteq Reviewers
    BY ReviewAssumption DEF Init
  <2>2. Open(id) = {}
    BY <1>1, <1>2, <2>1 DEF Open
  <2> QED
    BY <2>2, FS_EmptySet
<1>4. Quota(id)
  <2>1. Cardinality(setup.reviewers) \in Nat
    BY ReviewAssumption, FS_CardinalityType DEF Init
  <2> QED
    BY <1>1, <1>3, <2>1 DEF Quota
<1>5. Judged(id)
  BY <1>1, <1>2 DEF Judged, Untouched
<1> QED
  BY <1>1, <1>4, <1>5 DEF Judgment

LEMMA AlwaysVerdicts == Spec => []Verdicts
<1>1. IInv /\ Present /\ IInv' /\ Present' /\ Verdicts /\ [Next]_vars => Verdicts'
  BY StepVerdicts DEF Both
<1> QED
  BY <1>1, InitVerdicts, AlwaysIInv, AlwaysPresent, PTL DEF Spec

(* Verdicts stand, however producers and reviewers interleave: each time   *)
(* an item is queued each reviewer commits it once at most, unless someone *)
(* died or could not file it; and what the only reviewer rejected is not   *)
(* in the ledger.                                                          *)
THEOREM AlwaysVerdictsStand == Spec => []VerdictsStand
BY AlwaysIInv, AlwaysPresent, AlwaysVerdicts, VerdictsImplied, PTL

------------------------------------------------------------------------------
(* What a direct run counts. *)

Counted(x) == x.before \in Nat /\ x.tagged \in Nat
AtStart(x) == x.tagged = 0 /\ x.failed = FALSE
Starting == {"extract", "count"}

(* The learnings of the ledger that is counted, beside those there were    *)
(* and what was tagged since.  If it is the one that is written, a failed  *)
(* call leaves it short, and nothing makes up; if not, it stays as it is.  *)
Exact(x) ==
    /\ x.failed => x.tagged > 0
    /\ IF setup.project # None THEN TotalLearnings = x.before
       ELSE IF x.failed THEN TotalLearnings < x.before + x.tagged
                        ELSE TotalLearnings = x.before + x.tagged

Solo == Cardinality(setup.producers \cup setup.reviewers) = 1

Delta ==
    /\ \A w \in Producers : Counted(run[w]) /\ (pc[w] \in Starting => AtStart(run[w]))
    /\ Solo => \A w \in Producers : pc[w] = "direct" /\ ~run[w].misread => Exact(run[w])
    /\ DeltaIsHonest

LEMMA SoloOnly ==
    ASSUME Solo, NEW p \in setup.producers \cup setup.reviewers,
           NEW q \in setup.producers \cup setup.reviewers, setup \in Setups
    PROVE  q = p
<1> DEFINE S == setup.producers \cup setup.reviewers
<1>1. IsFiniteSet(setup.producers) /\ IsFiniteSet(setup.reviewers)
  BY ReviewAssumption
<1>2. IsFiniteSet(S)
  BY <1>1, FS_Union
<1>3. PICK x : S = {x}
  BY <1>2, FS_Singleton DEF Solo
<1> QED
  BY <1>3

LEMMA TotalIsNat == IInv => TotalLearnings \in Nat
<1>1. IInv => setup.project \in Nat \cup {None} /\ Cardinality(ledger) \in Nat
  BY ReviewAssumption, FS_CardinalityType DEF IInv, Rest, Calls, LedgerInv
<1> QED
  BY <1>1 DEF TotalLearnings

(* A step of a producer, the only process there is if there is just one.   *)
LEMMA ProducerDelta ==
    ASSUME IInv, Present, Delta, NEW w \in Producers, w \in setup.producers, setup' = setup,
           NEW step, NEW x, Running(w, step, x), Counted(x), step \in Starting => AtStart(x),
           Solo /\ step = "direct" /\ ~x.misread => Exact(x)', DeltaIsHonest'
    PROVE  Delta'
<1>1. /\ pc'[w] = step /\ run'[w] = x
      /\ \A v \in Producers \ {w} : pc'[v] = pc[v] /\ run'[v] = run[v]
  BY DEF Running, GoTo, IInv, Control
<1>2. \A v \in Producers : Counted(run'[v]) /\ (pc'[v] \in Starting => AtStart(run'[v]))
  <2> TAKE v \in Producers
  <2>1. CASE v = w
    BY <1>1, <2>1
  <2>2. CASE v # w
    BY <1>1, <2>2 DEF Delta
  <2> QED
    BY <2>1, <2>2
<1>3. ASSUME Solo, NEW v \in Producers, pc'[v] = "direct", ~run'[v].misread PROVE Exact(run[v])'
  <2>1. CASE v = w
    BY <1>1, <1>3, <2>1 DEF Exact
  <2>2. CASE v # w
    <3>1. v \in setup.producers
      BY <1>1, <1>3, <2>2 DEF Present
    <3>2. v = w
      BY <1>3, <3>1, SoloOnly DEF IInv, Rest
    <3> QED
      BY <2>2, <3>2
  <2> QED
    BY <2>1, <2>2
<1>4. Solo' = Solo
  BY DEF Solo
<1> QED
  BY <1>2, <1>3, <1>4 DEF Delta, Counted, AtStart

LEMMA QuietReport ==
    ASSUME Delta, report' = report, setup' = setup
    PROVE  DeltaIsHonest'
BY DEF Delta, DeltaIsHonest

(* A step that leaves the counts where they are, or ends a run.            *)
LEMMA KeptDelta ==
    ASSUME Delta, setup' = setup, report' = report, ledger' = ledger,
           \A w \in Producers :
              \/ pc'[w] = "idle" /\ run'[w] = NoRun
              \/ /\ pc'[w] = pc[w] \/ pc'[w] \notin Starting \cup {"direct"}
                 /\ run'[w].before = run[w].before /\ run'[w].misread = run[w].misread
                 /\ run'[w].tagged = run[w].tagged /\ run'[w].failed = run[w].failed
    PROVE  Delta'
<1>1. Solo' = Solo /\ TotalLearnings' = TotalLearnings
  BY DEF Solo, TotalLearnings
<1>2. Counted(NoRun)
  BY NoRunAt DEF Counted
<1>3. \A w \in Producers : Counted(run'[w]) /\ (pc'[w] \in Starting => AtStart(run'[w]))
  <2> TAKE w \in Producers
  <2>1. Counted(run[w]) /\ (pc[w] \in Starting => AtStart(run[w]))
    BY DEF Delta
  <2>2. CASE pc'[w] = "idle" /\ run'[w] = NoRun
    BY <1>2, <2>2 DEF Starting
  <2>3. CASE ~(pc'[w] = "idle" /\ run'[w] = NoRun)
    BY <2>1, <2>3 DEF Counted, AtStart
  <2> QED
    BY <2>2, <2>3
<1>4. ASSUME Solo, NEW w \in Producers, pc'[w] = "direct", ~run'[w].misread PROVE Exact(run[w])'
  <2>1. /\ pc[w] = "direct" /\ ~run[w].misread
        /\ run'[w].before = run[w].before /\ run'[w].tagged = run[w].tagged
        /\ run'[w].failed = run[w].failed
    BY <1>4
  <2>2. Exact(run[w])
    BY <1>4, <2>1 DEF Delta
  <2> QED
    BY <1>1, <2>1, <2>2 DEF Exact
<1> QED
  BY <1>1, <1>3, <1>4, QuietReport DEF Delta, Counted, AtStart

LEMMA BeginDelta ==
    ASSUME IInv, Present, Delta, NEW w \in Producers, Begin(w)
    PROVE  Delta'
<1>1. PICK day \in Days : Running(w, "extract", [NoRun EXCEPT !.day = day])
  BY DEF Begin
<1>2. PICK y : y = [NoRun EXCEPT !.day = day]
  OBVIOUS
<1>3. RunShape(NoRun)
  BY NoRunAt DEF RunAt
<1>4. y = RunOf(day, NoRun.todo, NoRun.claim, NoRun.missed, NoRun.lost, NoRun.before,
                NoRun.misread, NoRun.tagged, NoRun.failed)
  BY <1>2, <1>3, SetDay
<1>5. y.before = 0 /\ y.tagged = 0 /\ y.failed = FALSE
  BY <1>4, NoRunAt, RunOfShape
<1>6. Counted(y) /\ AtStart(y)
  BY <1>5 DEF Counted, AtStart
<1>7. w \in setup.producers /\ setup' = setup /\ report' = report /\ Running(w, "extract", y)
  BY <1>1, <1>2 DEF Begin
<1> QED
  BY <1>6, <1>7, QuietReport, ProducerDelta

LEMMA ExtractDelta ==
    ASSUME IInv, Present, Delta, NEW w \in Producers, Extract(w)
    PROVE  Delta'
<1>1. w \in setup.producers /\ setup' = setup /\ report' = report
  BY DEF Extract, Present
<1>2. RunShape(run[w]) /\ AtStart(run[w]) /\ Counted(run[w])
  BY DEF IInv, Control, Runs, RunAt, Delta, Extract, Starting
<1>3. CASE Running(w, "idle", NoRun)
  <2>1. Counted(NoRun)
    BY NoRunAt DEF Counted
  <2> QED
    BY <1>1, <1>3, <2>1, QuietReport, ProducerDelta DEF Starting
<1>4. ASSUME NEW todo, NEW lost, NEW step \in {"count", "emit"},
             Running(w, step, [run[w] EXCEPT !.todo = todo, !.lost = lost])
      PROVE  Delta'
  <2>1. PICK y : y = [run[w] EXCEPT !.todo = todo, !.lost = lost]
    OBVIOUS
  <2>2. y = RunOf(run[w].day, todo, run[w].claim, run[w].missed, lost, run[w].before,
                  run[w].misread, run[w].tagged, run[w].failed)
    BY <1>2, <2>1, SetTodoLost
  <2>3. y.before = run[w].before /\ y.tagged = run[w].tagged /\ y.failed = run[w].failed
    BY <2>2, RunOfShape
  <2>4. Counted(y) /\ AtStart(y)
    BY <1>2, <2>3 DEF Counted, AtStart
  <2>5. Running(w, step, y) /\ step # "direct"
    BY <1>4, <2>1
  <2> QED
    BY <1>1, <2>4, <2>5, QuietReport, ProducerDelta
<1>5. CASE \E passed \in SUBSET setup.claims : \E todo \in [passed -> Gate], lost \in BOOLEAN :
             Running(w, IF setup.direct THEN "count" ELSE "emit",
                     [run[w] EXCEPT !.todo = todo, !.lost = lost])
  <2>1. (IF setup.direct THEN "count" ELSE "emit") \in {"count", "emit"}
    OBVIOUS
  <2> QED
    BY <1>4, <1>5, <2>1
<1> QED
  BY <1>3, <1>5, ExtractRun

LEMMA CountBeforeDelta ==
    ASSUME IInv, Present, Delta, NEW w \in Producers, CountBefore(w)
    PROVE  Delta'
<1>1. /\ w \in setup.producers /\ setup' = setup /\ report' = report /\ ledger' = ledger
      /\ RunShape(run[w]) /\ AtStart(run[w]) /\ Counted(run[w])
  BY DEF CountBefore, Present, calls, IInv, Control, Runs, RunAt, Delta, Starting
<1>2. PICK count \in Count :
         Running(w, "direct", [run[w] EXCEPT !.before = count.n, !.misread = count.misread])
  BY DEF CountBefore
<1>3. PICK y : y = [run[w] EXCEPT !.before = count.n, !.misread = count.misread]
  OBVIOUS
<1>4. y = RunOf(run[w].day, run[w].todo, run[w].claim, run[w].missed, run[w].lost, count.n,
                count.misread, run[w].tagged, run[w].failed)
  BY <1>1, <1>3, SetBefore
<1>5. /\ y.before = count.n /\ y.misread = count.misread
      /\ y.tagged = run[w].tagged /\ y.failed = run[w].failed
  BY <1>4, RunOfShape
<1>6. \/ count.n = TotalLearnings /\ count.misread = FALSE
      \/ count.n = 0 /\ count.misread = TRUE
  BY <1>2, CountOf
<1>7. TotalLearnings \in Nat /\ TotalLearnings' = TotalLearnings
  BY <1>1, TotalIsNat DEF TotalLearnings
<1>8. Counted(y)
  BY <1>1, <1>5, <1>6, <1>7 DEF Counted
<1>9. ASSUME ~y.misread PROVE Exact(y)'
  <2>1. y.before = TotalLearnings /\ y.tagged = 0 /\ y.failed = FALSE
    BY <1>1, <1>5, <1>6, <1>9 DEF AtStart
  <2> QED
    BY <1>7, <2>1 DEF Exact
<1>10. Running(w, "direct", y)
  BY <1>2, <1>3
<1> QED
  BY <1>1, <1>8, <1>9, <1>10, QuietReport, ProducerDelta DEF Starting

LEMMA QueueingDelta ==
    ASSUME IInv, Present, Delta, NEW w \in Producers,
           Emit(w) \/ OpenTmp(w) \/ WriteTmp(w) \/ ReplaceItem(w) \/ Touch(w)
    PROVE  Delta'
<1>1. setup' = setup /\ report' = report /\ ledger' = ledger
  BY DEF Emit, OpenTmp, WriteTmp, ReplaceItem, Touch, calls
<1>2. RunShape(run[w])
  BY DEF IInv, Control, Runs, RunAt
<1>3. ASSUME NEW step \in {"emit", "open", "write", "replace", "idle"}, NEW x, Running(w, step, x),
             \/ step = "idle" /\ x = NoRun
             \/ /\ x.before = run[w].before /\ x.misread = run[w].misread
                /\ x.tagged = run[w].tagged /\ x.failed = run[w].failed
      PROVE  Delta'
  <2>1. /\ pc'[w] = step /\ run'[w] = x
        /\ \A v \in Producers \ {w} : pc'[v] = pc[v] /\ run'[v] = run[v]
    BY <1>3 DEF Running, GoTo, IInv, Control
  <2>2. \A v \in Producers :
           \/ pc'[v] = "idle" /\ run'[v] = NoRun
           \/ /\ pc'[v] = pc[v] \/ pc'[v] \notin Starting \cup {"direct"}
              /\ run'[v].before = run[v].before /\ run'[v].misread = run[v].misread
              /\ run'[v].tagged = run[v].tagged /\ run'[v].failed = run[v].failed
    BY <1>3, <2>1 DEF Starting
  <2> QED
    BY <1>1, <2>2, KeptDelta
<1>4. CASE Touch(w)
  BY <1>3, <1>4 DEF Touch
<1>5. CASE Emit(w)
  <2>1. PICK c, left :
           \/ Running(w, "emit", [run[w] EXCEPT !.todo = left])
           \/ Running(w, "open", [run[w] EXCEPT !.claim = c])
    BY <1>5 DEF Emit
  <2>2. PICK y : y = [run[w] EXCEPT !.todo = left]
    OBVIOUS
  <2>3. y = RunOf(run[w].day, left, run[w].claim, run[w].missed, run[w].lost, run[w].before,
                  run[w].misread, run[w].tagged, run[w].failed)
    BY <1>2, <2>2, SetTodo
  <2>4. /\ y.before = run[w].before /\ y.misread = run[w].misread
        /\ y.tagged = run[w].tagged /\ y.failed = run[w].failed
    BY <2>3, RunOfShape
  <2>5. PICK z : z = [run[w] EXCEPT !.claim = c]
    OBVIOUS
  <2>6. z = RunOf(run[w].day, run[w].todo, c, run[w].missed, run[w].lost, run[w].before,
                  run[w].misread, run[w].tagged, run[w].failed)
    BY <1>2, <2>5, SetClaim
  <2>7. /\ z.before = run[w].before /\ z.misread = run[w].misread
        /\ z.tagged = run[w].tagged /\ z.failed = run[w].failed
    BY <2>6, RunOfShape
  <2>8. Running(w, "emit", y) \/ Running(w, "open", z)
    BY <2>1, <2>2, <2>5
  <2> QED
    BY <1>3, <2>4, <2>7, <2>8
<1>6. CASE ReplaceItem(w)
  <2>1. PICK left : \/ Running(w, "emit", [run[w] EXCEPT !.todo = left, !.claim = None])
                    \/ Running(w, "idle", NoRun)
    BY <1>6 DEF ReplaceItem
  <2>2. PICK y : y = [run[w] EXCEPT !.todo = left, !.claim = None]
    OBVIOUS
  <2>3. y = RunOf(run[w].day, left, None, run[w].missed, run[w].lost, run[w].before,
                  run[w].misread, run[w].tagged, run[w].failed)
    BY <1>2, <2>2, SetTodoClaim
  <2>4. /\ y.before = run[w].before /\ y.misread = run[w].misread
        /\ y.tagged = run[w].tagged /\ y.failed = run[w].failed
    BY <2>3, RunOfShape
  <2>5. Running(w, "emit", y) \/ Running(w, "idle", NoRun)
    BY <2>1, <2>2
  <2> QED
    BY <1>3, <2>4, <2>5
<1>7. CASE OpenTmp(w) \/ WriteTmp(w)
  <2>1. run' = run /\ (GoTo(w, "write") \/ GoTo(w, "replace"))
    BY <1>7 DEF OpenTmp, WriteTmp
  <2>2. pc'[w] \in {"write", "replace"} /\ \A v \in Producers \ {w} : pc'[v] = pc[v]
    BY <2>1 DEF GoTo, IInv, Control
  <2>3. \A v \in Producers : pc'[v] = pc[v] \/ pc'[v] \notin Starting \cup {"direct"}
    BY <2>2 DEF Starting
  <2> QED
    BY <1>1, <2>1, <2>3, KeptDelta
<1> QED
  BY <1>4, <1>5, <1>6, <1>7

LEMMA WriteDirectDelta ==
    ASSUME IInv, Present, Delta, NEW w \in Producers, WriteDirect(w)
    PROVE  Delta'
<1>1. /\ w \in setup.producers /\ setup' = setup /\ report' = report
      /\ RunAt("direct", run[w]) /\ Counted(run[w]) /\ (Solo /\ ~run[w].misread => Exact(run[w]))
  BY DEF WriteDirect, Present, IInv, Control, Runs, Delta
<1>2. PICK c \in DOMAIN run[w].todo :
         LET action == run[w].todo[c].action
             rest == [run[w] EXCEPT !.todo = Restrict(@, DOMAIN @ \ {c}),
                                    !.tagged = IF action = "tag" THEN @ + 1 ELSE @]
         IN  IF action = "contradict"
             THEN UNCHANGED calls /\ Running(w, "direct", rest)
             ELSE /\ Call(<<c, run[w].day>>, action = "tag")
                  /\ Running(w, "direct",
                       [rest EXCEPT !.failed = @ \/ (action = "tag" /\ ledger' = ledger)])
  BY DEF WriteDirect
<1>3. PICK isTag \in BOOLEAN : isTag <=> run[w].todo[c].action = "tag"
  OBVIOUS
<1>4. PICK n : n = IF isTag THEN run[w].tagged + 1 ELSE run[w].tagged
  OBVIOUS
<1>5. PICK left : left = Restrict(run[w].todo, DOMAIN run[w].todo \ {c})
  OBVIOUS
<1>6. PICK y : y = [run[w] EXCEPT !.todo = left, !.tagged = n]
  OBVIOUS
<1>7. y = [run[w] EXCEPT !.todo = Restrict(@, DOMAIN @ \ {c}),
                         !.tagged = IF run[w].todo[c].action = "tag" THEN @ + 1 ELSE @]
  BY <1>3, <1>4, <1>5, <1>6
<1>8. /\ y.before = run[w].before /\ y.misread = run[w].misread /\ y.tagged = n
      /\ y.failed = run[w].failed /\ RunShape(y)
  <2>1. RunShape(run[w])
    BY <1>1 DEF RunAt
  <2>2. y = RunOf(run[w].day, left, run[w].claim, run[w].missed, run[w].lost, run[w].before,
                  run[w].misread, n, run[w].failed)
    BY <1>6, <2>1, SetTodoTagged
  <2> QED
    BY <2>2, RunOfShape
<1>9. /\ run[w].before \in Nat /\ run[w].tagged \in Nat /\ n \in Nat /\ run[w].failed \in BOOLEAN
      /\ run[w].misread \in BOOLEAN /\ Cardinality(ledger) \in Nat
  BY <1>1, <1>4, FS_CardinalityType DEF Counted, RunAt, FlagsOK, IInv, Calls, LedgerInv
<1>10. <<c, run[w].day>> \in Ids
  BY <1>1 DEF RunAt, TodoOK, Active, Ids
<1>11. CASE run[w].todo[c].action = "contradict"
  <2>1. Running(w, "direct", y) /\ ledger' = ledger
    BY <1>2, <1>7, <1>11 DEF calls
  <2>2. n = run[w].tagged /\ TotalLearnings' = TotalLearnings
    BY <1>1, <1>3, <1>4, <1>11, <2>1 DEF TotalLearnings
  <2>3. Counted(y) /\ (Solo /\ ~y.misread => Exact(y)')
    BY <1>1, <1>8, <1>9, <2>2 DEF Counted, Exact
  <2> QED
    BY <1>1, <2>1, <2>3, QuietReport, ProducerDelta DEF Starting
<1>12. CASE run[w].todo[c].action # "contradict"
  <2>1. PICK failed \in BOOLEAN : failed <=> run[w].failed \/ (isTag /\ ledger' = ledger)
    OBVIOUS
  <2>2. PICK z : z = [y EXCEPT !.failed = failed]
    OBVIOUS
  <2>3. Call(<<c, run[w].day>>, run[w].todo[c].action = "tag")
    BY <1>2, <1>12
  <2>4. Running(w, "direct", [y EXCEPT !.failed = @ \/ (run[w].todo[c].action = "tag" /\ ledger' = ledger)])
    BY <1>2, <1>7, <1>12
  <2>5. (y.failed \/ (run[w].todo[c].action = "tag" /\ ledger' = ledger)) = failed
    BY <1>3, <1>8, <1>9, <2>1
  <2>6. Running(w, "direct", z)
    BY <2>2, <2>4, <2>5
  <2>7. z.before = run[w].before /\ z.misread = run[w].misread /\ z.tagged = n /\ z.failed = failed
    <3>1. z = RunOf(y.day, y.todo, y.claim, y.missed, y.lost, y.before, y.misread, y.tagged, failed)
      BY <1>8, <2>2, SetFailed
    <3> QED
      BY <1>8, <3>1, RunOfShape
  <2>8. (run[w].todo[c].action = "tag") = isTag
    BY <1>3
  <2>9. \/ isTag /\ ledger' # ledger /\ Cardinality(ledger') = Cardinality(ledger) + 1
        \/ ledger' = ledger /\ Cardinality(ledger') = Cardinality(ledger)
    BY <1>10, <2>3, <2>8, CallLedger DEF IInv
  <2>10. Counted(z)
    BY <1>9, <2>7 DEF Counted
  <2>11. ASSUME Solo, ~z.misread PROVE Exact(z)'
    <3>1. Exact(run[w])
      BY <1>1, <2>7, <2>11
    <3>2. failed => n > 0
      <4>1. run[w].failed => run[w].tagged > 0
        BY <3>1 DEF Exact
      <4> QED
        BY <1>4, <1>9, <2>1, <4>1
    <3>3. CASE setup.project # None
      <4>1. TotalLearnings = run[w].before /\ TotalLearnings' = TotalLearnings
        BY <1>1, <3>1, <3>3 DEF Exact, TotalLearnings
      <4> QED
        BY <1>1, <2>7, <3>2, <3>3, <4>1 DEF Exact
    <3>4. CASE setup.project = None
      <4>1. TotalLearnings = Cardinality(ledger) /\ TotalLearnings' = Cardinality(ledger')
        BY <1>1, <3>4 DEF TotalLearnings
      <4>2. IF run[w].failed THEN Cardinality(ledger) < run[w].before + run[w].tagged
                             ELSE Cardinality(ledger) = run[w].before + run[w].tagged
        BY <3>1, <3>4, <4>1 DEF Exact
      <4>3. IF failed THEN Cardinality(ledger') < run[w].before + n
                      ELSE Cardinality(ledger') = run[w].before + n
        BY <1>4, <1>9, <2>1, <2>9, <4>2
      <4> QED
        BY <1>1, <2>7, <3>2, <3>4, <4>1, <4>3 DEF Exact
    <3> QED
      BY <3>3, <3>4
  <2> QED
    BY <1>1, <2>6, <2>10, <2>11, QuietReport, ProducerDelta DEF Starting
<1> QED
  BY <1>11, <1>12

LEMMA VerifyDeltaDelta ==
    ASSUME IInv, Present, Delta, NEW w \in Producers, VerifyDelta(w)
    PROVE  Delta'
<1>1. /\ w \in setup.producers /\ setup' = setup /\ Running(w, "idle", NoRun) /\ Counted(run[w])
      /\ (Solo /\ ~run[w].misread => Exact(run[w]))
      /\ run[w].failed \in BOOLEAN /\ run[w].misread \in BOOLEAN
  BY DEF VerifyDelta, Present, Delta, IInv, Control, Runs, RunAt, FlagsOK
<1>2. PICK count \in Count :
         report' = [ok |-> DeltaOk(count.n - run[w].before, run[w].tagged),
                    failed |-> run[w].failed, misread |-> run[w].misread \/ count.misread]
  BY DEF VerifyDelta
<1>3. /\ report'.failed = run[w].failed /\ report'.misread = (run[w].misread \/ count.misread)
      /\ report'.ok = (count.n - run[w].before = run[w].tagged)
  BY <1>2 DEF DeltaOk
<1>4. \/ count.n = TotalLearnings /\ count.misread = FALSE
      \/ count.n = 0 /\ count.misread = TRUE
  BY <1>2, CountOf
<1>5. ASSUME Solo, ~report'.misread
      PROVE  /\ report'.ok => ~report'.failed
             /\ setup.project = None /\ ~report'.failed => report'.ok
  <2>1. count.n = TotalLearnings /\ ~run[w].misread
    BY <1>3, <1>4, <1>5
  <2>2. Exact(run[w])
    BY <1>1, <1>5, <2>1
  <2>3. run[w].before \in Nat /\ run[w].tagged \in Nat /\ TotalLearnings \in Nat
    BY <1>1, TotalIsNat DEF Counted
  <2>4. TotalLearnings - run[w].before = run[w].tagged => ~run[w].failed
    <3>1. CASE setup.project # None
      <4>1. TotalLearnings = run[w].before /\ (run[w].failed => run[w].tagged > 0)
        BY <2>2, <3>1 DEF Exact
      <4> QED
        BY <2>3, <4>1
    <3>2. CASE setup.project = None
      <4>1. run[w].failed => TotalLearnings < run[w].before + run[w].tagged
        BY <2>2, <3>2 DEF Exact
      <4> QED
        BY <2>3, <4>1
    <3> QED
      BY <3>1, <3>2
  <2>5. ASSUME setup.project = None, ~run[w].failed
        PROVE  TotalLearnings - run[w].before = run[w].tagged
    <3>1. TotalLearnings = run[w].before + run[w].tagged
      BY <2>2, <2>5 DEF Exact
    <3> QED
      BY <2>3, <3>1
  <2> QED
    BY <1>3, <2>1, <2>4, <2>5
<1>6. DeltaIsHonest'
  BY <1>1, <1>5 DEF DeltaIsHonest, Solo
<1>7. Counted(NoRun)
  BY NoRunAt DEF Counted
<1> QED
  BY <1>1, <1>6, <1>7, ProducerDelta DEF Starting

(* Where a reviewer is at work, no producer that is alone is.              *)
LEMMA ReviewerDelta ==
    ASSUME IInv, Present, Delta, NEW r \in Reviewers, r \in setup.reviewers,
           setup' = setup, report' = report, run' = run, \A w \in Producers : pc'[w] = pc[w]
    PROVE  Delta'
<1>1. ASSUME Solo, NEW w \in Producers PROVE pc[w] # "direct"
  <2> SUFFICES ASSUME w \in setup.producers PROVE FALSE
    BY DEF Present
  <2>1. w = r
    BY <1>1, SoloOnly DEF IInv, Rest
  <2> QED
    BY <2>1, ReviewAssumption
<1>2. Solo' = Solo
  BY DEF Solo
<1> QED
  BY <1>1, <1>2, QuietReport DEF Delta, Counted, AtStart

(* What a reviewer does leaves the runs and the report alone.              *)
LEMMA ReviewerRuns ==
    ASSUME IInv, NEW r \in Reviewers
    PROVE  /\ Approve(r) \/ Reject(r) \/ ApproveClean(r) \/ NextClean(r)
                 => report' = report /\ run' = run
           /\ Commit(r) \/ Move(r) \/ OpenTmp(r) \/ WriteTmp(r) => report' = report /\ run' = run
           /\ ReplaceFiled(r) \/ Remove(r) => report' = report /\ run' = run
<1>1. Approve(r) \/ Reject(r) \/ ApproveClean(r) \/ NextClean(r) => report' = report /\ run' = run
  BY DEF Approve, Reject, ApproveClean, NextClean, Reviewing
<1>2. Commit(r) \/ Move(r) \/ OpenTmp(r) \/ WriteTmp(r) => report' = report /\ run' = run
  BY DEF Commit, Move, OpenTmp, WriteTmp, GivesUp, Reviewing
<1>3. ReplaceFiled(r) \/ Remove(r) => report' = report /\ run' = run
  BY DEF ReplaceFiled, Remove, Moved, GivesUp, Reviewing
<1> QED
  BY <1>1, <1>2, <1>3

LEMMA StepDelta == IInv /\ Present /\ Delta /\ [Next]_vars => Delta'
<1> SUFFICES ASSUME IInv, Present, Delta, [Next]_vars PROVE Delta'
  OBVIOUS
<1>1. CASE UpdateIndex
  <2>1. setup' = setup /\ report' = report /\ ledger' = ledger /\ pc' = pc
    BY <1>1 DEF UpdateIndex, calls
  <2>2. ASSUME NEW w \in Producers
        PROVE  /\ run'[w].before = run[w].before /\ run'[w].misread = run[w].misread
               /\ run'[w].tagged = run[w].tagged /\ run'[w].failed = run[w].failed
    <3>1. run'[w] \in {run[w], [run[w] EXCEPT !.missed = TRUE]}
      BY <1>1 DEF UpdateIndex
    <3>2. RunAt(pc[w], run[w])
      BY DEF IInv, Control, Runs
    <3>3. PICK y : y = [run[w] EXCEPT !.missed = TRUE]
      OBVIOUS
    <3>4. /\ y.before = run[w].before /\ y.misread = run[w].misread
          /\ y.tagged = run[w].tagged /\ y.failed = run[w].failed
      BY <3>2, <3>3, MissedAt
    <3> QED
      BY <3>1, <3>3, <3>4
  <2> QED
    BY <2>1, <2>2, KeptDelta
<1>2. ASSUME NEW w \in Producers, Heartbeat(w) \/ Forced(w) \/ Produce(w) PROVE Delta'
  <2>1. CASE Begin(w) \/ Extract(w) \/ CountBefore(w)
    BY <2>1, BeginDelta, ExtractDelta, CountBeforeDelta
  <2>2. CASE Emit(w) \/ OpenTmp(w) \/ WriteTmp(w) \/ ReplaceItem(w) \/ Touch(w)
    BY <2>2, QueueingDelta
  <2>3. CASE WriteDirect(w) \/ VerifyDelta(w)
    BY <2>3, WriteDirectDelta, VerifyDeltaDelta
  <2> QED
    BY <1>2, <2>1, <2>2, <2>3 DEF Heartbeat, Forced, Produce
<1>3. ASSUME NEW r \in Reviewers, Approve(r) \/ Reject(r) \/ ApproveClean(r) \/ Review(r)
      PROVE  Delta'
  <2>1. r \in setup.reviewers /\ setup' = setup /\ \E step : GoTo(r, step)
    BY <1>3, ReviewerIsThere
  <2>2. report' = report /\ run' = run
    BY <1>3, ReviewerRuns DEF Review
  <2>3. \A w \in Producers : pc'[w] = pc[w]
    BY <2>1, ReviewAssumption DEF GoTo, IInv, Control
  <2> QED
    BY <2>1, <2>2, <2>3, ReviewerDelta
<1>4. ASSUME NEW p \in Producers \cup Reviewers, Die(p) PROVE Delta'
  <2>1. setup' = setup /\ report' = report /\ ledger' = ledger
    BY <1>4 DEF Die, calls
  <2>2. \A w \in Producers : \/ pc'[w] = "idle" /\ run'[w] = NoRun
                             \/ pc'[w] = pc[w] /\ run'[w] = run[w]
    BY <1>4 DEF Die, GoTo, IInv, Control
  <2>3. \A w \in Producers :
           \/ pc'[w] = "idle" /\ run'[w] = NoRun
           \/ /\ pc'[w] = pc[w] \/ pc'[w] \notin Starting \cup {"direct"}
              /\ run'[w].before = run[w].before /\ run'[w].misread = run[w].misread
              /\ run'[w].tagged = run[w].tagged /\ run'[w].failed = run[w].failed
    BY <2>2
  <2> QED
    BY <2>1, <2>3, KeptDelta
<1>5. CASE UNCHANGED vars
  <2>1. UNCHANGED <<setup, report, ledger, run, pc>>
    BY <1>5 DEF vars, calls
  <2> QED
    BY <2>1, KeptDelta
<1> QED
  BY <1>1, <1>2, <1>3, <1>4, <1>5 DEF Next

LEMMA InitDelta == Init => Delta
<1> SUFFICES ASSUME Init PROVE Delta
  OBVIOUS
<1>1. Counted(NoRun)
  BY NoRunAt DEF Counted
<1>2. \A w \in Producers : run[w] = NoRun /\ pc[w] = "idle"
  BY DEF Init
<1>3. DeltaIsHonest
  BY DEF Init, DeltaIsHonest
<1> QED
  BY <1>1, <1>2, <1>3 DEF Delta, Starting

LEMMA AlwaysDelta == Spec => []Delta
BY InitDelta, StepDelta, AlwaysIInv, AlwaysPresent, PTL DEF Spec

(* A direct run that nobody disturbs and whose counts are answered reports *)
(* OK only if no call of its own failed, also where it counts another      *)
(* ledger than it writes; where it counts the one it writes, it reports OK *)
(* exactly then.  For any ledger, any claims and any number of runs before *)
(* it: the count it trusts instead of the answers is enough.               *)
THEOREM AlwaysDeltaIsHonest == Spec => []DeltaIsHonest
<1>1. Delta => DeltaIsHonest
  BY DEF Delta
<1> QED
  BY <1>1, AlwaysDelta, PTL

=============================================================================
