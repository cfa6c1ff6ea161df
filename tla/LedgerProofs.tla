---------------------------- MODULE LedgerProofs ----------------------------
(***************************************************************************)
(* Theorems about Ledger, for every set of processes, blocks and learnings *)
(* and every number of crashes; and about Retrieval, which has all the     *)
(* actions of Ledger, for every number of appends, dreaming passes,        *)
(* searches and crashes, on a ledger that exists and nobody records to.    *)
(***************************************************************************)
EXTENDS Retrieval, SequenceTheorems, FiniteSetTheorems, TLAPS

------------------------------------------------------------------------------
(* Facts about blocks, entries and indexes. *)

LEMMA NewBlockType ==
    ASSUME NEW id \in BlockIds, NEW parent \in OptBlockId, NEW ls \in SUBSET Learnings
    PROVE  NewBlock(id, parent, ls) \in Block
BY DEF NewBlock, Block, ComputeBlockHash, Hash

LEMMA EntryType ==
    ASSUME NEW b \in Block
    PROVE  EntryOf(b) \in Entry
BY DEF EntryOf, Block, Entry

LEMMA LeavesType ==
    ASSUME NEW es \in Seq(Entry)
    PROVE  Leaves(es) \in SUBSET (BlockIds \X Hash)
<1> SUFFICES ASSUME NEW i \in DOMAIN es
             PROVE  <<es[i].id, es[i].hash>> \in BlockIds \X Hash
  BY DEF Leaves
<1>1. es[i] \in Entry
  OBVIOUS
<1> QED
  BY <1>1 DEF Entry

LEMMA ExtendType ==
    ASSUME NEW ix \in Index, NEW b \in Block
    PROVE  Extend(ix, b) \in Index
<1> DEFINE es == Append(ix.blocks, EntryOf(b))
<1>1. es \in Seq(Entry)
  BY EntryType DEF Index
<1>2. Leaves(es) \in SUBSET (BlockIds \X Hash)
  BY <1>1, LeavesType
<1>3. b.id \in OptBlockId
  BY DEF Block, OptBlockId
<1> HIDE DEF es
<1>4. [head |-> b.id, blocks |-> es, root |-> Leaves(es)] \in Index
  BY <1>1, <1>2, <1>3 DEF Index
<1> QED
  BY <1>4 DEF Extend, es

LEMMA EmptyIndexType == EmptyIndex \in Index
BY DEF EmptyIndex, Index, OptBlockId

LEMMA JobOfType ==
    ASSUME NEW op \in Update \cup {"append", "none"}, NEW id \in OptBlockId,
           NEW ls \in SUBSET Learnings
    PROVE  JobOf(op, id, ls) \in Job
BY EmptyIndexType DEF JobOf, Job, OptBlockId, Reinforcements, Reinforcement, Unregistered

LEMMA NoJobType == NoJob \in Job
BY JobOfType DEF NoJob, OptBlockId

------------------------------------------------------------------------------
(* Type correctness. *)

LEMMA InitSetup == Init => setup \in Setups /\ Seed \in SUBSET Learnings
BY LedgerAssumption DEF Init, Seed

LEMMA InitTypeOK == Init => TypeOK
<1> SUFFICES ASSUME Init PROVE TypeOK
  OBVIOUS
<1> DEFINE genesis == NewBlock(CHOOSE b \in BlockIds : TRUE, None, Seed)
<1>1. genesis \in Block
  BY InitSetup, LedgerAssumption, NewBlockType DEF OptBlockId
<1>2. index \in Index
  BY <1>1, EmptyIndexType, ExtendType DEF Init
<1>3. blocks \subseteq Block
  BY <1>1 DEF Init
<1>4. merkle \subseteq BlockIds \X Hash
  BY <1>2, LeavesType DEF Init, Index
<1>5. reinf \in Reinforcements
  <2>1. genesis.id \in BlockIds
    BY <1>1 DEF Block
  <2> QED
    BY <2>1 DEF Init, Reinforcements, Reinforcement, Unregistered, OptBlockId
<1>6. appended \subseteq BlockIds
  BY <1>3 DEF Init, Block
<1>7. acked \in [Learnings -> Acked] /\ unheard \in [Learnings -> Acked]
  BY DEF Init, Acked
<1>8. job \in [Procs -> Job]
  BY NoJobType DEF Init
<1>9. /\ setup \in Setups
      /\ layout \subseteq {"index", "reinforcements"}
      /\ objects \subseteq Learnings
      /\ lock \in [{"index", "reinforcements"} -> Procs \cup {NoProc}]
      /\ pc \in [Procs -> Steps]
      /\ faults \in Nat
  BY InitSetup DEF Init, Steps, OpenSteps
<1> QED
  BY <1>2, <1>3, <1>4, <1>5, <1>6, <1>7, <1>8, <1>9 DEF TypeOK

LEMMA FinishType ==
    ASSUME TypeOK, NEW p \in Procs, NEW step \in Steps, Finish(p, step)
    PROVE  pc' \in [Procs -> Steps] /\ job' \in [Procs -> Job]
BY NoJobType DEF Finish, GoTo, TypeOK

LEMMA ReleaseType ==
    ASSUME TypeOK, NEW p \in Procs, Release(p)
    PROVE  lock' \in [{"index", "reinforcements"} -> Procs \cup {NoProc}]
BY DEF Release, TypeOK

LEMMA GoToType ==
    ASSUME TypeOK, NEW p \in Procs, NEW step \in Steps, GoTo(p, step)
    PROVE  pc' \in [Procs -> Steps]
BY DEF GoTo, TypeOK

LEMMA StepsType ==
    /\ OpenSteps \subseteq Steps /\ IndexSteps \subseteq Steps /\ RecordSteps \subseteq Steps
    /\ {"idle", "lockIndex", "lockReinf"} \subseteq Steps
BY DEF Steps

(* A counter bumped in a record of counters. *)
LEMMA BumpType ==
    ASSUME NEW kind \in Update
    PROVE  /\ \A r \in Reinforcement : Bump(r, kind) \in Reinforcement
           /\ \A a \in Acked : Bump(a, kind) \in Acked
BY DEF Bump, Update, Reinforcement, Acked

LEMMA OwnBlockType ==
    ASSUME TypeOK, NEW p \in Procs, job[p].id # None
    PROVE  OwnBlock(p) \in Block
<1>1. job[p] \in Job
  BY DEF TypeOK
<1>2. job[p].id \in BlockIds /\ job[p].idx.head \in OptBlockId /\ job[p].args \subseteq Learnings
  BY <1>1 DEF Job, OptBlockId, Index
<1> QED
  BY <1>2, NewBlockType DEF OwnBlock

(* A process past BeginAppend and before its return has drawn a uuid. *)
AppendSteps == IndexSteps \cup {"lockIndex"}
HasId == \A p \in Procs : pc[p] \in AppendSteps => job[p].id # None
(* A process that records has an update to apply. *)
HasUpdate == \A p \in Procs : pc[p] \in RecordSteps \cup {"lockReinf"} => job[p].op \in Update

TypeInv == TypeOK /\ HasId /\ HasUpdate

LEMMA OpenTypeInv ==
    ASSUME TypeInv, NEW p \in Procs,
           Open(p) \/ MakeIndex(p) \/ CheckReinforcements(p) \/ MakeReinforcements(p) \/ Close(p)
    PROVE  TypeInv'
<1>1. [l \in Learnings |-> Unregistered] \in Reinforcements
  BY DEF Reinforcements, Reinforcement, Unregistered, OptBlockId
<1>2. pc' \in [Procs -> Steps]
  BY StepsType DEF TypeInv, TypeOK, Open, MakeIndex, CheckReinforcements, MakeReinforcements,
                   Close, GoTo, OpenSteps
<1>3. TypeOK'
  BY <1>1, <1>2, EmptyIndexType
     DEF TypeInv, TypeOK, Open, MakeIndex, CheckReinforcements, MakeReinforcements,
         Close, files, history
<1>4. HasId' /\ HasUpdate'
  BY DEF TypeInv, TypeOK, Open, MakeIndex, CheckReinforcements, MakeReinforcements, Close,
         GoTo, HasId, HasUpdate, AppendSteps, IndexSteps, RecordSteps
<1> QED
  BY <1>3, <1>4 DEF TypeInv

LEMMA LockTypeInv ==
    ASSUME TypeInv, NEW p \in Procs,
           LockIndex(p) \/ LockReinforcements(p) \/ LockTimeout(p)
    PROVE  TypeInv'
<1>1. CASE LockIndex(p) \/ LockReinforcements(p)
  <2>1. pc' \in [Procs -> Steps]
    BY <1>1, StepsType
       DEF TypeInv, TypeOK, IndexSteps, RecordSteps, LockIndex, LockReinforcements, Acquire, GoTo
  <2>2. lock' \in [{"index", "reinforcements"} -> Procs \cup {NoProc}]
    BY <1>1 DEF TypeInv, TypeOK, LockIndex, LockReinforcements, Acquire
  <2>3. HasId' /\ HasUpdate'
    BY <1>1 DEF TypeInv, TypeOK, HasId, HasUpdate, AppendSteps, IndexSteps, RecordSteps,
                LockIndex, LockReinforcements, Acquire, GoTo
  <2> QED
    BY <1>1, <2>1, <2>2, <2>3
       DEF TypeInv, TypeOK, LockIndex, LockReinforcements, Acquire, files, history
<1>2. CASE LockTimeout(p)
  <2>1. pc' \in [Procs -> Steps] /\ job' \in [Procs -> Job]
    BY <1>2, FinishType, StepsType DEF LockTimeout, TypeInv
  <2>2. HasId' /\ HasUpdate'
    BY <1>2 DEF TypeInv, TypeOK, LockTimeout, Finish, GoTo, HasId, HasUpdate, AppendSteps,
                IndexSteps, RecordSteps
  <2> QED
    BY <1>2, <2>1, <2>2 DEF TypeInv, TypeOK, LockTimeout, files, history
<1> QED
  BY <1>1, <1>2

LEMMA BeginTypeInv ==
    ASSUME TypeInv, NEW p \in Procs, BeginAppend(p) \/ BeginRecord(p)
    PROVE  TypeInv'
<1>1. CASE BeginAppend(p)
  <2>1. PICK id \in BlockIds \ UsedIds, ls \in SUBSET (Learnings \ UsedLearnings) :
           job' = [job EXCEPT ![p] = JobOf("append", id, ls)]
    BY <1>1 DEF BeginAppend
  <2>2. job' \in [Procs -> Job]
    BY <2>1, JobOfType DEF TypeInv, TypeOK, OptBlockId
  <2>3. pc' \in [Procs -> Steps]
    BY <1>1, GoToType, StepsType DEF BeginAppend, TypeInv
  <2>4. HasId'
    BY <1>1, <2>1, LedgerAssumption
       DEF BeginAppend, GoTo, JobOf, TypeInv, TypeOK, HasId, AppendSteps, IndexSteps
  <2>5. HasUpdate'
    BY <1>1, <2>1 DEF BeginAppend, GoTo, JobOf, TypeInv, TypeOK, HasUpdate, RecordSteps
  <2> QED
    BY <1>1, <2>2, <2>3, <2>4, <2>5 DEF BeginAppend, TypeInv, TypeOK, files, history
<1>2. CASE BeginRecord(p)
  <2>1. PICK l \in Learnings, kind \in Update :
           job' = [job EXCEPT ![p] = JobOf(kind, None, {l})]
    BY <1>2 DEF BeginRecord
  <2>2. job' \in [Procs -> Job]
    BY <2>1, JobOfType DEF TypeInv, TypeOK, OptBlockId
  <2>3. pc' \in [Procs -> Steps]
    BY <1>2, GoToType, StepsType DEF BeginRecord, TypeInv
  <2>4. HasId'
    BY <1>2, <2>1 DEF BeginRecord, GoTo, JobOf, TypeInv, TypeOK, HasId, AppendSteps, IndexSteps
  <2>5. HasUpdate'
    BY <1>2, <2>1 DEF BeginRecord, GoTo, JobOf, TypeInv, TypeOK, HasUpdate, RecordSteps
  <2> QED
    BY <1>2, <2>2, <2>3, <2>4, <2>5 DEF BeginRecord, TypeInv, TypeOK, files, history
<1> QED
  BY <1>1, <1>2

LEMMA AppendTypeInv ==
    ASSUME TypeInv, NEW p \in Procs,
           ReadIndex(p) \/ WriteBlock(p) \/ WriteMerkle(p) \/ WriteIndex(p)
    PROVE  TypeInv'
<1> USE DEF TypeInv, TypeOK
<1>0. pc[p] \in IndexSteps => job[p].id # None /\ OwnBlock(p) \in Block
  BY OwnBlockType DEF HasId, AppendSteps
<1>1. CASE ReadIndex(p)
  <2>1. job' \in [Procs -> Job]
    BY <1>1 DEF ReadIndex, Job
  <2>2. pc' \in [Procs -> Steps]
    BY <1>1, GoToType, StepsType DEF ReadIndex, IndexSteps
  <2>3. HasId' /\ HasUpdate'
    BY <1>1 DEF ReadIndex, GoTo, HasId, HasUpdate, AppendSteps, IndexSteps, RecordSteps, Job
  <2> QED
    BY <1>1, <2>1, <2>2, <2>3 DEF ReadIndex, files, history
<1>2. CASE WriteBlock(p)
  <2>1. blocks' \subseteq Block
    BY <1>0, <1>2 DEF WriteBlock, IndexSteps
  <2>2. pc' \in [Procs -> Steps]
    BY <1>2, GoToType, StepsType DEF WriteBlock, IndexSteps
  <2>3. HasId' /\ HasUpdate'
    BY <1>2 DEF WriteBlock, GoTo, HasId, HasUpdate, AppendSteps, IndexSteps, RecordSteps
  <2> QED
    BY <1>2, <2>1, <2>2, <2>3 DEF WriteBlock, history
<1>3. CASE WriteMerkle(p)
  <2> DEFINE ix == Extend(job[p].idx, OwnBlock(p))
  <2>1. ix \in Index
    BY <1>0, <1>3, ExtendType DEF WriteMerkle, IndexSteps, Job
  <2>2. merkle' \subseteq BlockIds \X Hash
    BY <1>3, <2>1, LeavesType DEF WriteMerkle, Index
  <2>3. job' \in [Procs -> Job]
    BY <1>3, <2>1 DEF WriteMerkle, Job
  <2>4. pc' \in [Procs -> Steps]
    BY <1>3, GoToType, StepsType DEF WriteMerkle, IndexSteps
  <2>5. HasId' /\ HasUpdate'
    BY <1>3 DEF WriteMerkle, GoTo, HasId, HasUpdate, AppendSteps, IndexSteps, RecordSteps, Job
  <2> QED
    BY <1>3, <2>2, <2>3, <2>4, <2>5 DEF WriteMerkle, history
<1>4. CASE WriteIndex(p)
  <2>1. index' \in Index
    BY <1>4 DEF WriteIndex, Job
  <2>2. pc' \in [Procs -> Steps]
    BY <1>4, GoToType, StepsType DEF WriteIndex, IndexSteps
  <2>3. HasId' /\ HasUpdate'
    BY <1>4 DEF WriteIndex, GoTo, HasId, HasUpdate, AppendSteps, IndexSteps, RecordSteps
  <2> QED
    BY <1>4, <2>1, <2>2, <2>3 DEF WriteIndex, history
<1> QED
  BY <1>1, <1>2, <1>3, <1>4

LEMMA RegisterTypeInv ==
    ASSUME TypeInv, NEW p \in Procs,
           \/ ReadReinforcements(p) \/ StoreLearning(p) \/ WriteReinforcements(p)
           \/ AppendReturns(p)
    PROVE  TypeInv'
<1> USE DEF TypeInv, TypeOK
<1>1. CASE ReadReinforcements(p)
  <2>1. job' \in [Procs -> Job]
    BY <1>1 DEF ReadReinforcements, Job
  <2>2. pc' \in [Procs -> Steps]
    BY <1>1, GoToType, StepsType DEF ReadReinforcements, IndexSteps
  <2>3. HasId' /\ HasUpdate'
    BY <1>1 DEF ReadReinforcements, GoTo, HasId, HasUpdate, AppendSteps, IndexSteps,
                RecordSteps, Job
  <2> QED
    BY <1>1, <2>1, <2>2, <2>3 DEF ReadReinforcements, files, history
<1>2. CASE StoreLearning(p)
  <2>1. objects' \subseteq Learnings
    BY <1>2 DEF StoreLearning, Job
  <2>2. HasId' /\ HasUpdate'
    BY <1>2 DEF StoreLearning, HasId, HasUpdate
  <2> QED
    BY <1>2, <2>1, <2>2 DEF StoreLearning, history
<1>3. CASE WriteReinforcements(p)
  <2>1. job[p].id \in BlockIds
    BY <1>3 DEF WriteReinforcements, HasId, AppendSteps, IndexSteps, Job, OptBlockId
  <2>2. [Unregistered EXCEPT !.block = job[p].id] \in Reinforcement
    BY <2>1 DEF Unregistered, Reinforcement, OptBlockId
  <2>3. reinf' \in Reinforcements
    BY <1>3, <2>2 DEF WriteReinforcements, Reinforcements, Job
  <2>4. pc' \in [Procs -> Steps]
    BY <1>3, GoToType, StepsType DEF WriteReinforcements, IndexSteps
  <2>5. HasId' /\ HasUpdate'
    BY <1>3 DEF WriteReinforcements, GoTo, HasId, HasUpdate, AppendSteps, IndexSteps, RecordSteps
  <2> QED
    BY <1>3, <2>3, <2>4, <2>5 DEF WriteReinforcements, history
<1>4. CASE AppendReturns(p)
  <2>1. job[p].id \in BlockIds
    BY <1>4 DEF AppendReturns, HasId, AppendSteps, IndexSteps, Job, OptBlockId
  <2>2. pc' \in [Procs -> Steps] /\ job' \in [Procs -> Job]
    BY <1>4, FinishType, StepsType DEF AppendReturns
  <2>3. lock' \in [{"index", "reinforcements"} -> Procs \cup {NoProc}]
    BY <1>4, ReleaseType DEF AppendReturns
  <2>4. HasId' /\ HasUpdate'
    BY <1>4 DEF AppendReturns, Finish, GoTo, HasId, HasUpdate, AppendSteps, IndexSteps,
                RecordSteps
  <2>5. appended' \subseteq BlockIds
    BY <1>4, <2>1 DEF AppendReturns
  <2> QED
    BY <1>4, <2>2, <2>3, <2>4, <2>5 DEF AppendReturns, files
<1> QED
  BY <1>1, <1>2, <1>3, <1>4

(* Updates with one more of the kind a process records. *)
LEMMA AndThatOfType ==
    ASSUME NEW p \in Procs, NEW updates \in [Learnings -> Acked], job[p].op \in Update
    PROVE  AndThatOf(p, updates) \in [Learnings -> Acked]
BY BumpType DEF AndThatOf

LEMMA RecordTypeInv ==
    ASSUME TypeInv, NEW p \in Procs, ReadRecord(p) \/ WriteRecord(p) \/ RecordReturns(p)
    PROVE  TypeInv'
<1> USE DEF TypeInv, TypeOK
<1>1. CASE ReadRecord(p) /\ job[p].args \subseteq Registered(reinf)
  <2>1. job' \in [Procs -> Job]
    BY <1>1 DEF ReadRecord, Job
  <2>2. pc' \in [Procs -> Steps]
    BY <1>1, GoToType, StepsType DEF ReadRecord, RecordSteps
  <2>3. HasId' /\ HasUpdate'
    BY <1>1 DEF ReadRecord, GoTo, HasId, HasUpdate, AppendSteps, IndexSteps, RecordSteps, Job
  <2> QED
    BY <1>1, <2>1, <2>2, <2>3 DEF ReadRecord, files, history
<1>2. CASE ReadRecord(p) /\ ~(job[p].args \subseteq Registered(reinf))
  <2>1. pc' \in [Procs -> Steps] /\ job' \in [Procs -> Job]
    BY <1>2, FinishType, StepsType DEF ReadRecord
  <2>2. lock' \in [{"index", "reinforcements"} -> Procs \cup {NoProc}]
    BY <1>2, ReleaseType DEF ReadRecord
  <2>3. HasId' /\ HasUpdate'
    BY <1>2 DEF ReadRecord, Finish, GoTo, HasId, HasUpdate, AppendSteps, IndexSteps, RecordSteps
  <2> QED
    BY <1>2, <2>1, <2>2, <2>3 DEF ReadRecord, files, history
<1>3. CASE WriteRecord(p)
  <2>1. job[p].op \in Update
    BY <1>3 DEF WriteRecord, HasUpdate, RecordSteps
  <2>2. reinf' \in Reinforcements
    BY <1>3, <2>1, BumpType DEF WriteRecord, Reinforcements, Job
  <2>3. pc' \in [Procs -> Steps]
    BY <1>3, GoToType, StepsType DEF WriteRecord, RecordSteps
  <2>4. HasId' /\ HasUpdate'
    BY <1>3 DEF WriteRecord, GoTo, HasId, HasUpdate, AppendSteps, IndexSteps, RecordSteps
  <2> QED
    BY <1>3, <2>2, <2>3, <2>4 DEF WriteRecord, history
<1>4. CASE RecordReturns(p)
  <2>1. job[p].op \in Update
    BY <1>4 DEF RecordReturns, HasUpdate, RecordSteps
  <2>2. acked' \in [Learnings -> Acked]
    BY <1>4, <2>1, AndThatOfType DEF RecordReturns
  <2>3. pc' \in [Procs -> Steps] /\ job' \in [Procs -> Job]
    BY <1>4, FinishType, StepsType DEF RecordReturns
  <2>4. lock' \in [{"index", "reinforcements"} -> Procs \cup {NoProc}]
    BY <1>4, ReleaseType DEF RecordReturns
  <2>5. HasId' /\ HasUpdate'
    BY <1>4 DEF RecordReturns, Finish, GoTo, HasId, HasUpdate, AppendSteps, IndexSteps,
                RecordSteps
  <2> QED
    BY <1>4, <2>2, <2>3, <2>4, <2>5 DEF RecordReturns, files
<1> QED
  BY <1>1, <1>2, <1>3, <1>4

LEMMA AbandonTypeInv ==
    ASSUME TypeInv, NEW p \in Procs, Abandon(p)
    PROVE  TypeInv'
<1> USE DEF TypeInv, TypeOK
<1>1. pc' \in [Procs -> Steps] /\ job' \in [Procs -> Job]
  BY FinishType, StepsType DEF Abandon, OpenSteps
<1>2. lock' \in [{"index", "reinforcements"} -> Procs \cup {NoProc}]
  BY ReleaseType DEF Abandon
<1>3. HasId' /\ HasUpdate'
  BY DEF Abandon, Finish, GoTo, HasId, HasUpdate, AppendSteps, IndexSteps, RecordSteps
<1>4. unheard' \in [Learnings -> Acked]
  BY AndThatOfType DEF Abandon, HasUpdate, RecordSteps
<1> QED
  BY <1>1, <1>2, <1>3, <1>4 DEF Abandon, files

LEMMA InitTypeInv == Init => TypeInv
BY InitTypeOK DEF Init, TypeInv, HasId, HasUpdate, AppendSteps, IndexSteps, RecordSteps

LEMMA NextTypeInv == TypeInv /\ [Next]_vars => TypeInv'
<1>1. ASSUME TypeInv, NEW p \in Procs,
             Step(p) \/ Open(p) \/ Close(p) \/ BeginAppend(p) \/ BeginRecord(p) \/ Abandon(p)
      PROVE  TypeInv'
  BY <1>1, OpenTypeInv, LockTypeInv, BeginTypeInv, AppendTypeInv, RegisterTypeInv,
     RecordTypeInv, AbandonTypeInv DEF Step
<1>2. TypeInv /\ UNCHANGED vars => TypeInv'
  BY DEF TypeInv, TypeOK, HasId, HasUpdate, vars, files, history
<1> QED
  BY <1>1, <1>2 DEF Next

(* Every reachable state is well typed, and no process builds a block      *)
(* without a uuid or records an update of no kind.                         *)
THEOREM TypeCorrect == Spec => []TypeInv
<1>1. Init => TypeInv
  BY InitTypeInv
<1>2. TypeInv /\ [Next]_vars => TypeInv'
  BY NextTypeInv
<1> QED
  BY <1>1, <1>2, PTL DEF Spec

(* So every file, lock and local copy keeps its type (store.rs).           *)
THEOREM TypesHold == Spec => []TypeOK
BY TypeCorrect, PTL DEF TypeInv

------------------------------------------------------------------------------
(* The chain.  ChainIntact alone is not inductive: append_block writes the *)
(* index it holds in memory, so the copies processes hold must be intact   *)
(* too, and a block must be on disk before it is pushed.                   *)

CopySteps == {"writeBlock", "writeMerkle", "writeIndex"}
CopiesIntact ==
    \A p \in Procs :
        /\ pc[p] \in CopySteps => Intact(job[p].idx, blocks)
        /\ pc[p] = "writeMerkle" => OwnBlock(p) \in blocks

ChainInv == ChainIntact /\ CopiesIntact

LEMMA EmptyIntact ==
    ASSUME NEW bs
    PROVE  Intact(EmptyIndex, bs)
BY DEF Intact, Linked, Backed, Leaves, EmptyIndex

LEMMA IntactGrows ==
    ASSUME NEW ix, NEW bs, NEW cs, bs \subseteq cs, Intact(ix, bs)
    PROVE  Intact(ix, cs)
BY DEF Intact, Backed

LEMMA ExtendIntact ==
    ASSUME NEW ix \in Index, NEW bs, NEW id \in BlockIds, NEW ls \in SUBSET Learnings,
           Intact(ix, bs), NewBlock(id, ix.head, ls) \in bs
    PROVE  Intact(Extend(ix, NewBlock(id, ix.head, ls)), bs)
<1> DEFINE b  == NewBlock(id, ix.head, ls)
           es == Append(ix.blocks, EntryOf(b))
           new == Extend(ix, b)
<1>1. b \in Block /\ EntryOf(b) \in Entry
  BY NewBlockType, EntryType DEF Index
<1>2. /\ ix.blocks \in Seq(Entry) /\ es \in Seq(Entry)
      /\ Len(es) = Len(ix.blocks) + 1
      /\ es[Len(es)] = EntryOf(b)
      /\ \A i \in DOMAIN ix.blocks : es[i] = ix.blocks[i]
      /\ DOMAIN es = DOMAIN ix.blocks \cup {Len(es)}
      /\ Len(ix.blocks) \in Nat /\ DOMAIN ix.blocks = 1..Len(ix.blocks)
  BY <1>1 DEF Index
<1>3. es # <<>>
  BY <1>1, AppendProperties DEF Index
<1>4. /\ new.head = b.id /\ new.blocks = es /\ new.root = Leaves(es)
      /\ b.id = id /\ b.parent = ix.head
      /\ EntryOf(b).id = id /\ EntryOf(b).parent = ix.head
      /\ b.hash = ComputeBlockHash(b.id, b.parent, b.learnings)
  BY DEF Extend, NewBlock, EntryOf
<1> HIDE DEF es, new, b
<1>5. Linked(new)
  <2>1. new.head = new.blocks[Len(new.blocks)].id
    BY <1>2, <1>4
  <2>3. new.blocks # <<>>
    BY <1>3, <1>4
  <2>2. ASSUME NEW i \in DOMAIN new.blocks
        PROVE  new.blocks[i].parent = IF i = 1 THEN None ELSE new.blocks[i - 1].id
    <3>1. CASE i \in DOMAIN ix.blocks
      BY <1>2, <1>4, <3>1 DEF Intact, Linked
    <3>2. CASE i = Len(es) /\ ix.blocks = <<>>
      BY <1>2, <1>4, <3>2 DEF Intact, Linked
    <3>3. CASE i = Len(es) /\ ix.blocks # <<>>
      <4>1. i - 1 = Len(ix.blocks) /\ i - 1 \in DOMAIN ix.blocks /\ i # 1
        BY <1>2, <3>3
      <4>2. ix.head = ix.blocks[i - 1].id
        BY <3>3, <4>1 DEF Intact, Linked
      <4> QED
        BY <1>2, <1>4, <3>3, <4>1, <4>2
    <3> QED
      BY <1>2, <1>4, <2>2, <3>1, <3>2, <3>3
  <2> QED
    BY <2>1, <2>2, <2>3 DEF Linked
<1>6. Backed(new, bs)
  <2> SUFFICES ASSUME NEW i \in DOMAIN es
               PROVE  \E c \in bs : /\ EntryOf(c) = es[i]
                                    /\ c.hash = ComputeBlockHash(c.id, c.parent, c.learnings)
    BY <1>4 DEF Backed
  <2>1. CASE i \in DOMAIN ix.blocks
    BY <1>2, <2>1 DEF Intact, Backed
  <2>2. CASE i = Len(es)
    <3>1. b \in bs /\ EntryOf(b) = es[i]
      BY <1>2, <2>2 DEF b
    <3> QED
      BY <1>4, <3>1
  <2> QED
    BY <1>2, <2>1, <2>2
<1> QED
  BY <1>4, <1>5, <1>6 DEF Intact, new, b

(* A step that leaves index.json alone, only adds block files and brings   *)
(* no process to a copy it did not hold keeps the invariant.               *)
LEMMA QuietChainInv ==
    ASSUME ChainInv, index' = index, blocks \subseteq blocks',
           \A p \in Procs : pc'[p] \in CopySteps => pc'[p] = pc[p] /\ job'[p] = job[p]
    PROVE  ChainInv'
<1>1. ChainIntact'
  BY IntactGrows DEF ChainInv, ChainIntact
<1>2. CopiesIntact'
  BY IntactGrows DEF ChainInv, CopiesIntact, CopySteps, OwnBlock
<1> QED
  BY <1>1, <1>2 DEF ChainInv

LEMMA OtherStepsChainInv ==
    ASSUME TypeInv, ChainInv, NEW p \in Procs,
           \/ Open(p) \/ CheckReinforcements(p) \/ MakeReinforcements(p) \/ Close(p)
           \/ LockIndex(p) \/ LockReinforcements(p) \/ LockTimeout(p)
           \/ BeginAppend(p) \/ BeginRecord(p)
           \/ ReadReinforcements(p) \/ StoreLearning(p) \/ WriteReinforcements(p)
           \/ AppendReturns(p)
           \/ ReadRecord(p) \/ WriteRecord(p) \/ RecordReturns(p) \/ Abandon(p)
    PROVE  ChainInv'
<1> USE DEF TypeInv, TypeOK
<1>1. index' = index /\ blocks' = blocks
  BY DEF Open, CheckReinforcements, MakeReinforcements, Close, LockIndex, LockReinforcements,
         Acquire, LockTimeout, BeginAppend, BeginRecord, ReadReinforcements, StoreLearning,
         WriteReinforcements, AppendReturns, ReadRecord, WriteRecord, RecordReturns, Abandon, files
<1>2. ASSUME NEW q \in Procs, pc'[q] \in CopySteps
      PROVE  pc'[q] = pc[q] /\ job'[q] = job[q]
  <2>1. CASE Open(p) \/ CheckReinforcements(p) \/ MakeReinforcements(p) \/ Close(p)
    BY <1>2, <2>1 DEF Open, CheckReinforcements, MakeReinforcements, Close, GoTo, CopySteps
  <2>2. CASE LockIndex(p) \/ LockReinforcements(p)
    BY <1>2, <2>2 DEF LockIndex, LockReinforcements, Acquire, GoTo, CopySteps
  <2>3. CASE BeginAppend(p) \/ BeginRecord(p)
    BY <1>2, <2>3 DEF BeginAppend, BeginRecord, GoTo, CopySteps
  <2>4. CASE LockTimeout(p) \/ Abandon(p)
    BY <1>2, <2>4 DEF LockTimeout, Abandon, Finish, GoTo, CopySteps
  <2>5. CASE ReadReinforcements(p) \/ StoreLearning(p)
    BY <1>2, <2>5 DEF ReadReinforcements, StoreLearning, GoTo, CopySteps
  <2>6. CASE WriteReinforcements(p) \/ WriteRecord(p)
    BY <1>2, <2>6 DEF WriteReinforcements, WriteRecord, GoTo, CopySteps
  <2>7. CASE ReadRecord(p)
    BY <1>2, <2>7 DEF ReadRecord, Finish, GoTo, CopySteps
  <2>8. CASE AppendReturns(p) \/ RecordReturns(p)
    BY <1>2, <2>8 DEF AppendReturns, RecordReturns, Finish, GoTo, CopySteps
  <2> QED
    BY <2>1, <2>2, <2>3, <2>4, <2>5, <2>6, <2>7, <2>8
<1> QED
  BY <1>1, <1>2, QuietChainInv

LEMMA WritersChainInv ==
    ASSUME TypeInv, ChainInv, NEW p \in Procs,
           MakeIndex(p) \/ ReadIndex(p) \/ WriteBlock(p) \/ WriteMerkle(p) \/ WriteIndex(p)
    PROVE  ChainInv'
<1> USE DEF TypeInv, TypeOK
<1>1. CASE MakeIndex(p)
  <2>1. ChainIntact'
    BY <1>1, EmptyIntact DEF MakeIndex, ChainIntact
  <2>2. CopiesIntact'
    BY <1>1 DEF MakeIndex, GoTo, ChainInv, CopiesIntact, CopySteps, OwnBlock
  <2> QED
    BY <2>1, <2>2 DEF ChainInv
<1>2. CASE ReadIndex(p)
  <2>1. ChainIntact'
    BY <1>2 DEF ReadIndex, files, ChainInv, ChainIntact
  <2>2. ASSUME NEW q \in Procs
        PROVE  /\ pc'[q] \in CopySteps => Intact(job'[q].idx, blocks')
               /\ pc'[q] = "writeMerkle" => OwnBlock(q)' \in blocks'
    <3>1. CASE q = p
      <4>1. job'[q].idx = index /\ pc'[q] = "writeBlock" /\ blocks' = blocks
        BY <1>2, <3>1 DEF ReadIndex, GoTo, files, Job
      <4> QED
        BY <4>1 DEF ChainInv, ChainIntact
    <3>2. CASE q # p
      BY <1>2, <3>2 DEF ReadIndex, GoTo, files, ChainInv, CopiesIntact, OwnBlock
    <3> QED
      BY <3>1, <3>2
  <2> QED
    BY <2>1, <2>2 DEF ChainInv, CopiesIntact
<1>3. CASE WriteBlock(p)
  <2>1. blocks \subseteq blocks' /\ index' = index /\ job' = job /\ OwnBlock(p) \in blocks'
    BY <1>3 DEF WriteBlock
  <2>2. ChainIntact'
    BY <2>1, IntactGrows DEF ChainInv, ChainIntact
  <2>3. ASSUME NEW q \in Procs
        PROVE  /\ pc'[q] \in CopySteps => Intact(job'[q].idx, blocks')
               /\ pc'[q] = "writeMerkle" => OwnBlock(q)' \in blocks'
    <3>1. pc[q] \in CopySteps => Intact(job[q].idx, blocks')
      BY <2>1, IntactGrows DEF ChainInv, CopiesIntact
    <3>2. OwnBlock(q)' = OwnBlock(q)
      BY <2>1 DEF OwnBlock
    <3> QED
      BY <1>3, <2>1, <3>1, <3>2 DEF WriteBlock, GoTo, ChainInv, CopiesIntact, CopySteps
  <2> QED
    BY <2>2, <2>3 DEF ChainInv, CopiesIntact
<1>4. CASE WriteMerkle(p)
  <2> DEFINE ix == Extend(job[p].idx, OwnBlock(p))
  <2>1. Intact(ix, blocks)
    <3>1. job[p] \in Job /\ job[p].id \in BlockIds
      BY <1>4 DEF WriteMerkle, HasId, AppendSteps, IndexSteps, Job, OptBlockId
    <3>2. Intact(job[p].idx, blocks) /\ OwnBlock(p) \in blocks
      BY <1>4 DEF WriteMerkle, ChainInv, CopiesIntact, CopySteps
    <3> QED
      BY <3>1, <3>2, ExtendIntact DEF Job, OwnBlock
  <2> HIDE DEF ix
  <2>2. index' = index /\ blocks' = blocks /\ job' = [job EXCEPT ![p].idx = ix]
    BY <1>4 DEF WriteMerkle, ix
  <2>3. ASSUME NEW q \in Procs
        PROVE  /\ pc'[q] \in CopySteps => Intact(job'[q].idx, blocks')
               /\ pc'[q] = "writeMerkle" => OwnBlock(q)' \in blocks'
    <3>1. CASE q = p
      <4>1. job'[q].idx = ix /\ pc'[q] = "writeIndex"
        BY <1>4, <2>2, <3>1 DEF WriteMerkle, GoTo, Job
      <4> QED
        BY <2>1, <2>2, <4>1
    <3>2. CASE q # p
      BY <1>4, <2>2, <3>2 DEF WriteMerkle, GoTo, ChainInv, CopiesIntact, OwnBlock
    <3> QED
      BY <3>1, <3>2
  <2> QED
    BY <2>2, <2>3 DEF ChainInv, ChainIntact, CopiesIntact
<1>5. CASE WriteIndex(p)
  <2>1. index' = job[p].idx /\ blocks' = blocks
    BY <1>5 DEF WriteIndex
  <2>2. ChainIntact'
    BY <1>5, <2>1 DEF WriteIndex, ChainInv, ChainIntact, CopiesIntact, CopySteps
  <2>3. ASSUME NEW q \in Procs, pc'[q] \in CopySteps
        PROVE  pc'[q] = pc[q] /\ job'[q] = job[q]
    BY <1>5, <2>3 DEF WriteIndex, GoTo, CopySteps
  <2> QED
    BY <2>1, <2>2, <2>3 DEF ChainInv, CopiesIntact, CopySteps, OwnBlock
<1> QED
  BY <1>1, <1>2, <1>3, <1>4, <1>5

LEMMA InitChainInv == Init => ChainInv
<1> SUFFICES ASSUME Init PROVE ChainInv
  OBVIOUS
<1> DEFINE genesis == NewBlock(CHOOSE b \in BlockIds : TRUE, None, Seed)
<1>1. CopiesIntact
  BY DEF Init, CopiesIntact, CopySteps
<1>2. CASE Seed = {}
  BY <1>1, <1>2, EmptyIntact DEF Init, ChainInv, ChainIntact
<1>3. CASE Seed # {}
  <2>1. index = Extend(EmptyIndex, genesis) /\ genesis \in blocks
    BY <1>3 DEF Init
  <2>2. EmptyIndex.head = None
    BY DEF EmptyIndex
  <2>3. (CHOOSE b \in BlockIds : TRUE) \in BlockIds /\ Seed \in SUBSET Learnings
    BY InitSetup, LedgerAssumption
  <2>4. Intact(index, blocks)
    BY <2>1, <2>2, <2>3, EmptyIndexType, EmptyIntact, ExtendIntact
  <2> QED
    BY <1>1, <2>4 DEF ChainInv, ChainIntact
<1> QED
  BY <1>2, <1>3

LEMMA NextChainInv == TypeInv /\ ChainInv /\ [Next]_vars => ChainInv'
<1>1. ASSUME TypeInv, ChainInv, NEW p \in Procs,
             Step(p) \/ Open(p) \/ Close(p) \/ BeginAppend(p) \/ BeginRecord(p) \/ Abandon(p)
      PROVE  ChainInv'
  BY <1>1, OtherStepsChainInv, WritersChainInv DEF Step
<1>2. TypeInv /\ ChainInv /\ UNCHANGED vars => ChainInv'
  BY DEF ChainInv, ChainIntact, CopiesIntact, OwnBlock, vars, files
<1> QED
  BY <1>1, <1>2 DEF Next

(* However appends, records, first opens, crashes and failed writes        *)
(* interleave, index.json is an intact chain; no lock is needed for that.  *)
THEOREM ChainAlwaysIntact == Spec => []ChainIntact
<1>1. Init => ChainInv
  BY InitChainInv
<1>2. TypeInv /\ ChainInv /\ [Next]_vars => ChainInv'
  BY NextChainInv
<1> QED
  BY <1>1, <1>2, TypeCorrect, PTL DEF Spec, ChainInv

------------------------------------------------------------------------------
(* The append-only log, for a ledger whose files exist.  Here the lock is  *)
(* what matters: the copy its holder extends is the index on disk.         *)

HolderSteps == {"writeBlock", "writeMerkle"}
NewSteps    == {"lockIndex", "readIndex", "writeBlock", "writeMerkle", "writeIndex"}
LateSteps   == {"readReinf", "register", "returnAppend"}

LayoutDone ==
    /\ layout = {"index", "reinforcements"}
    /\ \A p \in Procs : pc[p] \notin {"mkIndex", "mkReinf"}
LockHeld == \A p \in Procs : pc[p] \in IndexSteps => lock["index"] = p
CopiesCurrent ==
    \A p \in Procs :
        /\ pc[p] \in HolderSteps => job[p].idx = index
        /\ pc[p] = "writeIndex" =>
              job[p].idx = Extend(index, NewBlock(job[p].id, index.head, job[p].args))
IdsUnique == \A p, q \in Procs : p # q /\ job[p].id # None => job[p].id # job[q].id
IdsNew == \A p \in Procs : pc[p] \in NewSteps => job[p].id \notin IndexIds(index)
LateIndexed == \A p \in Procs : pc[p] \in LateSteps => job[p].id \in IndexIds(index)
AppendsIndexed == appended \subseteq IndexIds(index)
IndexRepeatsNot == \A i, j \in DOMAIN index.blocks :
                       index.blocks[i].id = index.blocks[j].id => i = j

LogInv == /\ LayoutDone /\ LockHeld /\ CopiesCurrent
          /\ IdsUnique /\ IdsNew /\ LateIndexed
          /\ AppendsIndexed /\ IndexRepeatsNot

LEMMA ExtendIds ==
    ASSUME NEW ix \in Index, NEW b \in Block
    PROVE  /\ IndexIds(Extend(ix, b)) = IndexIds(ix) \cup {b.id}
           /\ [i \in DOMAIN Extend(ix, b).blocks |-> Extend(ix, b).blocks[i].id]
                = Append([i \in DOMAIN ix.blocks |-> ix.blocks[i].id], b.id)
           /\ (/\ \A i, j \in DOMAIN ix.blocks : ix.blocks[i].id = ix.blocks[j].id => i = j
               /\ b.id \notin IndexIds(ix))
              => \A i, j \in DOMAIN Extend(ix, b).blocks :
                    Extend(ix, b).blocks[i].id = Extend(ix, b).blocks[j].id => i = j
<1> DEFINE es == Append(ix.blocks, EntryOf(b))
           ids == [i \in DOMAIN ix.blocks |-> ix.blocks[i].id]
           n == Len(ix.blocks)
<1>1. EntryOf(b) \in Entry /\ EntryOf(b).id = b.id /\ b.id \in BlockIds
  BY EntryType DEF EntryOf, Block
<1>2. /\ n \in Nat /\ DOMAIN ix.blocks = 1..n
      /\ DOMAIN es = 1..(n + 1)
      /\ es[n + 1] = EntryOf(b)
      /\ \A i \in 1..n : es[i] = ix.blocks[i] /\ ix.blocks[i].id \in BlockIds
  <2>1. ix.blocks \in Seq(Entry)
    BY DEF Index
  <2>2. \A i \in 1..n : ix.blocks[i] \in Entry
    BY <2>1
  <2>3. \A i \in 1..n : ix.blocks[i].id \in BlockIds
    BY <2>2 DEF Entry
  <2>4. n \in Nat /\ DOMAIN ix.blocks = 1..n
    BY <2>1
  <2>5. /\ es \in Seq(Entry) /\ Len(es) = n + 1
        /\ \A i \in 1..n : es[i] = ix.blocks[i]
        /\ es[n + 1] = EntryOf(b)
    BY <1>1, <2>1, AppendProperties
  <2> QED
    BY <2>3, <2>4, <2>5
<1>3. Extend(ix, b).blocks = es
  BY DEF Extend
<1> HIDE DEF es
<1>4. IndexIds(Extend(ix, b)) = IndexIds(ix) \cup {b.id}
  BY <1>1, <1>2, <1>3 DEF IndexIds
<1>5. [i \in DOMAIN es |-> es[i].id] = Append(ids, b.id)
  <2>1. ids \in Seq(BlockIds) /\ Len(ids) = n
    BY <1>2
  <2>2. /\ Append(ids, b.id) \in Seq(BlockIds) /\ DOMAIN Append(ids, b.id) = 1..(n + 1)
        /\ \A i \in 1..n : Append(ids, b.id)[i] = ids[i]
        /\ Append(ids, b.id)[n + 1] = b.id
    BY <1>1, <1>2, <2>1, AppendProperties
  <2>3. \A i \in 1..(n + 1) : es[i].id = Append(ids, b.id)[i]
    BY <1>1, <1>2, <2>2
  <2> QED
    BY <1>2, <2>2, <2>3
<1>6. ASSUME \A i, j \in DOMAIN ix.blocks : ix.blocks[i].id = ix.blocks[j].id => i = j,
             b.id \notin IndexIds(ix)
      PROVE  \A i, j \in DOMAIN es : es[i].id = es[j].id => i = j
  <2>1. \A i \in 1..n : es[i].id # es[n + 1].id
    BY <1>1, <1>2, <1>6 DEF IndexIds
  <2> QED
    BY <1>2, <1>6, <2>1
<1> QED
  BY <1>3, <1>4, <1>5, <1>6

(* A step that leaves the index alone, acknowledges only blocks that are   *)
(* in it, and moves a process only within the groups of steps above.       *)
LEMMA QuietLogInv ==
    ASSUME LogInv, index' = index, layout' = layout, appended' \subseteq IndexIds(index),
           \A q \in Procs :
              /\ pc'[q] \notin {"mkIndex", "mkReinf"}
              /\ pc'[q] \in IndexSteps => lock'["index"] = q
              /\ job'[q].id \in {job[q].id, None}
              /\ pc'[q] \in HolderSteps => pc[q] \in HolderSteps /\ job'[q] = job[q]
              /\ pc'[q] = "writeIndex" => pc[q] = "writeIndex" /\ job'[q] = job[q]
              /\ pc'[q] \in NewSteps => pc[q] \in NewSteps /\ job'[q].id = job[q].id
              /\ pc'[q] \in LateSteps => pc[q] \in LateSteps /\ job'[q].id = job[q].id
    PROVE  LogInv'
<1> USE DEF LogInv
<1>1. LayoutDone' /\ LockHeld'
  BY DEF LayoutDone, LockHeld
<1>2. CopiesCurrent'
  BY DEF CopiesCurrent
<1>3. IdsUnique'
  BY DEF IdsUnique
<1>4. IdsNew' /\ LateIndexed'
  BY DEF IdsNew, LateIndexed, IndexIds
<1>5. AppendsIndexed' /\ IndexRepeatsNot'
  BY DEF AppendsIndexed, IndexRepeatsNot, IndexIds
<1> QED
  BY <1>1, <1>2, <1>3, <1>4, <1>5

LEMMA ReleaseKeepsOthers ==
    ASSUME TypeOK, LockHeld, NEW p \in Procs, NEW q \in Procs, q # p,
           Release(p), pc[q] \in IndexSteps
    PROVE  lock'["index"] = q
BY DEF TypeOK, LockHeld, Release

LEMMA OtherStepsLogInv ==
    ASSUME TypeInv, LogInv, NEW p \in Procs,
           \/ Open(p) \/ CheckReinforcements(p) \/ Close(p)
           \/ LockIndex(p) \/ LockReinforcements(p) \/ LockTimeout(p)
           \/ BeginRecord(p) \/ WriteBlock(p)
           \/ ReadReinforcements(p) \/ StoreLearning(p) \/ WriteReinforcements(p)
           \/ AppendReturns(p)
           \/ ReadRecord(p) \/ WriteRecord(p) \/ RecordReturns(p) \/ Abandon(p)
    PROVE  LogInv'
<1> USE DEF TypeInv, TypeOK, LogInv
<1>0. /\ \A q \in Procs : pc[q] \notin {"mkIndex", "mkReinf"} /\ job[q] \in Job
      /\ layout = {"index", "reinforcements"} /\ NoProc \notin Procs
      /\ NoJob.id = None
      /\ \A q \in Procs : pc[q] \in IndexSteps => lock["index"] = q
  BY LedgerAssumption DEF LayoutDone, LockHeld, NoJob, JobOf
<1>1. index' = index /\ layout' = layout
  BY DEF Open, CheckReinforcements, Close, LockIndex, LockReinforcements, Acquire, LockTimeout,
         BeginRecord, WriteBlock, ReadReinforcements, StoreLearning, WriteReinforcements,
         AppendReturns, ReadRecord, WriteRecord, RecordReturns, Abandon, files
<1>3. appended' \subseteq IndexIds(index)
  <2>1. appended' = appended \/ AppendReturns(p)
    BY DEF Open, CheckReinforcements, Close, LockIndex, LockReinforcements, Acquire, LockTimeout,
           BeginRecord, WriteBlock, ReadReinforcements, StoreLearning, WriteReinforcements,
           ReadRecord, WriteRecord, RecordReturns, Abandon, history
  <2>2. AppendReturns(p) => appended' \subseteq IndexIds(index)
    BY DEF AppendReturns, AppendsIndexed, LateIndexed, LateSteps
  <2> QED
    BY <2>1, <2>2 DEF AppendsIndexed
<1> USE DEF HolderSteps, NewSteps, LateSteps, IndexSteps
<1>2. ASSUME NEW q \in Procs
      PROVE  /\ pc'[q] \notin {"mkIndex", "mkReinf"}
             /\ pc'[q] \in IndexSteps => lock'["index"] = q
             /\ job'[q].id \in {job[q].id, None}
             /\ pc'[q] \in HolderSteps => pc[q] \in HolderSteps /\ job'[q] = job[q]
             /\ pc'[q] = "writeIndex" => pc[q] = "writeIndex" /\ job'[q] = job[q]
             /\ pc'[q] \in NewSteps => pc[q] \in NewSteps /\ job'[q].id = job[q].id
             /\ pc'[q] \in LateSteps => pc[q] \in LateSteps /\ job'[q].id = job[q].id
  <2>1. CASE Open(p) \/ CheckReinforcements(p) \/ Close(p)
    BY <1>0, <2>1 DEF Open, CheckReinforcements, Close, GoTo
  <2>2. CASE LockIndex(p) \/ LockReinforcements(p)
    BY <1>0, <2>2 DEF LockIndex, LockReinforcements, Acquire, GoTo
  <2>3. CASE LockTimeout(p)
    BY <1>0, <2>3 DEF LockTimeout, Finish, GoTo
  <2>4. CASE Abandon(p)
    BY <1>0, <2>4, ReleaseKeepsOthers DEF Abandon, Finish, GoTo
  <2>5. CASE BeginRecord(p)
    <3>1. PICK l \in Learnings, kind \in Update :
             job' = [job EXCEPT ![p] = JobOf(kind, None, {l})]
      BY <2>5 DEF BeginRecord
    <3>2. job'[q].id \in {job[q].id, None} /\ (q # p => job'[q] = job[q])
      BY <3>1 DEF JobOf
    <3> QED
      BY <1>0, <2>5, <3>2 DEF BeginRecord, GoTo
  <2>6. CASE WriteBlock(p)
    BY <1>0, <2>6 DEF WriteBlock, GoTo
  <2>7. CASE StoreLearning(p)
    BY <1>0, <2>7 DEF StoreLearning
  <2>8. CASE ReadReinforcements(p)
    <3>1. job'[q].id = job[q].id /\ (q # p => job'[q] = job[q])
      BY <1>0, <2>8 DEF ReadReinforcements, Job
    <3> QED
      BY <1>0, <2>8, <3>1 DEF ReadReinforcements, GoTo
  <2>9. CASE ReadRecord(p)
    <3>1. job'[q].id \in {job[q].id, None} /\ (q # p => job'[q] = job[q])
      BY <1>0, <2>9 DEF ReadRecord, Finish, Job
    <3>2. pc'[q] # pc[q] => pc'[q] \in {"writeRecord", "idle"}
      BY <2>9 DEF ReadRecord, Finish, GoTo
    <3>3. q = p => pc'[q] \in {"writeRecord", "idle"}
      BY <2>9 DEF ReadRecord, Finish, GoTo
    <3>4. pc'[q] \in IndexSteps => lock'["index"] = q
      BY <1>0, <2>9, <3>2, <3>3, ReleaseKeepsOthers DEF ReadRecord
    <3> QED
      BY <1>0, <3>1, <3>2, <3>3, <3>4
  <2>10. CASE WriteReinforcements(p) \/ WriteRecord(p)
    BY <1>0, <2>10 DEF WriteReinforcements, WriteRecord, GoTo
  <2>11. CASE AppendReturns(p) \/ RecordReturns(p)
    <3>1. pc'[q] \in IndexSteps => lock'["index"] = q
      BY <1>0, <2>11, ReleaseKeepsOthers DEF AppendReturns, RecordReturns, Finish, GoTo
    <3> QED
      BY <1>0, <2>11, <3>1 DEF AppendReturns, RecordReturns, Finish, GoTo
  <2> QED
    BY <2>1, <2>2, <2>3, <2>4, <2>5, <2>6, <2>7, <2>8, <2>9, <2>10, <2>11
<1> QED
  BY <1>1, <1>2, <1>3, QuietLogInv

LEMMA BeginAppendLogInv ==
    ASSUME TypeInv, ChainInv, LogInv, NEW p \in Procs, BeginAppend(p)
    PROVE  LogInv'
<1> USE DEF TypeInv, TypeOK, LogInv
<1>1. PICK id \in BlockIds \ UsedIds, ls \in SUBSET (Learnings \ UsedLearnings) :
         job' = [job EXCEPT ![p] = JobOf("append", id, ls)]
  BY DEF BeginAppend
<1>2. /\ index' = index /\ layout' = layout /\ appended' = appended /\ lock' = lock
      /\ pc[p] = "idle" /\ pc' = [pc EXCEPT ![p] = "lockIndex"]
  BY DEF BeginAppend, GoTo, files, history
<1>3. job'[p].id = id /\ \A q \in Procs : q # p => job'[q] = job[q]
  BY <1>1 DEF JobOf
<1>4. id \notin IndexIds(index)
  <2> SUFFICES ASSUME NEW i \in DOMAIN index.blocks, index.blocks[i].id = id
               PROVE  FALSE
    BY DEF IndexIds
  <2>1. PICK b \in blocks : EntryOf(b) = index.blocks[i]
    BY DEF ChainInv, ChainIntact, Intact, Backed
  <2>2. b.id = id
    BY <2>1 DEF EntryOf
  <2> QED
    BY <2>2 DEF UsedIds
<1>5. \A q \in Procs : job[q].id # id
  BY DEF UsedIds
<1>6. LayoutDone' /\ LockHeld'
  BY <1>2 DEF LayoutDone, LockHeld, IndexSteps
<1>7. CopiesCurrent'
  BY <1>2, <1>3 DEF CopiesCurrent, HolderSteps
<1>8. IdsUnique'
  BY <1>3, <1>5 DEF IdsUnique
<1>9. IdsNew' /\ LateIndexed'
  BY <1>2, <1>3, <1>4 DEF IdsNew, LateIndexed, NewSteps, LateSteps, IndexIds
<1>10. AppendsIndexed' /\ IndexRepeatsNot'
  BY <1>2 DEF AppendsIndexed, IndexRepeatsNot, IndexIds
<1> QED
  BY <1>6, <1>7, <1>8, <1>9, <1>10

LEMMA ReadIndexLogInv ==
    ASSUME TypeInv, LogInv, NEW p \in Procs, ReadIndex(p)
    PROVE  LogInv'
<1> USE DEF TypeInv, TypeOK, LogInv
<1>1. /\ index' = index /\ layout' = layout /\ appended' = appended /\ lock' = lock
      /\ pc[p] = "readIndex" /\ pc' = [pc EXCEPT ![p] = "writeBlock"]
      /\ job' = [job EXCEPT ![p].idx = index]
  BY DEF ReadIndex, GoTo, files, history
<1>2. /\ job'[p].idx = index /\ \A q \in Procs : q # p => job'[q] = job[q]
      /\ \A q \in Procs : job'[q].id = job[q].id
  BY <1>1 DEF Job
<1>3. LayoutDone' /\ LockHeld'
  BY <1>1 DEF LayoutDone, LockHeld, IndexSteps
<1>4. CopiesCurrent'
  BY <1>1, <1>2 DEF CopiesCurrent, HolderSteps
<1>5. IdsUnique'
  BY <1>2 DEF IdsUnique
<1>6. IdsNew' /\ LateIndexed'
  BY <1>1, <1>2 DEF IdsNew, LateIndexed, NewSteps, LateSteps, IndexIds
<1>7. AppendsIndexed' /\ IndexRepeatsNot'
  BY <1>1 DEF AppendsIndexed, IndexRepeatsNot, IndexIds
<1> QED
  BY <1>3, <1>4, <1>5, <1>6, <1>7

LEMMA WriteMerkleLogInv ==
    ASSUME TypeInv, LogInv, NEW p \in Procs, WriteMerkle(p)
    PROVE  LogInv'
<1> USE DEF TypeInv, TypeOK, LogInv
<1> DEFINE ix == Extend(job[p].idx, OwnBlock(p))
<1>1. /\ index' = index /\ layout' = layout /\ appended' = appended /\ lock' = lock
      /\ pc[p] = "writeMerkle" /\ pc' = [pc EXCEPT ![p] = "writeIndex"]
      /\ job' = [job EXCEPT ![p].idx = ix]
  BY DEF WriteMerkle, GoTo, history
<1>2. ix = Extend(index, NewBlock(job[p].id, index.head, job[p].args))
  BY <1>1 DEF CopiesCurrent, HolderSteps, OwnBlock
<1> HIDE DEF ix
<1>3. /\ job'[p].idx = ix /\ job'[p].args = job[p].args
      /\ \A q \in Procs : q # p => job'[q] = job[q]
      /\ \A q \in Procs : job'[q].id = job[q].id
  BY <1>1 DEF Job
<1>4. LayoutDone' /\ LockHeld'
  BY <1>1 DEF LayoutDone, LockHeld, IndexSteps
<1>5. CopiesCurrent'
  BY <1>1, <1>2, <1>3 DEF CopiesCurrent, HolderSteps
<1>6. IdsUnique'
  BY <1>3 DEF IdsUnique
<1>7. IdsNew' /\ LateIndexed'
  BY <1>1, <1>3 DEF IdsNew, LateIndexed, NewSteps, LateSteps, IndexIds
<1>8. AppendsIndexed' /\ IndexRepeatsNot'
  BY <1>1 DEF AppendsIndexed, IndexRepeatsNot, IndexIds
<1> QED
  BY <1>4, <1>5, <1>6, <1>7, <1>8

LEMMA WriteIndexLogInv ==
    ASSUME TypeInv, LogInv, NEW p \in Procs, WriteIndex(p)
    PROVE  LogInv'
<1> USE DEF TypeInv, TypeOK, LogInv
<1> DEFINE b == NewBlock(job[p].id, index.head, job[p].args)
<1>1. /\ pc[p] = "writeIndex" /\ index' = Extend(index, b) /\ layout' = layout
      /\ job[p].id \in BlockIds /\ b \in Block /\ b.id = job[p].id
      /\ job[p].id \notin IndexIds(index)
  <2>1. pc[p] = "writeIndex" /\ index' = Extend(index, b) /\ layout' = layout
    BY DEF WriteIndex, CopiesCurrent
  <2>2. job[p].id \in BlockIds /\ index.head \in OptBlockId /\ job[p].args \in SUBSET Learnings
    BY <2>1 DEF HasId, AppendSteps, IndexSteps, Job, OptBlockId, Index
  <2>3. b.id = job[p].id
    BY DEF NewBlock
  <2> QED
    BY <2>1, <2>2, <2>3, NewBlockType DEF IdsNew, NewSteps
<1> HIDE DEF b
<1>2. IndexIds(index') = IndexIds(index) \cup {job[p].id} /\ IndexRepeatsNot'
  BY <1>1, ExtendIds DEF IndexRepeatsNot
<1>3. /\ \A q \in Procs : q # p => pc'[q] = pc[q]
      /\ pc'[p] \in {"returnAppend", "readReinf"}
      /\ job' = job /\ lock' = lock /\ appended' = appended
  BY DEF WriteIndex, GoTo, history
<1>4. \A q \in Procs : q # p => pc[q] \notin IndexSteps
  BY <1>1 DEF LockHeld, IndexSteps
<1>5. \A q \in Procs : q # p /\ job[q].id = job[p].id => FALSE
  BY <1>1, LedgerAssumption DEF IdsUnique
<1>6. LayoutDone' /\ LockHeld'
  <2>1. LayoutDone'
    BY <1>1, <1>3 DEF LayoutDone
  <2>2. pc'[p] \in IndexSteps => lock'["index"] = p
    BY <1>1, <1>3 DEF LockHeld, IndexSteps
  <2> QED
    BY <1>3, <1>4, <2>1, <2>2 DEF LockHeld
<1>7. CopiesCurrent'
  BY <1>3, <1>4 DEF CopiesCurrent, HolderSteps, IndexSteps
<1>8. IdsUnique'
  BY <1>3 DEF IdsUnique
<1>9. IdsNew'
  <2> SUFFICES ASSUME NEW q \in Procs, pc'[q] \in NewSteps
               PROVE  job'[q].id \notin IndexIds(index')
    BY DEF IdsNew
  <2>1. q # p
    BY <1>3 DEF NewSteps
  <2> QED
    BY <1>2, <1>3, <1>5, <2>1 DEF IdsNew
<1>10. LateIndexed'
  <2> SUFFICES ASSUME NEW q \in Procs, pc'[q] \in LateSteps
               PROVE  job'[q].id \in IndexIds(index')
    BY DEF LateIndexed
  <2>1. CASE q = p
    BY <1>2, <1>3, <2>1 DEF LateSteps
  <2>2. CASE q # p
    BY <1>3, <1>4, <2>2 DEF LateSteps, IndexSteps
  <2> QED
    BY <2>1, <2>2
<1>11. AppendsIndexed'
  BY <1>2, <1>3 DEF AppendsIndexed
<1> QED
  BY <1>2, <1>6, <1>7, <1>8, <1>9, <1>10, <1>11

LEMMA InitLogInv ==
    ASSUME ~Fresh, Init
    PROVE  LogInv
<1> DEFINE genesis == NewBlock(CHOOSE b \in BlockIds : TRUE, None, Seed)
<1>1. genesis \in Block
  BY InitSetup, LedgerAssumption, NewBlockType DEF OptBlockId
<1>2. IndexIds(EmptyIndex) = {} /\ EmptyIndex \in Index /\ EmptyIndex.blocks = <<>>
  BY EmptyIndexType DEF IndexIds, EmptyIndex
<1>3. IndexRepeatsNot /\ AppendsIndexed
  <2>1. CASE Seed = {}
    BY <1>2, <2>1 DEF Init, IndexRepeatsNot, AppendsIndexed
  <2>2. CASE Seed # {}
    <3>1. index = Extend(EmptyIndex, genesis) /\ appended = {genesis.id}
      BY <2>2 DEF Init
    <3> HIDE DEF genesis
    <3>2. IndexIds(index) = {genesis.id}
      BY <1>1, <1>2, <3>1, ExtendIds
    <3>3. \A i, j \in DOMAIN EmptyIndex.blocks :
             EmptyIndex.blocks[i].id = EmptyIndex.blocks[j].id => i = j
      BY <1>2
    <3>4. IndexRepeatsNot
      BY <1>1, <1>2, <3>1, <3>3, ExtendIds DEF IndexRepeatsNot
    <3> QED
      BY <3>1, <3>2, <3>4 DEF AppendsIndexed
  <2> QED
    BY <2>1, <2>2
<1>4. LayoutDone /\ LockHeld /\ CopiesCurrent /\ IdsNew /\ LateIndexed
  BY DEF Init, LayoutDone, LockHeld, CopiesCurrent, IdsNew, LateIndexed, IndexSteps,
         HolderSteps, NewSteps, LateSteps
<1>5. IdsUnique
  BY DEF Init, IdsUnique, NoJob, JobOf
<1> QED
  BY <1>3, <1>4, <1>5 DEF LogInv

LEMMA StepLogInv ==
    ASSUME TypeInv, ChainInv, LogInv, NEW p \in Procs,
           Step(p) \/ Open(p) \/ Close(p) \/ BeginAppend(p) \/ BeginRecord(p) \/ Abandon(p)
    PROVE  LogInv'
<1>1. ~MakeIndex(p) /\ ~MakeReinforcements(p)
  BY DEF LogInv, LayoutDone, MakeIndex, MakeReinforcements
<1> QED
  BY <1>1, OtherStepsLogInv, BeginAppendLogInv, ReadIndexLogInv, WriteMerkleLogInv,
     WriteIndexLogInv DEF Step

LEMMA NextLogInv == TypeInv /\ ChainInv /\ LogInv /\ [Next]_vars => LogInv'
<1>1. TypeInv /\ ChainInv /\ LogInv /\ Next => LogInv'
  BY StepLogInv DEF Next
<1>2. LogInv /\ UNCHANGED vars => LogInv'
  BY DEF LogInv, LayoutDone, LockHeld, CopiesCurrent, IdsUnique, IdsNew, LateIndexed,
         AppendsIndexed, IndexRepeatsNot, vars, files, history
<1> QED
  BY <1>1, <1>2

(* The deployment is fixed, so what holds of an existing ledger is          *)
(* conditional on it throughout.                                           *)
ExistingLogInv == ~Fresh => LogInv

LEMMA SetupFixed == [Next]_vars => setup' = setup
<1> USE DEF files, history, Finish, GoTo, Acquire
<1>1. ASSUME NEW p \in Procs,
             Step(p) \/ Open(p) \/ Close(p) \/ BeginAppend(p) \/ BeginRecord(p) \/ Abandon(p)
      PROVE  setup' = setup
  <2>1. CASE Step(p)
    BY <2>1 DEF Step, MakeIndex, CheckReinforcements, MakeReinforcements, LockIndex,
         LockReinforcements, LockTimeout, ReadIndex, WriteBlock, WriteMerkle, WriteIndex,
         ReadReinforcements, StoreLearning, WriteReinforcements, AppendReturns,
         ReadRecord, WriteRecord, RecordReturns
  <2>2. CASE Open(p) \/ Close(p) \/ BeginAppend(p) \/ BeginRecord(p) \/ Abandon(p)
    BY <2>2 DEF Open, Close, BeginAppend, BeginRecord, Abandon
  <2> QED
    BY <1>1, <2>1, <2>2
<1>2. CASE UNCHANGED vars
  BY <1>2 DEF vars
<1> QED
  BY <1>1, <1>2 DEF Next

LEMMA LogInvHolds == Spec => [](TypeInv /\ ChainInv /\ ExistingLogInv)
<1>1. Init => TypeInv /\ ChainInv /\ ExistingLogInv
  BY InitTypeInv, InitChainInv, InitLogInv DEF ExistingLogInv
<1>2. TypeInv /\ ChainInv /\ ExistingLogInv /\ [Next]_vars
        => (TypeInv /\ ChainInv /\ ExistingLogInv)'
  <2>1. [Next]_vars => (Fresh <=> Fresh')
    BY SetupFixed DEF Fresh
  <2> QED
    BY <2>1, NextTypeInv, NextChainInv, NextLogInv DEF ExistingLogInv
<1> QED
  BY <1>1, <1>2, PTL DEF Spec

(* A block that append_block reported as appended is in every later index, *)
(* when the ledger's files existed before its users came.                  *)
THEOREM AppendsAreDurable == Spec => []DurableAppends
<1>1. ExistingLogInv => DurableAppends
  BY DEF ExistingLogInv, LogInv, AppendsIndexed, DurableAppends
<1> QED
  BY <1>1, LogInvHolds, PTL

(* Every step of the ledger adds one new block at the end of the log of    *)
(* indexed blocks, or leaves the log alone.                                *)
LEMMA LogStep ==
    ASSUME TypeInv, ChainInv, LogInv, [Next]_vars, ~Fresh, ~Fresh'
    PROVE  [Log!Next]_([i \in DOMAIN index.blocks |-> index.blocks[i].id])
<1> DEFINE ids == [i \in DOMAIN index.blocks |-> index.blocks[i].id]
<1>1. CASE index' = index
  BY <1>1
<1>2. ASSUME NEW p \in Procs, WriteIndex(p)
      PROVE  Log!Next
  <2> DEFINE b == NewBlock(job[p].id, index.head, job[p].args)
  <2>1. pc[p] = "writeIndex" /\ index' = Extend(index, b)
    BY <1>2 DEF WriteIndex, LogInv, CopiesCurrent
  <2>2. /\ job[p].id \in BlockIds /\ job[p].id \notin IndexIds(index)
        /\ index \in Index /\ index.head \in OptBlockId /\ job[p].args \in SUBSET Learnings
    BY <2>1 DEF TypeInv, TypeOK, HasId, AppendSteps, IndexSteps, Job, OptBlockId, Index,
                LogInv, IdsNew, NewSteps
  <2>3. b \in Block /\ b.id = job[p].id
    BY <2>2, NewBlockType DEF NewBlock
  <2> HIDE DEF b
  <2>4. ids' = Append(ids, job[p].id)
    <3>1. [i \in DOMAIN Extend(index, b).blocks |-> Extend(index, b).blocks[i].id]
            = Append(ids, b.id)
      BY <2>2, <2>3, ExtendIds
    <3> QED
      BY <2>1, <2>3, <3>1
  <2>5. \A i \in DOMAIN ids : ids[i] # job[p].id
    BY <2>2 DEF IndexIds
  <2> QED
    BY <2>2, <2>4, <2>5 DEF Log!Next, Log!Add
<1>3. Next => index' = index \/ \E p \in Procs : WriteIndex(p)
  <2> SUFFICES ASSUME NEW p \in Procs, ~WriteIndex(p),
                      Step(p) \/ Open(p) \/ Close(p) \/ BeginAppend(p) \/ BeginRecord(p)
                        \/ Abandon(p)
               PROVE  index' = index
    BY DEF Next
  <2>1. ~MakeIndex(p)
    BY DEF LogInv, LayoutDone, MakeIndex
  <2> QED
    BY <2>1 DEF Step, Open, CheckReinforcements, MakeReinforcements, Close, LockIndex,
                LockReinforcements, Acquire, LockTimeout, BeginAppend, BeginRecord, ReadIndex,
                WriteBlock, WriteMerkle, ReadReinforcements, StoreLearning,
                WriteReinforcements, AppendReturns, ReadRecord, WriteRecord, RecordReturns,
                Abandon, files
<1> QED
  BY <1>1, <1>2, <1>3 DEF vars, files

(* The ledger implements the append-only log.                              *)
THEOREM LedgerImplementsLog == Spec => LogSpec
<1> DEFINE ids == [i \in DOMAIN index.blocks |-> index.blocks[i].id]
           log == IF Fresh THEN <<>> ELSE ids
<1>1. TypeInv /\ ExistingLogInv => Log!Init
  <2>0. Fresh => Log!Init
    BY DEF Log!Init, Log!NoRepeats
  <2> SUFFICES ASSUME TypeInv, LogInv, ~Fresh PROVE Log!Init
    BY <2>0 DEF ExistingLogInv
  <2>1. index.blocks \in Seq(Entry)
    BY DEF TypeInv, TypeOK, Index
  <2>2. \A i \in 1..Len(index.blocks) : index.blocks[i].id \in BlockIds
    <3>1. \A i \in 1..Len(index.blocks) : index.blocks[i] \in Entry
      BY <2>1
    <3> QED
      BY <3>1 DEF Entry
  <2>3. ids \in Seq(BlockIds)
    BY <2>1, <2>2
  <2> QED
    BY <2>3 DEF Log!Init, Log!NoRepeats, LogInv, IndexRepeatsNot
<1>2. TypeInv /\ ChainInv /\ ExistingLogInv /\ [Next]_vars => [Log!Next]_log
  <2> SUFFICES ASSUME TypeInv, ChainInv, ExistingLogInv, [Next]_vars
               PROVE  [Log!Next]_log
    OBVIOUS
  <2>1. Fresh' <=> Fresh
    BY SetupFixed DEF Fresh
  <2>2. CASE Fresh
    BY <2>1, <2>2
  <2>3. CASE ~Fresh
    BY <2>1, <2>3, LogStep DEF ExistingLogInv
  <2> QED
    BY <2>2, <2>3
<1> QED
  BY <1>1, <1>2, LogInvHolds, PTL DEF Spec, LogSpec, Log!Spec

------------------------------------------------------------------------------
(* How the files agree, in a ledger that exists, whoever appends, records, *)
(* crashes or fails; and reinforcements.json: each of the two locks is     *)
(* enough for it as long as nobody takes the other one.                    *)

ExistingInv == TypeInv /\ ChainInv /\ LogInv

------------------------------------------------------------------------------
(* Whose a block file is.                                                  *)

BeforeBlock == {"lockIndex", "readIndex", "writeBlock"}
AfterBlock  == {"writeMerkle", "writeIndex", "readReinf", "register", "returnAppend"}

(* Nobody but an append_block that has not written its block yet knows its *)
(* uuid; then there is the one file; and who does not append has no uuid.  *)
NotWritten == \A q \in Procs : pc[q] \in BeforeBlock => \A b \in blocks : b.id # job[q].id
IsWritten  == \A q \in Procs : pc[q] \in AfterBlock =>
                 \E b \in blocks : b.id = job[q].id /\ b.learnings = job[q].args
OneFileEach == \A b, c \in blocks : b.id = c.id => b = c
Unnamed    == \A q \in Procs : pc[q] \notin AppendSteps => job[q].id = None

OwnInv == NotWritten /\ IsWritten /\ OneFileEach /\ Unnamed

(* What a step does to a process: it goes on with its block, or gives its  *)
(* uuid up, and only a fault makes it do that in the middle.               *)
Moves(p, q) ==
    /\ pc'[q] \in BeforeBlock => pc[q] \in BeforeBlock /\ job'[q].id = job[q].id
    /\ pc'[q] \in AfterBlock =>
          /\ pc[q] \in AfterBlock \/ (q = p /\ WriteBlock(p))
          /\ job'[q].id = job[q].id /\ job'[q].args = job[q].args
    /\ pc'[q] \notin AppendSteps => job'[q].id = None
    /\ ~Abandon(p) => \/ job'[q].id = job[q].id \/ job[q].id = None
                      \/ pc[q] \in BeforeBlock \cup LateSteps

LEMMA MovesAll ==
    ASSUME ExistingInv, OwnInv, NEW p \in Procs, ~BeginAppend(p), NEW q \in Procs,
           Step(p) \/ Open(p) \/ Close(p) \/ BeginRecord(p) \/ Abandon(p)
    PROVE  Moves(p, q)
<1> USE DEF ExistingInv, TypeInv, TypeOK, Moves, BeforeBlock, AfterBlock, AppendSteps, IndexSteps,
            LateSteps, GoTo
<1>0. /\ job[q] \in Job /\ job[p] \in Job /\ NoJob.id = None
      /\ pc[q] \notin {"mkIndex", "mkReinf"} /\ pc[p] \notin {"mkIndex", "mkReinf"}
      /\ pc[q] \notin AppendSteps => job[q].id = None
      /\ pc[p] \notin AppendSteps => job[p].id = None
  BY DEF OwnInv, Unnamed, NoJob, JobOf, LogInv, LayoutDone
<1>1. CASE Open(p) \/ CheckReinforcements(p) \/ Close(p) \/ StoreLearning(p)
  BY <1>0, <1>1 DEF Open, CheckReinforcements, Close, StoreLearning
<1>2. CASE MakeIndex(p) \/ MakeReinforcements(p)
  BY <1>0, <1>2 DEF MakeIndex, MakeReinforcements
<1>3. CASE LockIndex(p) \/ LockReinforcements(p)
  BY <1>0, <1>3 DEF LockIndex, LockReinforcements, Acquire
<1>4. CASE LockTimeout(p) \/ Abandon(p)
  BY <1>0, <1>4 DEF LockTimeout, Abandon, Finish
<1>5. CASE BeginRecord(p)
  <2>1. PICK l \in Learnings, kind \in Update : job' = [job EXCEPT ![p] = JobOf(kind, None, {l})]
    BY <1>5 DEF BeginRecord
  <2>2. (q = p => job'[q].id = None) /\ (q # p => job'[q] = job[q])
    BY <2>1 DEF JobOf
  <2> QED
    BY <1>0, <1>5, <2>2 DEF BeginRecord
<1>6. CASE ReadIndex(p) \/ WriteMerkle(p) \/ ReadReinforcements(p)
  <2>1. job'[q].id = job[q].id /\ job'[q].args = job[q].args
    <3>1. CASE ReadIndex(p)
      BY <1>0, <3>1 DEF ReadIndex, Job
    <3>2. CASE WriteMerkle(p)
      BY <1>0, <3>2 DEF WriteMerkle, Job
    <3>3. CASE ReadReinforcements(p)
      BY <1>0, <3>3 DEF ReadReinforcements, Job
    <3> QED
      BY <1>6, <3>1, <3>2, <3>3
  <2>2. CASE ReadIndex(p)
    BY <1>0, <2>1, <2>2 DEF ReadIndex
  <2>3. CASE WriteMerkle(p)
    BY <1>0, <2>1, <2>3 DEF WriteMerkle
  <2>4. CASE ReadReinforcements(p)
    BY <1>0, <2>1, <2>4 DEF ReadReinforcements
  <2> QED
    BY <1>6, <2>2, <2>3, <2>4
<1>7. CASE WriteBlock(p)
  BY <1>0, <1>7 DEF WriteBlock
<1>8. CASE WriteIndex(p)
  BY <1>0, <1>8 DEF WriteIndex
<1>9. CASE WriteReinforcements(p) \/ WriteRecord(p)
  BY <1>0, <1>9 DEF WriteReinforcements, WriteRecord
<1>10. CASE AppendReturns(p) \/ RecordReturns(p)
  BY <1>0, <1>10 DEF AppendReturns, RecordReturns, Finish
<1>11. CASE ReadRecord(p)
  <2>1. /\ job'[q].id = job[q].id \/ (q = p /\ job'[q].id = None)
        /\ q # p => job'[q] = job[q] /\ pc'[q] = pc[q]
        /\ q = p => pc'[q] \in {"writeRecord", "idle"} /\ pc[q] = "readRecord"
    BY <1>0, <1>11 DEF ReadRecord, Finish, Job
  <2> QED
    BY <1>0, <1>11, <2>1 DEF ReadRecord
<1> QED
  BY <1>1, <1>2, <1>3, <1>4, <1>5, <1>6, <1>7, <1>8, <1>9, <1>10, <1>11 DEF Step

(* Block files only come, and only from WriteBlock; index entries too.     *)
LEMMA FilesGrow ==
    ASSUME ExistingInv, NEW p \in Procs,
           Step(p) \/ Open(p) \/ Close(p) \/ BeginAppend(p) \/ BeginRecord(p) \/ Abandon(p)
    PROVE  /\ blocks' = blocks \/ (WriteBlock(p) /\ blocks' = blocks \cup {OwnBlock(p)})
           /\ \/ index' = index /\ ~WriteIndex(p)
              \/ /\ WriteIndex(p) /\ pc[p] = "writeIndex"
                 /\ IndexIds(index') = IndexIds(index) \cup {job[p].id}
<1> USE DEF ExistingInv
<1>1. ~MakeIndex(p)
  BY DEF LogInv, LayoutDone, MakeIndex
<1>2. CASE WriteIndex(p)
  <2> DEFINE b == NewBlock(job[p].id, index.head, job[p].args)
  <2>1. pc[p] = "writeIndex" /\ index' = Extend(index, b) /\ blocks' = blocks
    BY <1>2 DEF WriteIndex, LogInv, CopiesCurrent
  <2>2. job[p].id \in BlockIds /\ index \in Index /\ index.head \in OptBlockId
        /\ job[p].args \in SUBSET Learnings
    BY <2>1 DEF TypeInv, TypeOK, HasId, AppendSteps, IndexSteps, Job, OptBlockId, Index
  <2>3. b \in Block /\ b.id = job[p].id
    BY <2>2, NewBlockType DEF NewBlock
  <2> QED
    BY <1>2, <2>1, <2>2, <2>3, ExtendIds
<1>3. CASE ~WriteIndex(p) /\ ~WriteBlock(p)
  BY <1>1, <1>3 DEF Step, Open, CheckReinforcements, MakeReinforcements, Close, LockIndex,
         LockReinforcements, Acquire, LockTimeout, BeginAppend, BeginRecord, ReadIndex,
         WriteMerkle, ReadReinforcements, StoreLearning, WriteReinforcements, AppendReturns,
         ReadRecord, WriteRecord, RecordReturns, Abandon, files
<1>4. CASE WriteBlock(p)
  BY <1>4 DEF WriteBlock, WriteIndex
<1> QED
  BY <1>2, <1>3, <1>4

Acts(p) == Step(p) \/ Open(p) \/ Close(p) \/ BeginAppend(p) \/ BeginRecord(p) \/ Abandon(p)

LEMMA BeginAppendOwn ==
    ASSUME ExistingInv, OwnInv, NEW p \in Procs, BeginAppend(p)
    PROVE  /\ OwnInv'
           /\ \A q \in Procs : job'[q].id = job[q].id \/ job[q].id = None
<1> USE DEF ExistingInv, TypeInv, TypeOK, OwnInv
<1>1. PICK id \in BlockIds \ UsedIds, ls \in SUBSET (Learnings \ UsedLearnings) :
         job' = [job EXCEPT ![p] = JobOf("append", id, ls)]
  BY DEF BeginAppend
<1>2. /\ blocks' = blocks /\ pc[p] = "idle" /\ pc' = [pc EXCEPT ![p] = "lockIndex"]
  BY DEF BeginAppend, GoTo, files
<1>3. job'[p].id = id /\ \A q \in Procs : q # p => job'[q] = job[q]
  BY <1>1 DEF JobOf
<1>4. \A b \in blocks : b.id # id
  BY DEF UsedIds
<1>5. NotWritten'
  BY <1>2, <1>3, <1>4 DEF NotWritten, BeforeBlock
<1>6. IsWritten' /\ OneFileEach'
  BY <1>2, <1>3 DEF IsWritten, OneFileEach, AfterBlock
<1>7. Unnamed' /\ job[p].id = None
  BY <1>2, <1>3 DEF Unnamed, AppendSteps, IndexSteps
<1> QED
  BY <1>3, <1>5, <1>6, <1>7

LEMMA WriteBlockOwn ==
    ASSUME ExistingInv, OwnInv, NEW p \in Procs, WriteBlock(p)
    PROVE  OwnInv'
<1> USE DEF ExistingInv, TypeInv, TypeOK, OwnInv
<1> DEFINE own == OwnBlock(p)
<1>1. /\ job' = job /\ blocks' = blocks \cup {own}
      /\ pc[p] = "writeBlock" /\ pc' = [pc EXCEPT ![p] = "writeMerkle"]
  BY DEF WriteBlock, GoTo
<1>2. own.id = job[p].id /\ own.learnings = job[p].args /\ job[p].id # None
  BY <1>1 DEF OwnBlock, NewBlock, HasId, AppendSteps, IndexSteps
<1> HIDE DEF own
<1>3. \A q \in Procs : q # p => job[q].id # job[p].id
  BY <1>2 DEF LogInv, IdsUnique
<1>4. NotWritten'
  BY <1>1, <1>2, <1>3 DEF NotWritten, BeforeBlock
<1>5. IsWritten'
  BY <1>1, <1>2 DEF IsWritten, AfterBlock
<1>6. OneFileEach'
  BY <1>1, <1>2 DEF OneFileEach, NotWritten, BeforeBlock
<1>7. Unnamed'
  BY <1>1 DEF Unnamed, AppendSteps, IndexSteps
<1> QED
  BY <1>4, <1>5, <1>6, <1>7

LEMMA StepOwn ==
    ASSUME ExistingInv, OwnInv, NEW p \in Procs, Acts(p)
    PROVE  OwnInv'
<1>1. CASE ~WriteBlock(p) /\ ~BeginAppend(p)
  <2>1. \A q \in Procs : Moves(p, q)
    BY <1>1, MovesAll DEF Acts
  <2>2. blocks' = blocks
    BY <1>1, FilesGrow DEF Acts
  <2>3. NotWritten'
    BY <2>1, <2>2 DEF OwnInv, NotWritten, Moves
  <2>4. IsWritten'
    BY <1>1, <2>1, <2>2 DEF OwnInv, IsWritten, Moves
  <2>5. OneFileEach' /\ Unnamed'
    BY <2>1, <2>2 DEF OwnInv, OneFileEach, Unnamed, Moves
  <2> QED
    BY <2>3, <2>4, <2>5 DEF OwnInv
<1> QED
  BY <1>1, WriteBlockOwn, BeginAppendOwn

------------------------------------------------------------------------------
(* Reinforcements never run ahead of the index, and neither do the copies  *)
(* that will be written back.                                              *)

IndexedOnly(r) ==
    \A l \in Learnings : r[l].block # None =>
        \E b \in blocks : b.id = r[l].block /\ l \in b.learnings /\ b.id \in IndexIds(index)
SnapSteps == {"register", "writeRecord"}
IndexedInv ==
    /\ IndexedOnly(reinf)
    /\ \A q \in Procs : pc[q] \in SnapSteps => IndexedOnly(job[q].snap)

LEMMA IndexedStays ==
    ASSUME ExistingInv, NEW p \in Procs, Acts(p), NEW r, IndexedOnly(r)
    PROVE  IndexedOnly(r)'
<1>1. blocks \subseteq blocks' /\ IndexIds(index) \subseteq IndexIds(index')
  BY FilesGrow DEF Acts
<1> QED
  BY <1>1 DEF IndexedOnly

LEMMA StepIndexed ==
    ASSUME ExistingInv, OwnInv, IndexedInv, NEW p \in Procs, Acts(p)
    PROVE  IndexedInv'
<1> USE DEF ExistingInv, TypeInv, TypeOK
<1>0. \A r : IndexedOnly(r) => IndexedOnly(r)'
  BY IndexedStays
<1>1. CASE WriteReinforcements(p)
  <2>1. /\ pc[p] = "register" /\ IndexedOnly(job[p].snap) /\ UNCHANGED <<index, blocks>>
        /\ pc' = [pc EXCEPT ![p] = "returnAppend"] /\ job' = job
        /\ reinf' = [l \in Learnings |->
                       IF l \in job[p].args THEN [Unregistered EXCEPT !.block = job[p].id]
                                            ELSE job[p].snap[l]]
    BY <1>1 DEF WriteReinforcements, GoTo, IndexedInv, SnapSteps
  <2>2. PICK own \in blocks : own.id = job[p].id /\ own.learnings = job[p].args
    BY <2>1 DEF OwnInv, IsWritten, AfterBlock
  <2>3. own.id \in IndexIds(index)
    BY <2>1, <2>2 DEF LogInv, LateIndexed, LateSteps
  <2>4. \A l \in Learnings : reinf'[l].block = IF l \in job[p].args THEN own.id
                                               ELSE job[p].snap[l].block
    BY <2>1, <2>2 DEF Unregistered
  <2>5. IndexedOnly(reinf)'
    BY <2>1, <2>2, <2>3, <2>4 DEF IndexedOnly
  <2>6. \A q \in Procs : pc'[q] \in SnapSteps => pc[q] \in SnapSteps /\ job'[q] = job[q]
    BY <2>1 DEF SnapSteps
  <2> QED
    BY <1>0, <2>5, <2>6 DEF IndexedInv
<1>2. CASE WriteRecord(p)
  <2>1. /\ pc[p] = "writeRecord" /\ IndexedOnly(job[p].snap) /\ UNCHANGED <<index, blocks>>
        /\ pc' = [pc EXCEPT ![p] = "returnRecord"] /\ job' = job
        /\ reinf' = [l \in Learnings |->
                       IF l \in job[p].args THEN Bump(job[p].snap[l], job[p].op)
                                            ELSE job[p].snap[l]]
    BY <1>2 DEF WriteRecord, GoTo, IndexedInv, SnapSteps
  <2>2. \A l \in Learnings : job[p].snap[l] \in Reinforcement
    BY DEF Job, Reinforcements
  <2>3. \A l \in Learnings : reinf'[l].block = job[p].snap[l].block
    BY <2>1, <2>2 DEF Bump, Reinforcement
  <2>4. IndexedOnly(reinf)'
    BY <2>1, <2>3 DEF IndexedOnly
  <2>5. \A q \in Procs : pc'[q] \in SnapSteps => pc[q] \in SnapSteps /\ job'[q] = job[q]
    BY <2>1 DEF SnapSteps
  <2> QED
    BY <1>0, <2>4, <2>5 DEF IndexedInv
<1>3. CASE ReadReinforcements(p) \/ ReadRecord(p)
  <2>1. reinf' = reinf
    BY <1>3 DEF ReadReinforcements, ReadRecord, files
  <2>2. ASSUME NEW q \in Procs, pc'[q] \in SnapSteps
        PROVE  job'[q].snap = reinf \/ (pc[q] \in SnapSteps /\ job'[q] = job[q])
    <3>1. job[p] \in Job
      OBVIOUS
    <3>2. CASE ReadReinforcements(p)
      BY <2>2, <3>1, <3>2 DEF ReadReinforcements, GoTo, SnapSteps, Job
    <3>3. CASE ReadRecord(p)
      BY <2>2, <3>1, <3>3 DEF ReadRecord, Finish, GoTo, SnapSteps, Job
    <3> QED
      BY <1>3, <3>2, <3>3
  <2> QED
    BY <1>0, <2>1, <2>2 DEF IndexedInv
<1>4. CASE ~WriteReinforcements(p) /\ ~WriteRecord(p) /\ ~ReadReinforcements(p) /\ ~ReadRecord(p)
  <2>1. ~MakeReinforcements(p) /\ ~MakeIndex(p)
    BY DEF LogInv, LayoutDone, MakeReinforcements, MakeIndex
  <2>2. reinf' = reinf
    BY <1>4, <2>1 DEF Acts, Step, Open, CheckReinforcements, Close, LockIndex,
         LockReinforcements, Acquire, LockTimeout, BeginAppend, BeginRecord, ReadIndex,
         WriteBlock, WriteMerkle, WriteIndex, StoreLearning, AppendReturns, RecordReturns,
         Abandon, files
  <2>3. ASSUME NEW q \in Procs, pc'[q] \in SnapSteps
        PROVE  pc[q] \in SnapSteps /\ job'[q] = job[q]
    <3> USE DEF SnapSteps, GoTo, Finish
    <3>1. CASE Open(p) \/ Close(p) \/ CheckReinforcements(p) \/ StoreLearning(p)
      BY <2>3, <3>1 DEF Open, Close, CheckReinforcements, StoreLearning
    <3>2. CASE LockIndex(p) \/ LockReinforcements(p) \/ LockTimeout(p) \/ Abandon(p)
      BY <2>3, <3>2 DEF LockIndex, LockReinforcements, Acquire, LockTimeout, Abandon
    <3>3. CASE BeginAppend(p) \/ BeginRecord(p)
      BY <2>3, <3>3 DEF BeginAppend, BeginRecord
    <3>4. CASE ReadIndex(p) \/ WriteBlock(p) \/ WriteMerkle(p)
      BY <2>3, <3>4 DEF ReadIndex, WriteBlock, WriteMerkle
    <3>5. CASE WriteIndex(p) \/ AppendReturns(p) \/ RecordReturns(p)
      BY <2>3, <3>5 DEF WriteIndex, AppendReturns, RecordReturns
    <3> QED
      BY <1>4, <2>1, <3>1, <3>2, <3>3, <3>4, <3>5 DEF Acts, Step
  <2> QED
    BY <1>0, <2>2, <2>3 DEF IndexedInv
<1> QED
  BY <1>1, <1>2, <1>3, <1>4

------------------------------------------------------------------------------
(* merkle.json is the tree of the index, or one leaf ahead of it.          *)

LEMMA ExtendLeaves ==
    ASSUME NEW ix \in Index, NEW b \in Block
    PROVE  Extend(ix, b).root = Leaves(ix.blocks) \cup {<<b.id, b.hash>>}
<1> DEFINE es == Append(ix.blocks, EntryOf(b))
           n == Len(ix.blocks)
<1>1. EntryOf(b) \in Entry /\ EntryOf(b).id = b.id /\ EntryOf(b).hash = b.hash
  BY EntryType DEF EntryOf
<1>2. n \in Nat /\ DOMAIN ix.blocks = 1..n
  BY DEF Index
<1>3. /\ DOMAIN es = 1..(n + 1) /\ es[n + 1] = EntryOf(b)
      /\ \A i \in 1..n : es[i] = ix.blocks[i]
  BY <1>1, AppendProperties DEF Index
<1>4. Extend(ix, b).root = Leaves(es)
  BY DEF Extend
<1> HIDE DEF es
<1>5. \A i \in 1..(n + 1) : i \in 1..n \/ i = n + 1
  BY <1>2
<1> QED
  BY <1>1, <1>2, <1>3, <1>4, <1>5 DEF Leaves

OneAhead == index.root \subseteq merkle /\ \E leaf : merkle \subseteq index.root \cup {leaf}
TreeWritten == \A q \in Procs : pc[q] = "writeIndex" => merkle = job[q].idx.root
AheadForCause == merkle # index.root => faults > 0 \/ \E q \in Procs : pc[q] = "writeIndex"
MerkleInv == OneAhead /\ TreeWritten /\ AheadForCause

LEMMA WriteMerkleTree ==
    ASSUME ExistingInv, MerkleInv, NEW p \in Procs, WriteMerkle(p)
    PROVE  MerkleInv'
<1> USE DEF ExistingInv, TypeInv, TypeOK
<1> DEFINE b == NewBlock(job[p].id, index.head, job[p].args)
<1>1. /\ pc[p] = "writeMerkle" /\ pc' = [pc EXCEPT ![p] = "writeIndex"]
      /\ job' = [job EXCEPT ![p].idx = Extend(job[p].idx, OwnBlock(p))]
      /\ merkle' = Leaves(Extend(job[p].idx, OwnBlock(p)).blocks) /\ index' = index
  BY DEF WriteMerkle, GoTo
<1>2. job[p].idx = index /\ OwnBlock(p) = b
  BY <1>1 DEF LogInv, CopiesCurrent, HolderSteps, OwnBlock
<1>3. index.root = Leaves(index.blocks)
  BY DEF ChainInv, ChainIntact, Intact
<1>4. b \in Block
  <2>1. job[p].id \in BlockIds /\ index.head \in OptBlockId /\ job[p].args \in SUBSET Learnings
    BY <1>1 DEF HasId, AppendSteps, IndexSteps, Job, OptBlockId, Index
  <2> QED
    BY <2>1, NewBlockType
<1>5. merkle' = Extend(index, b).root
  BY <1>1, <1>2 DEF Extend
<1>6. Extend(index, b).root = index.root \cup {<<b.id, b.hash>>}
  BY <1>3, <1>4, ExtendLeaves
<1>7. OneAhead'
  BY <1>1, <1>5, <1>6 DEF OneAhead
<1>8. \A q \in Procs : q # p => pc[q] # "writeIndex"
  BY <1>1 DEF LogInv, LockHeld, IndexSteps
<1>9. job'[p].idx = Extend(index, b)
  BY <1>1, <1>2 DEF Job
<1>10. TreeWritten'
  BY <1>1, <1>5, <1>8, <1>9 DEF TreeWritten
<1>11. AheadForCause'
  BY <1>1 DEF AheadForCause
<1> QED
  BY <1>7, <1>10, <1>11 DEF MerkleInv

LEMMA WriteIndexTree ==
    ASSUME ExistingInv, MerkleInv, NEW p \in Procs, WriteIndex(p)
    PROVE  MerkleInv'
<1> USE DEF ExistingInv, TypeInv, TypeOK
<1>1. pc[p] = "writeIndex" /\ index' = job[p].idx /\ merkle' = merkle
  BY DEF WriteIndex
<1>2. merkle' = index'.root
  BY <1>1 DEF MerkleInv, TreeWritten
<1>3. \A q \in Procs : q # p => pc[q] # "writeIndex"
  BY <1>1 DEF LogInv, LockHeld, IndexSteps
<1>4. \A q \in Procs : pc'[q] # "writeIndex"
  BY <1>3 DEF WriteIndex, GoTo
<1> QED
  BY <1>2, <1>4 DEF MerkleInv, OneAhead, TreeWritten, AheadForCause

LEMMA StepTree ==
    ASSUME ExistingInv, MerkleInv, NEW p \in Procs, Acts(p)
    PROVE  MerkleInv'
<1> USE DEF ExistingInv, TypeInv, TypeOK
<1>1. CASE ~WriteMerkle(p) /\ ~WriteIndex(p)
  <2>1. ~MakeReinforcements(p) /\ ~MakeIndex(p)
    BY DEF LogInv, LayoutDone, MakeReinforcements, MakeIndex
  <2>2. index' = index /\ merkle' = merkle
    BY <1>1, <2>1 DEF Acts, Step, Open, CheckReinforcements, Close, LockIndex,
         LockReinforcements, Acquire, LockTimeout, BeginAppend, BeginRecord, ReadIndex,
         WriteBlock, ReadReinforcements, StoreLearning, WriteReinforcements, AppendReturns,
         ReadRecord, WriteRecord, RecordReturns, Abandon, files
  <2>3. ASSUME NEW q \in Procs
        PROVE  /\ pc'[q] = "writeIndex" => pc[q] = "writeIndex" /\ job'[q] = job[q]
               /\ pc[q] = "writeIndex" => pc'[q] = "writeIndex" \/ faults' > 0
               /\ faults > 0 => faults' > 0
    <3> USE DEF GoTo, Finish, history
    <3>1. CASE Open(p) \/ Close(p) \/ CheckReinforcements(p) \/ StoreLearning(p)
      BY <3>1 DEF Open, Close, CheckReinforcements, StoreLearning
    <3>2. CASE LockIndex(p) \/ LockReinforcements(p) \/ LockTimeout(p)
      BY <3>2 DEF LockIndex, LockReinforcements, Acquire, LockTimeout
    <3>3. CASE BeginAppend(p) \/ BeginRecord(p)
      BY <3>3 DEF BeginAppend, BeginRecord
    <3>4. CASE ReadIndex(p) \/ WriteBlock(p) \/ ReadReinforcements(p)
      BY <3>4 DEF ReadIndex, WriteBlock, ReadReinforcements
    <3>5. CASE WriteReinforcements(p) \/ AppendReturns(p)
      BY <3>5 DEF WriteReinforcements, AppendReturns
    <3>6. CASE ReadRecord(p)
      BY <3>6 DEF ReadRecord
    <3>7. CASE WriteRecord(p) \/ RecordReturns(p)
      BY <3>7 DEF WriteRecord, RecordReturns
    <3>8. CASE Abandon(p)
      <4>1. faults' = faults + 1 /\ faults \in Nat
        BY <3>8 DEF Abandon
      <4>2. faults' > 0
        BY <4>1
      <4> QED
        BY <3>8, <4>2 DEF Abandon
    <3> QED
      BY <1>1, <2>1, <3>1, <3>2, <3>3, <3>4, <3>5, <3>6, <3>7, <3>8 DEF Acts, Step
  <2>4. OneAhead'
    BY <2>2 DEF MerkleInv, OneAhead
  <2>5. TreeWritten'
    BY <2>2, <2>3 DEF MerkleInv, TreeWritten
  <2>6. AheadForCause'
    BY <2>2, <2>3 DEF MerkleInv, AheadForCause
  <2> QED
    BY <2>4, <2>5, <2>6 DEF MerkleInv
<1> QED
  BY <1>1, WriteMerkleTree, WriteIndexTree

------------------------------------------------------------------------------
(* Orphans: each is the one block of an append_block that a fault ended.   *)

OrphanInv == IsFiniteSet(Orphans) /\ Cardinality(Orphans) <= faults

LEMMA FewerOrphans ==
    ASSUME OrphanInv, faults \in Nat, faults' = faults, Orphans' \subseteq Orphans
    PROVE  OrphanInv'
<1>1. IsFiniteSet(Orphans') /\ Cardinality(Orphans') <= Cardinality(Orphans)
  BY FS_Subset DEF OrphanInv
<1>2. Cardinality(Orphans) \in Nat /\ Cardinality(Orphans') \in Nat
  BY <1>1, FS_CardinalityType DEF OrphanInv
<1> QED
  BY <1>1, <1>2 DEF OrphanInv

LEMMA AbandonOrphans ==
    ASSUME ExistingInv, OwnInv, OrphanInv, NEW p \in Procs, Abandon(p)
    PROVE  OrphanInv'
<1> USE DEF ExistingInv, TypeInv, TypeOK
<1>1. /\ blocks' = blocks /\ index' = index /\ faults' = faults + 1 /\ faults \in Nat
      /\ \A q \in Procs : q # p => job'[q] = job[q]
  BY DEF Abandon, Finish, files
<1>2. PICK x : \A b \in blocks : b.id = job[p].id => b = x
  BY DEF OwnInv, OneFileEach
<1>3. Orphans' \subseteq Orphans \cup {x}
  BY <1>1, <1>2 DEF Orphans
<1>4. /\ IsFiniteSet(Orphans \cup {x}) /\ Cardinality(Orphans) \in Nat
      /\ Cardinality(Orphans \cup {x}) \in Nat
      /\ Cardinality(Orphans \cup {x}) <= Cardinality(Orphans) + 1
  <2>1. /\ IsFiniteSet(Orphans \cup {x}) /\ Cardinality(Orphans) \in Nat
        /\ Cardinality(Orphans \cup {x}) \in {Cardinality(Orphans), Cardinality(Orphans) + 1}
    BY FS_AddElement, FS_CardinalityType DEF OrphanInv
  <2> QED
    BY <2>1
<1>5. IsFiniteSet(Orphans') /\ Cardinality(Orphans') <= Cardinality(Orphans \cup {x})
  BY <1>3, <1>4, FS_Subset
<1>6. Cardinality(Orphans') \in Nat
  BY <1>5, FS_CardinalityType
<1> QED
  BY <1>1, <1>4, <1>5, <1>6 DEF OrphanInv

LEMMA StepOrphans ==
    ASSUME ExistingInv, OwnInv, OrphanInv, NEW p \in Procs, Acts(p)
    PROVE  OrphanInv'
<1> USE DEF ExistingInv, TypeInv, TypeOK
<1>1. CASE ~Abandon(p)
  <2>1. faults' = faults
    BY <1>1 DEF Acts, Step, Open, MakeIndex, CheckReinforcements, MakeReinforcements, Close,
         LockIndex, LockReinforcements, Acquire, LockTimeout, BeginAppend, BeginRecord, ReadIndex,
         WriteBlock, WriteMerkle, WriteIndex, ReadReinforcements, StoreLearning,
         WriteReinforcements, AppendReturns, ReadRecord, WriteRecord, RecordReturns, history
  <2>2. \A q \in Procs : \/ job'[q].id = job[q].id \/ job[q].id = None
                         \/ pc[q] \in BeforeBlock \cup LateSteps
    <3>1. CASE BeginAppend(p)
      BY <3>1, BeginAppendOwn
    <3>2. CASE ~BeginAppend(p)
      BY <1>1, <3>2, MovesAll DEF Acts, Moves
    <3> QED
      BY <3>1, <3>2
  <2>3. ASSUME NEW b \in Orphans'
        PROVE  b \in Orphans
    <3>1. b \in blocks' /\ b.id \notin IndexIds(index') /\ \A q \in Procs : job'[q].id # b.id
      BY <2>3 DEF Orphans
    <3>2. b \in blocks
      BY <3>1, FilesGrow DEF Acts, WriteBlock, OwnBlock, NewBlock
    <3>3. b.id \notin IndexIds(index)
      BY <3>1, FilesGrow DEF Acts
    <3>4. ASSUME NEW q \in Procs, job[q].id = b.id
          PROVE  FALSE
      <4>1. b.id # None
        BY <3>2, LedgerAssumption DEF Block
      <4>2. CASE pc[q] \in BeforeBlock
        BY <3>2, <3>4, <4>2 DEF OwnInv, NotWritten
      <4>3. CASE pc[q] \in LateSteps
        BY <3>3, <3>4, <4>3 DEF LogInv, LateIndexed
      <4> QED
        BY <2>2, <3>1, <3>4, <4>1, <4>2, <4>3
    <3> QED
      BY <3>2, <3>3, <3>4 DEF Orphans
  <2> QED
    BY <2>1, <2>3, FewerOrphans
<1> QED
  BY <1>1, AbandonOrphans

------------------------------------------------------------------------------
FilesInv == OwnInv /\ IndexedInv /\ MerkleInv /\ OrphanInv

LEMMA InitFiles ==
    ASSUME ~Fresh, Init
    PROVE  FilesInv
<1> DEFINE genesis == NewBlock(CHOOSE b \in BlockIds : TRUE, None, Seed)
<1>1. /\ \A q \in Procs : pc[q] = "closed" /\ job[q] = NoJob /\ NoJob.id = None
      /\ faults = 0
  BY DEF Init, NoJob, JobOf
<1>2. genesis \in Block /\ genesis.learnings = Seed
  BY InitSetup, LedgerAssumption, NewBlockType DEF OptBlockId, NewBlock
<1>3. /\ blocks = IF Seed # {} THEN {genesis} ELSE {}
      /\ index = IF Seed # {} THEN Extend(EmptyIndex, genesis) ELSE EmptyIndex
      /\ merkle = Leaves(index.blocks)
      /\ reinf = [l \in Learnings |-> IF l \in Seed THEN [Unregistered EXCEPT !.block = genesis.id]
                                                    ELSE Unregistered]
  BY DEF Init
<1> HIDE DEF genesis
<1>4. Seed # {} => genesis.id \in IndexIds(index)
  BY <1>2, <1>3, ExtendIds, EmptyIndexType
<1>5. OwnInv
  BY <1>1, <1>3 DEF OwnInv, NotWritten, IsWritten, OneFileEach, Unnamed, BeforeBlock, AfterBlock
<1>6. IndexedInv
  <2>1. \A l \in Learnings : reinf[l].block = IF l \in Seed THEN genesis.id ELSE None
    BY <1>3 DEF Unregistered
  <2>2. IndexedOnly(reinf)
    BY <1>2, <1>3, <1>4, <2>1 DEF IndexedOnly
  <2> QED
    BY <1>1, <2>2 DEF IndexedInv, SnapSteps
<1>7. MerkleInv
  <2>1. ChainIntact
    BY InitChainInv DEF ChainInv
  <2>2. merkle = index.root
    BY <1>3, <2>1 DEF ChainIntact, Intact
  <2> QED
    BY <1>1, <2>2 DEF MerkleInv, OneAhead, TreeWritten, AheadForCause
<1>8. OrphanInv
  <2>1. Orphans = {}
    BY <1>3, <1>4 DEF Orphans
  <2> QED
    BY <1>1, <2>1, FS_EmptySet DEF OrphanInv
<1> QED
  BY <1>5, <1>6, <1>7, <1>8 DEF FilesInv

LEMMA NextFiles ==
    ASSUME ExistingInv, FilesInv, [Next]_vars
    PROVE  FilesInv'
<1>1. ASSUME NEW p \in Procs, Acts(p)
      PROVE  FilesInv'
  BY <1>1, StepOwn, StepIndexed, StepTree, StepOrphans DEF FilesInv
<1>2. CASE UNCHANGED vars
  <2>1. OwnInv'
    BY <1>2 DEF FilesInv, OwnInv, NotWritten, IsWritten, OneFileEach, Unnamed, vars, files
  <2>2. IndexedInv'
    BY <1>2 DEF FilesInv, IndexedInv, IndexedOnly, vars, files
  <2>3. MerkleInv'
    BY <1>2 DEF FilesInv, MerkleInv, OneAhead, TreeWritten, AheadForCause, vars, files, history
  <2>4. Orphans' = Orphans /\ faults' = faults
    BY <1>2 DEF Orphans, vars, files, history
  <2> QED
    BY <2>1, <2>2, <2>3, <2>4 DEF FilesInv, OrphanInv
<1> QED
  BY <1>1, <1>2 DEF Next, Acts

ExistingFilesInv == ~Fresh => FilesInv

LEMMA FilesInvHolds ==
    Spec => [](TypeInv /\ ChainInv /\ ExistingLogInv /\ ExistingFilesInv)
<1>1. Init => ExistingFilesInv
  BY InitFiles DEF ExistingFilesInv
<1>2. TypeInv /\ ChainInv /\ ExistingLogInv /\ ExistingFilesInv /\ [Next]_vars => ExistingFilesInv'
  <2>1. [Next]_vars => (Fresh <=> Fresh')
    BY SetupFixed DEF Fresh
  <2> QED
    BY <2>1, NextFiles DEF ExistingFilesInv, ExistingLogInv, ExistingInv
<1> QED
  BY <1>1, <1>2, LogInvHolds, PTL DEF Spec

(* Reinforcements never run ahead of the index; merkle.json is the tree of *)
(* the index or, inside append_block or after a fault, one leaf ahead; and *)
(* there are at most as many orphan blocks as faults (store.rs:104-158).   *)
THEOREM FilesAlwaysAgree == Spec => []FilesAgree
<1>1. ExistingFilesInv => FilesAgree
  <2> SUFFICES ASSUME ~Fresh, FilesInv
               PROVE  RegisteredIsIndexed /\ OrphansAreFaults /\ MerkleCoversIndex
    BY DEF ExistingFilesInv, FilesAgree, RegisteredIsIndexed, OrphansAreFaults, MerkleCoversIndex
  <2>1. RegisteredIsIndexed
    BY DEF FilesInv, IndexedInv, IndexedOnly, RegisteredIsIndexed, Registered
  <2>2. OrphansAreFaults
    BY DEF FilesInv, OrphanInv, OrphansAreFaults
  <2>3. Cardinality(merkle \ index.root) <= 1
    <3>1. PICK leaf : merkle \ index.root \subseteq {leaf}
      BY DEF FilesInv, MerkleInv, OneAhead
    <3>2. IsFiniteSet({leaf}) /\ Cardinality({leaf}) = 1
      BY FS_Singleton
    <3> QED
      BY <3>1, <3>2, FS_Subset
  <2>4. MerkleCoversIndex
    BY <2>3 DEF FilesInv, MerkleInv, OneAhead, AheadForCause, MerkleCoversIndex
  <2> QED
    BY <2>1, <2>2, <2>4
<1> QED
  BY <1>1, FilesInvHolds, PTL

------------------------------------------------------------------------------
(* Appends without records.  Who registers holds the index lock, so its    *)
(* copy of reinforcements.json is the file; and no two blocks share a      *)
(* learning, so what one append registers no other one overwrites.         *)

NobodyRecords == \A p \in Procs : pc[p] \notin RecordSteps \cup {"lockReinf"}
SnapsCurrent  == \A p \in Procs : pc[p] = "register" => job[p].snap = reinf
ArgsDisjoint  == \A p, q \in Procs : p # q => job[p].args \cap job[q].args = {}

(* Of a block, the file and the append_block that makes it.                *)
OwnLearnings(b) ==
    \A p \in Procs : /\ job[p].id = b.id => b.learnings = job[p].args
                     /\ job[p].args \cap b.learnings # {} => job[p].id = b.id
BlocksOwn == \A b \in blocks : OwnLearnings(b)

(* An append_block that has not written its block is the only one to know  *)
(* its uuid, so that no two block files have the same.                     *)
Unwritten == {"lockIndex", "readIndex", "writeBlock"}
IdsUnwritten == \A p \in Procs : pc[p] \in Unwritten => \A b \in blocks : b.id # job[p].id
BlocksUnique == \A b, c \in blocks : b.id = c.id => b = c

IsRegistered(b) == \A l \in b.learnings : reinf[l].block = b.id /\ l \in objects
AppendedRegistered == \A b \in blocks : b.id \in appended => IsRegistered(b)
ReturningRegistered ==
    \A p \in Procs : pc[p] = "returnAppend" =>
        \A b \in blocks : b.id = job[p].id => IsRegistered(b)

RegInv == /\ NobodyRecords /\ SnapsCurrent /\ ArgsDisjoint /\ BlocksOwn
          /\ IdsUnwritten /\ BlocksUnique /\ AppendedRegistered /\ ReturningRegistered

Quiet == ~Fresh /\ Recorders = {}
AllInv == TypeInv /\ ChainInv /\ LogInv

LEMMA InitRegInv == Init => RegInv
<1> SUFFICES ASSUME Init PROVE RegInv
  OBVIOUS
<1> DEFINE genesis == NewBlock(CHOOSE b \in BlockIds : TRUE, None, Seed)
<1>1. /\ \A p \in Procs : pc[p] = "closed" /\ job[p] = NoJob
      /\ NoJob.id = None /\ NoJob.args = {}
      /\ None \notin BlockIds
  BY LedgerAssumption DEF Init, NoJob, JobOf
<1>2. genesis.id \in BlockIds /\ genesis.learnings = Seed
  BY LedgerAssumption DEF NewBlock
<1>3. blocks \subseteq {genesis} /\ Seed \subseteq Learnings /\ objects = Seed
  BY InitSetup DEF Init
<1>4. \A l \in Seed : reinf[l].block = genesis.id
  BY <1>3 DEF Init, Unregistered
<1> HIDE DEF genesis
<1>5. NobodyRecords /\ SnapsCurrent /\ ArgsDisjoint /\ IdsUnwritten /\ BlocksUnique
  BY <1>1, <1>3 DEF NobodyRecords, SnapsCurrent, ArgsDisjoint, IdsUnwritten, BlocksUnique,
                    Unwritten, RecordSteps
<1>6. BlocksOwn
  BY <1>1, <1>2, <1>3 DEF BlocksOwn, OwnLearnings
<1>7. AppendedRegistered /\ ReturningRegistered
  BY <1>1, <1>2, <1>3, <1>4 DEF AppendedRegistered, ReturningRegistered, IsRegistered
<1> QED
  BY <1>5, <1>6, <1>7 DEF RegInv

(* A step that leaves the files of blocks and learnings alone, and at      *)
(* which processes at most forget their job and acknowledge what is        *)
(* registered.                                                             *)
LEMMA QuietRegInv ==
    ASSUME RegInv, UNCHANGED <<blocks, reinf>>, objects \subseteq objects',
           \A b \in blocks : b.id \in appended' => IsRegistered(b),
           \A q \in Procs :
              /\ pc'[q] \notin RecordSteps \cup {"lockReinf"}
              /\ pc'[q] = "register" => pc[q] = "register" /\ job'[q] = job[q]
              /\ pc'[q] = "returnAppend" => pc[q] = "returnAppend" /\ job'[q].id = job[q].id
              /\ \/ job'[q].id = job[q].id /\ job'[q].args = job[q].args
                 \/ job'[q].id = None /\ job'[q].args = {}
              /\ pc'[q] \in Unwritten => pc[q] \in Unwritten /\ job'[q].id = job[q].id,
           \A b \in blocks : b.id # None
    PROVE  RegInv'
<1> USE DEF RegInv
<1>1. NobodyRecords' /\ SnapsCurrent' /\ ArgsDisjoint'
  BY DEF NobodyRecords, SnapsCurrent, ArgsDisjoint
<1>2. BlocksOwn'
  BY DEF BlocksOwn, OwnLearnings
<1>3. IdsUnwritten' /\ BlocksUnique'
  BY DEF IdsUnwritten, BlocksUnique
<1>4. AppendedRegistered' /\ ReturningRegistered'
  BY DEF AppendedRegistered, ReturningRegistered, IsRegistered
<1> QED
  BY <1>1, <1>2, <1>3, <1>4

LEMMA BlockFacts ==
    ASSUME TypeOK
    PROVE  /\ \A b \in blocks : b.id \in BlockIds /\ b.id # None /\ b.learnings \subseteq Learnings
           /\ \A q \in Procs : job[q] \in Job
           /\ NoJob.id = None /\ NoJob.args = {}
BY LedgerAssumption DEF TypeOK, Block, NoJob, JobOf

LEMMA OtherStepsRegInv ==
    ASSUME AllInv, RegInv, Recorders = {}, NEW p \in Procs,
           \/ Open(p) \/ CheckReinforcements(p) \/ Close(p)
           \/ LockIndex(p) \/ LockReinforcements(p) \/ LockTimeout(p)
           \/ BeginRecord(p) \/ ReadIndex(p) \/ WriteMerkle(p)
           \/ StoreLearning(p) \/ AppendReturns(p)
           \/ ReadRecord(p) \/ WriteRecord(p) \/ RecordReturns(p) \/ Abandon(p)
    PROVE  RegInv'
<1> USE DEF AllInv, TypeInv, TypeOK
<1>0. /\ \A b \in blocks : b.id # None
      /\ \A q \in Procs : job[q] \in Job /\ pc[q] \notin {"mkIndex", "mkReinf"}
      /\ \A q \in Procs : pc[q] \notin RecordSteps \cup {"lockReinf"}
      /\ NoJob.id = None /\ NoJob.args = {}
      /\ layout = {"index", "reinforcements"}
      /\ \A b \in blocks : b.id \in appended => IsRegistered(b)
  BY BlockFacts DEF RegInv, NobodyRecords, LogInv, LayoutDone, AppendedRegistered
<1>1. /\ ~LockReinforcements(p) /\ ~BeginRecord(p)
      /\ ~ReadRecord(p) /\ ~WriteRecord(p) /\ ~RecordReturns(p)
  BY <1>0 DEF LockReinforcements, Acquire, ReadRecord, WriteRecord, RecordReturns, BeginRecord,
              RecordSteps
<1> USE DEF Unwritten, RecordSteps
<1>2. CASE Open(p) \/ CheckReinforcements(p) \/ Close(p)
  BY <1>0, <1>2, QuietRegInv DEF Open, CheckReinforcements, Close, GoTo, files, history
<1>3. CASE LockIndex(p)
  BY <1>0, <1>3, QuietRegInv DEF LockIndex, Acquire, GoTo, files, history
<1>4. CASE LockTimeout(p)
  BY <1>0, <1>4, QuietRegInv DEF LockTimeout, Finish, GoTo, files, history
<1>5. CASE Abandon(p)
  BY <1>0, <1>5, QuietRegInv DEF Abandon, Finish, GoTo, files, history
<1>6. CASE StoreLearning(p)
  BY <1>0, <1>6, QuietRegInv DEF StoreLearning, files, history
<1>7. CASE ReadIndex(p)
  <2>1. \A q \in Procs : job'[q].id = job[q].id /\ job'[q].args = job[q].args
    BY <1>0, <1>7 DEF ReadIndex, Job
  <2> QED
    BY <1>0, <1>7, <2>1, QuietRegInv DEF ReadIndex, GoTo, files, history
<1>8. CASE WriteMerkle(p)
  <2>1. \A q \in Procs : job'[q].id = job[q].id /\ job'[q].args = job[q].args
    BY <1>0, <1>8 DEF WriteMerkle, Job
  <2>2. \A q \in Procs : pc'[q] = "register" => pc[q] = "register" /\ job'[q] = job[q]
    BY <1>0, <1>8 DEF WriteMerkle, GoTo
  <2> QED
    BY <1>0, <1>8, <2>1, <2>2, QuietRegInv DEF WriteMerkle, GoTo, files, history
<1>9. CASE AppendReturns(p)
  <2>1. \A b \in blocks : b.id \in appended' => IsRegistered(b)
    BY <1>0, <1>9 DEF AppendReturns, RegInv, ReturningRegistered
  <2> QED
    BY <1>0, <1>9, <2>1, QuietRegInv DEF AppendReturns, Finish, GoTo, files
<1> QED
  BY <1>1, <1>2, <1>3, <1>4, <1>5, <1>6, <1>7, <1>8, <1>9

LEMMA BeginAppendRegInv ==
    ASSUME AllInv, RegInv, NEW p \in Procs, BeginAppend(p)
    PROVE  RegInv'
<1> USE DEF AllInv, TypeInv, TypeOK, RegInv
<1>1. PICK id \in BlockIds \ UsedIds, ls \in SUBSET (Learnings \ UsedLearnings) :
         job' = [job EXCEPT ![p] = JobOf("append", id, ls)]
  BY DEF BeginAppend
<1>2. /\ UNCHANGED <<blocks, reinf, appended, objects>>
      /\ pc[p] = "idle" /\ pc' = [pc EXCEPT ![p] = "lockIndex"]
  BY DEF BeginAppend, GoTo, files, history
<1>3. /\ job'[p].id = id /\ job'[p].args = ls
      /\ \A q \in Procs : q # p => job'[q] = job[q]
  BY <1>1 DEF JobOf
<1>4. \A b \in blocks : b.id # id /\ ls \cap b.learnings = {}
  BY DEF UsedIds, UsedLearnings
<1>5. \A q \in Procs : ls \cap job[q].args = {}
  BY DEF UsedLearnings
<1>6. NobodyRecords' /\ SnapsCurrent'
  BY <1>2, <1>3 DEF NobodyRecords, SnapsCurrent, RecordSteps
<1>7. ArgsDisjoint'
  BY <1>3, <1>5 DEF ArgsDisjoint
<1>8. BlocksOwn'
  BY <1>2, <1>3, <1>4 DEF BlocksOwn, OwnLearnings
<1>9. IdsUnwritten' /\ BlocksUnique'
  BY <1>2, <1>3, <1>4 DEF IdsUnwritten, BlocksUnique, Unwritten
<1>10. AppendedRegistered' /\ ReturningRegistered'
  BY <1>2, <1>3 DEF AppendedRegistered, ReturningRegistered, IsRegistered
<1> QED
  BY <1>6, <1>7, <1>8, <1>9, <1>10

LEMMA WriteBlockRegInv ==
    ASSUME AllInv, RegInv, NEW p \in Procs, WriteBlock(p)
    PROVE  RegInv'
<1> USE DEF AllInv, TypeInv, TypeOK, RegInv
<1> DEFINE own == OwnBlock(p)
<1>1. /\ UNCHANGED <<job, reinf, appended, objects>> /\ blocks' = blocks \cup {own}
      /\ pc[p] = "writeBlock" /\ pc' = [pc EXCEPT ![p] = "writeMerkle"]
  BY DEF WriteBlock, GoTo, history
<1>2. own.id = job[p].id /\ own.learnings = job[p].args /\ job[p].id # None
  BY <1>1 DEF OwnBlock, NewBlock, HasId, AppendSteps, IndexSteps
<1> HIDE DEF own
<1>3. \A q \in Procs : q # p => job[q].id # job[p].id
  BY <1>2 DEF LogInv, IdsUnique
<1>4. job[p].id \notin appended
  BY <1>1 DEF LogInv, IdsNew, NewSteps, AppendsIndexed
<1>5. \A b \in blocks : b.id # job[p].id
  BY <1>1 DEF IdsUnwritten, Unwritten
<1>6. NobodyRecords' /\ SnapsCurrent' /\ ArgsDisjoint'
  BY <1>1 DEF NobodyRecords, SnapsCurrent, ArgsDisjoint, RecordSteps
<1>7. BlocksOwn'
  <2>1. OwnLearnings(own)
    BY <1>2, <1>3 DEF OwnLearnings, ArgsDisjoint
  <2> QED
    BY <1>1, <2>1 DEF BlocksOwn, OwnLearnings
<1>8. IdsUnwritten'
  BY <1>1, <1>2, <1>3 DEF IdsUnwritten, Unwritten
<1>9. BlocksUnique'
  BY <1>1, <1>2, <1>5 DEF BlocksUnique
<1>10. AppendedRegistered' /\ ReturningRegistered'
  <2>1. AppendedRegistered'
    BY <1>1, <1>2, <1>4 DEF AppendedRegistered, IsRegistered
  <2>2. ReturningRegistered'
    BY <1>1, <1>2, <1>3 DEF ReturningRegistered, IsRegistered
  <2> QED
    BY <2>1, <2>2
<1> QED
  BY <1>6, <1>7, <1>8, <1>9, <1>10

(* A block without learnings has nothing to register.                      *)
LEMMA WriteIndexRegInv ==
    ASSUME AllInv, RegInv, NEW p \in Procs, WriteIndex(p)
    PROVE  RegInv'
<1> USE DEF AllInv, TypeInv, TypeOK
<1>1. UNCHANGED <<blocks, reinf, objects, job, appended>> /\ pc[p] = "writeIndex"
  BY DEF WriteIndex, history
<1>2. pc' = [pc EXCEPT ![p] = IF job[p].args = {} THEN "returnAppend" ELSE "readReinf"]
  BY DEF WriteIndex, GoTo
<1>3. ReturningRegistered'
  <2> SUFFICES ASSUME NEW q \in Procs, pc'[q] = "returnAppend",
                      NEW b \in blocks, b.id = job[q].id
               PROVE  IsRegistered(b)
    BY <1>1 DEF ReturningRegistered, IsRegistered
  <2>1. CASE q = p
    <3>1. b.learnings = {}
      BY <1>2, <2>1 DEF RegInv, BlocksOwn, OwnLearnings
    <3> QED
      BY <3>1 DEF IsRegistered
  <2>2. CASE q # p
    BY <1>2, <2>2 DEF RegInv, ReturningRegistered
  <2> QED
    BY <2>1, <2>2
<1>4. NobodyRecords' /\ SnapsCurrent' /\ ArgsDisjoint'
  BY <1>1, <1>2 DEF RegInv, NobodyRecords, SnapsCurrent, ArgsDisjoint, RecordSteps
<1>5. BlocksOwn' /\ IdsUnwritten' /\ BlocksUnique'
  BY <1>1, <1>2 DEF RegInv, BlocksOwn, OwnLearnings, IdsUnwritten, BlocksUnique, Unwritten
<1>6. AppendedRegistered'
  BY <1>1 DEF RegInv, AppendedRegistered, IsRegistered
<1> QED
  BY <1>3, <1>4, <1>5, <1>6 DEF RegInv

LEMMA ReadReinforcementsRegInv ==
    ASSUME AllInv, RegInv, NEW p \in Procs, ReadReinforcements(p)
    PROVE  RegInv'
<1> USE DEF AllInv, TypeInv, TypeOK, RegInv
<1>1. /\ UNCHANGED <<blocks, reinf, appended, objects>>
      /\ pc[p] = "readReinf" /\ pc' = [pc EXCEPT ![p] = "register"]
      /\ job' = [job EXCEPT ![p].snap = reinf]
  BY DEF ReadReinforcements, GoTo, files, history
<1>2. /\ job'[p].snap = reinf /\ \A q \in Procs : q # p => job'[q] = job[q]
      /\ \A q \in Procs : job'[q].id = job[q].id /\ job'[q].args = job[q].args
  BY <1>1 DEF Job
<1>3. NobodyRecords' /\ SnapsCurrent' /\ ArgsDisjoint'
  BY <1>1, <1>2 DEF NobodyRecords, SnapsCurrent, ArgsDisjoint, RecordSteps
<1>4. BlocksOwn' /\ IdsUnwritten' /\ BlocksUnique'
  BY <1>1, <1>2 DEF BlocksOwn, OwnLearnings, IdsUnwritten, BlocksUnique, Unwritten
<1>5. AppendedRegistered' /\ ReturningRegistered'
  BY <1>1, <1>2 DEF AppendedRegistered, ReturningRegistered, IsRegistered
<1> QED
  BY <1>3, <1>4, <1>5

(* What is registered: the block's own learnings, and what was before.     *)
LEMMA WriteReinforcementsRegInv ==
    ASSUME AllInv, RegInv, NEW p \in Procs, WriteReinforcements(p)
    PROVE  RegInv'
<1> USE DEF AllInv, TypeInv, TypeOK, RegInv
<1>1. /\ UNCHANGED <<blocks, objects, appended, job>>
      /\ pc[p] = "register" /\ job[p].args \subseteq objects
      /\ pc' = [pc EXCEPT ![p] = "returnAppend"]
      /\ reinf' = [l \in Learnings |->
                     IF l \in job[p].args THEN [Unregistered EXCEPT !.block = job[p].id]
                                          ELSE reinf[l]]
  BY DEF WriteReinforcements, GoTo, SnapsCurrent, history
<1>2. \A q \in Procs : q # p => pc[q] \notin {"register", "returnAppend"}
  BY <1>1 DEF LogInv, LockHeld, IndexSteps
<1>3. \A l \in Learnings : reinf'[l].block = IF l \in job[p].args THEN job[p].id ELSE reinf[l].block
  BY <1>1 DEF Unregistered
<1>4. AppendedRegistered' /\ ReturningRegistered'
  <2> SUFFICES ASSUME NEW b \in blocks, b.id \in appended \cup {job[p].id}, NEW l \in b.learnings
               PROVE  reinf'[l].block = b.id /\ l \in objects
    BY <1>1, <1>2 DEF AppendedRegistered, ReturningRegistered, IsRegistered
  <2>1. l \in Learnings /\ OwnLearnings(b)
    BY BlockFacts DEF BlocksOwn
  <2>2. CASE b.id = job[p].id
    BY <1>1, <1>3, <2>1, <2>2 DEF OwnLearnings
  <2>3. CASE b.id # job[p].id
    <3>1. b.id \in appended
      BY <1>1, <2>3
    <3>2. l \notin job[p].args
      BY <2>1, <2>3 DEF OwnLearnings
    <3> QED
      BY <1>3, <2>1, <3>1, <3>2 DEF AppendedRegistered, IsRegistered
  <2> QED
    BY <2>2, <2>3
<1>5. NobodyRecords' /\ SnapsCurrent' /\ ArgsDisjoint'
  BY <1>1, <1>2, BlockFacts DEF NobodyRecords, SnapsCurrent, ArgsDisjoint, RecordSteps
<1>6. BlocksOwn' /\ IdsUnwritten' /\ BlocksUnique'
  BY <1>1, BlockFacts
     DEF BlocksOwn, OwnLearnings, IdsUnwritten, BlocksUnique, Unwritten
<1> QED
  BY <1>4, <1>5, <1>6

LEMMA StepRegInv ==
    ASSUME AllInv, RegInv, Recorders = {}, [Next]_vars
    PROVE  RegInv'
<1>1. ASSUME NEW p \in Procs,
             Step(p) \/ Open(p) \/ Close(p) \/ BeginAppend(p) \/ BeginRecord(p) \/ Abandon(p)
      PROVE  RegInv'
  <2>1. ~MakeIndex(p) /\ ~MakeReinforcements(p)
    BY DEF AllInv, LogInv, LayoutDone, MakeIndex, MakeReinforcements
  <2> QED
    BY <1>1, <2>1, OtherStepsRegInv, BeginAppendRegInv, WriteBlockRegInv, WriteIndexRegInv,
       ReadReinforcementsRegInv, WriteReinforcementsRegInv DEF Step
<1>2. CASE UNCHANGED vars
  BY <1>2 DEF vars, files, history, RegInv, NobodyRecords, SnapsCurrent, ArgsDisjoint,
              BlocksOwn, OwnLearnings, IdsUnwritten, BlocksUnique, AppendedRegistered,
              ReturningRegistered, IsRegistered
<1> QED
  BY <1>1, <1>2 DEF Next

(* What holds of a ledger that exists and that nobody records to.          *)
QuietInv == Quiet => RegInv

LEMMA QuietInvHolds ==
    Spec => [](TypeInv /\ ChainInv /\ ExistingLogInv /\ QuietInv)
<1>1. Init => QuietInv
  BY InitRegInv DEF QuietInv
<1>2. TypeInv /\ ChainInv /\ ExistingLogInv /\ QuietInv /\ [Next]_vars => QuietInv'
  <2>1. [Next]_vars => (Quiet <=> Quiet')
    BY SetupFixed DEF Quiet, Fresh, Recorders
  <2>2. Quiet /\ TypeInv /\ ChainInv /\ ExistingLogInv => AllInv /\ Recorders = {}
    BY DEF Quiet, ExistingLogInv, AllInv
  <2> QED
    BY <2>1, <2>2, StepRegInv DEF QuietInv
<1> QED
  BY <1>1, <1>2, LogInvHolds, PTL DEF Spec

(* When append_block has returned Ok its learnings are registered under    *)
(* their block and their objects stored, through every interleaving of     *)
(* appends and every crash, as long as nobody records (store.rs:155-195).  *)
THEOREM AppendsStayRegistered == Spec => []AppendsAreRegistered
<1>1. QuietInv => AppendsAreRegistered
  BY DEF QuietInv, Quiet, RegInv, AppendedRegistered, IsRegistered, AppendsAreRegistered
<1> QED
  BY <1>1, QuietInvHolds, PTL

------------------------------------------------------------------------------
(* Records without appends.  Who records holds the lock of the file it     *)
(* rewrites, so that its copy is the file.  In a directory that is being   *)
(* laid out there is nothing to record yet.                                *)

NobodyAppends == \A p \in Procs : pc[p] \notin AppendSteps
RecordLockHeld == \A p \in Procs : pc[p] \in RecordSteps => lock["reinforcements"] = p
RecordsCurrent == \A p \in Procs : pc[p] = "writeRecord" => job[p].snap = reinf
RecordsSomething == \A p \in Procs : pc[p] \in RecordSteps \cup {"lockReinf"} => job[p].args # {}

NothingRegistered == \A l \in Learnings : reinf[l] = Unregistered
FreshIsEmpty ==
    Fresh => NothingRegistered /\ \A p \in Procs : pc[p] # "writeRecord"

Exact ==
    \A l \in Learnings :
        /\ reinf[l].outcomes =
              acked[l].outcomes + unheard[l].outcomes + Unreturned(l, "outcome")
        /\ reinf[l].corroborations =
              acked[l].corroborations + unheard[l].corroborations
                + Unreturned(l, "corroboration")

CountInv == /\ NobodyAppends /\ RecordLockHeld /\ RecordsCurrent /\ RecordsSomething
            /\ FreshIsEmpty /\ Exact

LEMMA InitCountInv == Init => CountInv
<1> SUFFICES ASSUME Init PROVE CountInv
  OBVIOUS
<1>1. Fresh => Seed = {}
  BY InitSetup, LedgerAssumption DEF Fresh, Seed
<1>2. FreshIsEmpty /\ Exact
  BY <1>1 DEF Init, FreshIsEmpty, NothingRegistered, Exact, Unregistered, Unreturned
<1>3. NobodyAppends /\ RecordLockHeld /\ RecordsCurrent /\ RecordsSomething
  BY DEF Init, NobodyAppends, RecordLockHeld, RecordsCurrent, RecordsSomething, AppendSteps,
         IndexSteps, RecordSteps
<1> QED
  BY <1>2, <1>3 DEF CountInv

LEMMA QuietCountInv ==
    ASSUME CountInv, UNCHANGED <<reinf, acked, unheard, setup>>,
           \A q \in Procs :
              /\ pc'[q] \notin AppendSteps
              /\ pc'[q] \in RecordSteps => lock'["reinforcements"] = q
              /\ pc'[q] = "writeRecord" =>
                    job'[q].snap = reinf /\ (pc[q] = "writeRecord" \/ ~Fresh)
              /\ pc'[q] \in RecordSteps \cup {"lockReinf"} => job'[q].args # {}
              /\ pc[q] = "returnRecord" \/ pc'[q] = "returnRecord" =>
                    pc'[q] = pc[q] /\ job'[q] = job[q]
    PROVE  CountInv'
<1>1. \A l \in Learnings, kind \in Update : Unreturned(l, kind)' = Unreturned(l, kind)
  BY DEF Unreturned
<1>2. Exact'
  BY <1>1 DEF CountInv, Exact, Update
<1> QED
  BY <1>2 DEF CountInv, NobodyAppends, RecordLockHeld, RecordsCurrent, RecordsSomething,
              FreshIsEmpty, NothingRegistered, Fresh

(* The only update that is written and not returned is that of the lock's  *)
(* holder.                                                                 *)
LEMMA OneUnreturned ==
    ASSUME RecordLockHeld, NEW p \in Procs, pc[p] \in RecordSteps, NEW l, NEW kind
    PROVE  Unreturned(l, kind) =
              IF pc[p] = "returnRecord" /\ job[p].op = kind /\ l \in job[p].args THEN 1 ELSE 0
<1>1. \A q \in Procs : q # p => pc[q] \notin RecordSteps
  BY DEF RecordLockHeld
<1> QED
  BY <1>1 DEF Unreturned, RecordSteps

LEMMA BumpCounts ==
    /\ \A r \in Reinforcement \cup Acked :
          /\ Bump(r, "outcome").outcomes = r.outcomes + 1
          /\ Bump(r, "outcome").corroborations = r.corroborations
          /\ Bump(r, "corroboration").outcomes = r.outcomes
          /\ Bump(r, "corroboration").corroborations = r.corroborations + 1
    /\ \A r \in Reinforcement \cup Acked : r.outcomes \in Nat /\ r.corroborations \in Nat
BY DEF Bump, Reinforcement, Acked

LEMMA WriteRecordCountInv ==
    ASSUME TypeInv, CountInv, NEW p \in Procs, WriteRecord(p)
    PROVE  CountInv'
<1> USE DEF TypeInv, TypeOK, CountInv
<1>1. /\ pc[p] = "writeRecord" /\ job[p].snap = reinf
      /\ UNCHANGED <<setup, job, lock, acked, unheard>>
      /\ pc' = [pc EXCEPT ![p] = "returnRecord"] /\ job[p].op \in Update
      /\ reinf' = [l \in Learnings |->
                     IF l \in job[p].args THEN Bump(reinf[l], job[p].op) ELSE reinf[l]]
  BY DEF WriteRecord, RecordsCurrent, GoTo, HasUpdate, RecordSteps, history
<1>2. \A q \in Procs : q # p => pc[q] \notin RecordSteps
  BY <1>1 DEF RecordLockHeld, RecordSteps
<1>3. Exact'
  <2> SUFFICES ASSUME NEW l \in Learnings
               PROVE  /\ reinf'[l].outcomes = acked[l].outcomes + unheard[l].outcomes
                                                 + Unreturned(l, "outcome")'
                      /\ reinf'[l].corroborations =
                            acked[l].corroborations + unheard[l].corroborations
                              + Unreturned(l, "corroboration")'
    BY <1>1 DEF Exact
  <2>1. /\ reinf[l] \in Reinforcement /\ acked[l] \in Acked /\ unheard[l] \in Acked
    BY DEF Reinforcements
  <2>2. Unreturned(l, "outcome") = 0 /\ Unreturned(l, "corroboration") = 0
    BY <1>1, OneUnreturned DEF RecordSteps
  <2>3. /\ reinf[l].outcomes = acked[l].outcomes + unheard[l].outcomes
        /\ reinf[l].corroborations = acked[l].corroborations + unheard[l].corroborations
    BY <2>1, <2>2, BumpCounts DEF Exact
  <2>4. \A kind \in Update :
           Unreturned(l, kind)' = IF job[p].op = kind /\ l \in job[p].args THEN 1 ELSE 0
    BY <1>1, <1>2 DEF Unreturned, RecordSteps
  <2>5. CASE l \notin job[p].args
    BY <1>1, <2>1, <2>3, <2>4, <2>5, BumpCounts DEF Update
  <2>6. CASE l \in job[p].args
    BY <1>1, <2>1, <2>3, <2>4, <2>6, BumpCounts DEF Update
  <2> QED
    BY <2>5, <2>6
<1>4. RecordLockHeld' /\ RecordsCurrent'
  BY <1>1, <1>2 DEF RecordLockHeld, RecordsCurrent, RecordSteps
<1>5. NobodyAppends' /\ RecordsSomething'
  BY <1>1 DEF NobodyAppends, RecordsSomething, AppendSteps, IndexSteps, RecordSteps
<1>6. FreshIsEmpty'
  BY <1>1 DEF FreshIsEmpty, Fresh
<1> QED
  BY <1>3, <1>4, <1>5, <1>6

(* The update moves from what is written and not returned to what was      *)
(* acknowledged, or to what nobody heard of.                               *)
LEMMA LeaveReturnCountInv ==
    ASSUME TypeInv, CountInv, NEW p \in Procs, pc[p] = "returnRecord",
           RecordReturns(p) \/ Abandon(p)
    PROVE  CountInv'
<1> USE DEF TypeInv, TypeOK, CountInv
<1>1. /\ UNCHANGED <<setup, reinf>> /\ job[p].op \in Update
      /\ pc' = [pc EXCEPT ![p] = pc'[p]] /\ pc'[p] \in {"idle", "closed"}
      /\ job' = [job EXCEPT ![p] = NoJob]
      /\ \/ acked' = AndThatOf(p, acked) /\ unheard' = unheard
         \/ acked' = acked /\ unheard' = AndThatOf(p, unheard)
  BY DEF RecordReturns, Abandon, Finish, GoTo, HasUpdate, RecordSteps, files
<1>2. \A q \in Procs : q # p => pc[q] \notin RecordSteps
  BY DEF RecordLockHeld, RecordSteps
<1>3. Exact'
  <2> SUFFICES ASSUME NEW l \in Learnings
               PROVE  /\ reinf[l].outcomes = acked'[l].outcomes + unheard'[l].outcomes
                                                + Unreturned(l, "outcome")'
                      /\ reinf[l].corroborations =
                            acked'[l].corroborations + unheard'[l].corroborations
                              + Unreturned(l, "corroboration")'
    BY <1>1 DEF Exact
  <2>1. /\ reinf[l] \in Reinforcement /\ acked[l] \in Acked /\ unheard[l] \in Acked
    BY DEF Reinforcements
  <2>2. \A kind \in Update :
           /\ Unreturned(l, kind) = IF job[p].op = kind /\ l \in job[p].args THEN 1 ELSE 0
           /\ Unreturned(l, kind)' = 0
    <3>1. \A q \in Procs : pc'[q] # "returnRecord"
      BY <1>1, <1>2 DEF RecordSteps
    <3> QED
      BY <3>1, OneUnreturned DEF RecordSteps, Unreturned
  <2>3. /\ reinf[l].outcomes = acked[l].outcomes + unheard[l].outcomes + Unreturned(l, "outcome")
        /\ reinf[l].corroborations = acked[l].corroborations + unheard[l].corroborations
                                       + Unreturned(l, "corroboration")
    BY DEF Exact
  <2>4. CASE l \notin job[p].args
    BY <1>1, <2>1, <2>2, <2>3, <2>4, BumpCounts DEF Update, AndThatOf
  <2>5. CASE l \in job[p].args
    <3> DEFINE a == acked[l]
               u == unheard[l]
    <3>4. /\ a.outcomes \in Nat /\ a.corroborations \in Nat
          /\ u.outcomes \in Nat /\ u.corroborations \in Nat
          /\ Bump(a, "outcome").outcomes = a.outcomes + 1
          /\ Bump(a, "outcome").corroborations = a.corroborations
          /\ Bump(u, "outcome").outcomes = u.outcomes + 1
          /\ Bump(u, "outcome").corroborations = u.corroborations
      BY <2>1, BumpCounts
    <3>5. /\ Bump(a, "corroboration").outcomes = a.outcomes
          /\ Bump(a, "corroboration").corroborations = a.corroborations + 1
          /\ Bump(u, "corroboration").outcomes = u.outcomes
          /\ Bump(u, "corroboration").corroborations = u.corroborations + 1
      BY <2>1, BumpCounts
    <3>1. \/ acked'[l] = Bump(acked[l], job[p].op) /\ unheard'[l] = unheard[l]
          \/ acked'[l] = acked[l] /\ unheard'[l] = Bump(unheard[l], job[p].op)
      BY <1>1, <2>5 DEF AndThatOf
    <3>0. /\ acked'[l].outcomes \in Nat /\ acked'[l].corroborations \in Nat
          /\ unheard'[l].outcomes \in Nat /\ unheard'[l].corroborations \in Nat
      BY <1>1, <2>1, <3>1, BumpType, BumpCounts
    <3>2. CASE job[p].op = "outcome"
      <4>1. /\ Unreturned(l, "outcome") = 1 /\ Unreturned(l, "corroboration") = 0
            /\ Unreturned(l, "outcome")' = 0 /\ Unreturned(l, "corroboration")' = 0
        BY <2>2, <2>5, <3>2 DEF Update
      <4>2. /\ acked'[l].outcomes + unheard'[l].outcomes
                  = acked[l].outcomes + unheard[l].outcomes + 1
            /\ acked'[l].corroborations + unheard'[l].corroborations
                  = acked[l].corroborations + unheard[l].corroborations
        <5>1. CASE acked'[l] = Bump(acked[l], "outcome") /\ unheard'[l] = unheard[l]
          BY <5>1, <3>4, <3>5
        <5>2. CASE acked'[l] = acked[l] /\ unheard'[l] = Bump(unheard[l], "outcome")
          BY <5>2, <3>4, <3>5
        <5> QED
          BY <3>1, <3>2, <5>1, <5>2
      <4> QED
        BY <2>1, <2>3, <3>0, <4>1, <4>2, BumpCounts
    <3>3. CASE job[p].op = "corroboration"
      <4>1. /\ Unreturned(l, "outcome") = 0 /\ Unreturned(l, "corroboration") = 1
            /\ Unreturned(l, "outcome")' = 0 /\ Unreturned(l, "corroboration")' = 0
        BY <2>2, <2>5, <3>3 DEF Update
      <4>2. /\ acked'[l].outcomes + unheard'[l].outcomes
                  = acked[l].outcomes + unheard[l].outcomes
            /\ acked'[l].corroborations + unheard'[l].corroborations
                  = acked[l].corroborations + unheard[l].corroborations + 1
        <5>1. CASE acked'[l] = Bump(acked[l], "corroboration") /\ unheard'[l] = unheard[l]
          BY <5>1, <3>4, <3>5
        <5>2. CASE acked'[l] = acked[l] /\ unheard'[l] = Bump(unheard[l], "corroboration")
          BY <5>2, <3>4, <3>5
        <5> QED
          BY <3>1, <3>3, <5>1, <5>2
      <4> QED
        BY <2>1, <2>3, <3>0, <4>1, <4>2, BumpCounts
    <3> QED
      BY <1>1, <3>2, <3>3 DEF Update
  <2> QED
    BY <2>4, <2>5
<1>4. RecordLockHeld' /\ RecordsCurrent'
  BY <1>1, <1>2 DEF RecordLockHeld, RecordsCurrent, RecordSteps
<1>5. NobodyAppends' /\ RecordsSomething'
  BY <1>1 DEF NobodyAppends, RecordsSomething, AppendSteps, IndexSteps, RecordSteps
<1>6. FreshIsEmpty'
  BY <1>1 DEF FreshIsEmpty, Fresh, NothingRegistered
<1> QED
  BY <1>3, <1>4, <1>5, <1>6

(* A default is written over the file only where nothing is registered.    *)
LEMMA MakeReinforcementsCountInv ==
    ASSUME TypeInv, CountInv, ExistingLogInv, NEW p \in Procs, MakeReinforcements(p)
    PROVE  CountInv'
<1> USE DEF TypeInv, TypeOK, CountInv
<1>1. Fresh
  BY DEF ExistingLogInv, LogInv, LayoutDone, MakeReinforcements
<1>2. /\ pc[p] = "mkReinf" /\ UNCHANGED <<acked, unheard, setup, lock, job>>
      /\ pc' = [pc EXCEPT ![p] = "idle"]
      /\ reinf' = [l \in Learnings |-> Unregistered]
  BY DEF MakeReinforcements, GoTo, history
<1>3. reinf' = reinf
  BY <1>1, <1>2 DEF FreshIsEmpty, NothingRegistered, Reinforcements
<1> QED
  BY <1>2, <1>3, QuietCountInv
     DEF NobodyAppends, RecordLockHeld, RecordsCurrent, RecordsSomething, AppendSteps,
         IndexSteps, RecordSteps

LEMMA ReadRecordCountInv ==
    ASSUME TypeInv, CountInv, NEW p \in Procs, ReadRecord(p)
    PROVE  CountInv'
<1> USE DEF TypeInv, TypeOK, CountInv
<1>1. UNCHANGED <<reinf, acked, unheard, setup>> /\ pc[p] = "readRecord"
  BY DEF ReadRecord, files, history
<1>2. /\ \A q \in Procs : pc[q] \notin AppendSteps
      /\ \A q \in Procs : pc[q] \in RecordSteps => lock["reinforcements"] = q
      /\ \A q \in Procs : q # p => pc[q] \notin RecordSteps
  BY <1>1 DEF NobodyAppends, RecordLockHeld, RecordSteps
<1>3. CASE job[p].args \subseteq Registered(reinf)
  <2>1. /\ job' = [job EXCEPT ![p].snap = reinf] /\ lock' = lock
        /\ pc' = [pc EXCEPT ![p] = "writeRecord"]
    BY <1>3 DEF ReadRecord, GoTo
  <2>2. /\ job'[p].snap = reinf /\ job'[p].args = job[p].args
        /\ \A q \in Procs : q # p => job'[q] = job[q]
    BY <2>1 DEF Job
  <2>3. ~Fresh
    <3>1. job[p].args # {} /\ job[p].args \subseteq Learnings
      BY <1>1 DEF RecordsSomething, RecordSteps, Job
    <3> QED
      BY <1>3, <3>1 DEF FreshIsEmpty, NothingRegistered, Registered, Unregistered
  <2> QED
    BY <1>1, <1>2, <2>1, <2>2, <2>3, QuietCountInv
       DEF AppendSteps, IndexSteps, RecordSteps, RecordsSomething, RecordsCurrent
<1>4. CASE ~(job[p].args \subseteq Registered(reinf))
  <2>1. job' = [job EXCEPT ![p] = NoJob] /\ pc' = [pc EXCEPT ![p] = "idle"]
    BY <1>4 DEF ReadRecord, Finish, GoTo
  <2>2. \A q \in Procs : q # p => job'[q] = job[q] /\ pc'[q] = pc[q]
    BY <2>1
  <2> QED
    BY <1>1, <1>2, <2>1, <2>2, QuietCountInv
       DEF AppendSteps, IndexSteps, RecordSteps, RecordsSomething
<1> QED
  BY <1>3, <1>4

LEMMA BeginRecordCountInv ==
    ASSUME TypeInv, CountInv, NEW p \in Procs, BeginRecord(p)
    PROVE  CountInv'
<1> USE DEF TypeInv, TypeOK, CountInv
<1>1. PICK l \in Learnings, kind \in Update :
         job' = [job EXCEPT ![p] = JobOf(kind, None, {l})]
  BY DEF BeginRecord
<1>2. /\ UNCHANGED <<reinf, acked, unheard, setup, lock>>
      /\ pc[p] = "idle" /\ pc' = [pc EXCEPT ![p] = "lockReinf"]
  BY DEF BeginRecord, GoTo, files, history
<1>3. job'[p].args # {} /\ \A q \in Procs : q # p => job'[q] = job[q]
  BY <1>1 DEF JobOf
<1> QED
  BY <1>2, <1>3, QuietCountInv
     DEF NobodyAppends, RecordLockHeld, RecordsCurrent, RecordsSomething, AppendSteps,
         IndexSteps, RecordSteps

LEMMA OtherStepsCountInv ==
    ASSUME TypeInv, CountInv, NEW p \in Procs,
           \/ Open(p) \/ MakeIndex(p) \/ CheckReinforcements(p) \/ Close(p)
           \/ LockReinforcements(p) \/ LockTimeout(p)
           \/ Abandon(p) /\ pc[p] # "returnRecord"
    PROVE  CountInv'
<1> USE DEF TypeInv, TypeOK
<1>1. /\ \A q \in Procs : pc[q] \notin AppendSteps
      /\ \A q \in Procs : pc[q] \in RecordSteps => lock["reinforcements"] = q
      /\ \A q \in Procs : pc[q] = "writeRecord" => job[q].snap = reinf
      /\ \A q \in Procs : pc[q] \in RecordSteps \cup {"lockReinf"} => job[q].args # {}
      /\ NoProc \notin Procs
  BY LedgerAssumption
     DEF CountInv, NobodyAppends, RecordLockHeld, RecordsCurrent, RecordsSomething
<1> USE DEF AppendSteps, IndexSteps, RecordSteps
<1>2. CASE Open(p) \/ MakeIndex(p) \/ CheckReinforcements(p) \/ Close(p)
  BY <1>1, <1>2, QuietCountInv
     DEF Open, MakeIndex, CheckReinforcements, Close, GoTo, files, history
<1>3. CASE LockReinforcements(p)
  BY <1>1, <1>3, QuietCountInv DEF LockReinforcements, Acquire, GoTo, files, history
<1>4. CASE LockTimeout(p)
  BY <1>1, <1>4, QuietCountInv DEF LockTimeout, Finish, GoTo, files, history
<1>5. CASE Abandon(p) /\ pc[p] # "returnRecord"
  <2>1. \A q \in Procs : q # p /\ pc[q] \in RecordSteps => lock'["reinforcements"] = q
    BY <1>1, <1>5 DEF Abandon, Release
  <2> QED
    BY <1>1, <1>5, <2>1, QuietCountInv DEF Abandon, Finish, GoTo, files, history
<1> QED
  BY <1>2, <1>3, <1>4, <1>5

LEMMA StepCountInv ==
    ASSUME TypeInv, ExistingLogInv, CountInv, Appenders = {}, [Next]_vars
    PROVE  CountInv'
<1>1. ASSUME NEW p \in Procs,
             Step(p) \/ Open(p) \/ Close(p) \/ BeginAppend(p) \/ BeginRecord(p) \/ Abandon(p)
      PROVE  CountInv'
  <2>1. /\ ~BeginAppend(p) /\ ~LockIndex(p)
        /\ ~ReadIndex(p) /\ ~WriteBlock(p) /\ ~WriteMerkle(p) /\ ~WriteIndex(p)
        /\ ~ReadReinforcements(p) /\ ~StoreLearning(p) /\ ~WriteReinforcements(p)
        /\ ~AppendReturns(p)
    BY DEF CountInv, NobodyAppends, AppendSteps, IndexSteps, BeginAppend, LockIndex, Acquire,
           ReadIndex, WriteBlock, WriteMerkle, WriteIndex, ReadReinforcements, StoreLearning,
           WriteReinforcements, AppendReturns
  <2>2. RecordReturns(p) => pc[p] = "returnRecord"
    BY DEF RecordReturns
  <2> QED
    BY <1>1, <2>1, <2>2, OtherStepsCountInv, BeginRecordCountInv, ReadRecordCountInv,
       WriteRecordCountInv, LeaveReturnCountInv, MakeReinforcementsCountInv DEF Step
<1>2. CASE UNCHANGED vars
  BY <1>2 DEF vars, files, history, CountInv, NobodyAppends, RecordLockHeld, RecordsCurrent,
              RecordsSomething, FreshIsEmpty, NothingRegistered, Exact, Unreturned, Fresh
<1> QED
  BY <1>1, <1>2 DEF Next

(* As long as nobody appends, a counter is what was acknowledged, and one  *)
(* more for each writer that died between the rename and its return, and   *)
(* for the one that is there now: no update is lost or counted twice, also *)
(* while the ledger is being laid out (store.rs:197-287).                  *)
THEOREM CountersStayExact == Spec => []CountersAreExact
<1> DEFINE Inv == Appenders = {} => CountInv
<1>1. Init => Inv
  BY InitCountInv
<1>2. TypeInv /\ ChainInv /\ ExistingLogInv /\ Inv /\ [Next]_vars => Inv'
  <2>1. [Next]_vars => (Appenders' = Appenders)
    BY SetupFixed DEF Appenders
  <2> QED
    BY <2>1, StepCountInv
<1>3. Inv => CountersAreExact
  BY DEF CountInv, Exact, CountersAreExact
<1> QED
  BY <1>1, <1>2, <1>3, LogInvHolds, PTL DEF Spec

------------------------------------------------------------------------------
(* Retrieval: types. *)

LEMMA IndexTypes ==
    ASSUME TypeOK
    PROVE  IndexHashes(index) \subseteq Hash /\ IndexIds(index) \subseteq BlockIds
<1>1. index.blocks \in Seq(Entry)
  BY DEF TypeOK, Index
<1>2. \A i \in DOMAIN index.blocks : index.blocks[i] \in Entry
  BY <1>1
<1>3. \A i \in DOMAIN index.blocks : index.blocks[i].hash \in Hash /\ index.blocks[i].id \in BlockIds
  BY <1>2 DEF Entry
<1> QED
  BY <1>3 DEF IndexHashes, IndexIds

LEMMA NoSnapshotType == NoSnapshot \in Snapshot
BY DEF NoSnapshot, Snapshot

(* Whoever is about to use a snapshot's position has one that exists.      *)
PositionsExist ==
    /\ \A d \in Dreamers : dream[d].at <= Len(snapshots)
    /\ \A s \in Searchers : search[s].at <= Len(snapshots)
RetrievalType == RetrievalTypeOK /\ PositionsExist

LEMMA DreamTypes ==
    ASSUME TypeOK, RetrievalType, NEW d \in Dreamers,
           \/ DreamReadIndex(d) \/ DreamReadReinforcements(d) \/ DreamWriteSnapshot(d)
           \/ AdvanceCurrent(d) \/ DreamStops(d)
    PROVE  RetrievalType'
<1> USE DEF RetrievalType, RetrievalTypeOK
<1>0. /\ NoDream \in Dream /\ dream[d] \in Dream /\ dream[d].snap \in Snapshot
      /\ NoDream.at = 0 /\ Len(snapshots) \in Nat
      /\ \A s \in Searchers : search[s].at \in Nat
      /\ \A e \in Dreamers : dream[e].at \in Nat
  BY NoSnapshotType DEF NoDream, Dream, Search
<1>1. CASE DreamReadIndex(d)
  <2> DEFINE snap == [NoSnapshot EXCEPT !.covers = IndexHashes(index),
                                        !.racing = IndexIds(index) \ appended]
             read == [NoDream EXCEPT !.step = "readReinf", !.snap = snap]
  <2>1. snap \in Snapshot
    BY IndexTypes DEF NoSnapshot, Snapshot
  <2>2. dream' = [dream EXCEPT ![d] = read]
    BY <1>1 DEF DreamReadIndex
  <2> HIDE DEF snap
  <2>3. read \in Dream /\ read.at = 0
    BY <2>1 DEF NoDream, Dream
  <2> HIDE DEF read
  <2> QED
    BY <1>0, <1>1, <2>2, <2>3 DEF DreamReadIndex, PositionsExist
<1>2. CASE DreamReadReinforcements(d)
  <2> DEFINE read == [dream[d] EXCEPT !.step = "writeSnapshot", !.snap.nodes = Registered(reinf)]
  <2>1. read \in Dream /\ read.at = dream[d].at
    BY <1>0 DEF Dream, Snapshot, Registered
  <2>2. dream' = [dream EXCEPT ![d] = read]
    BY <1>2 DEF DreamReadReinforcements
  <2> HIDE DEF read
  <2> QED
    BY <1>0, <1>2, <2>1, <2>2 DEF DreamReadReinforcements, PositionsExist
<1>3. CASE DreamWriteSnapshot(d)
  <2>1. PICK es \in TopEntries(dream[d].snap.nodes) :
           snapshots' = Append(snapshots, [dream[d].snap EXCEPT !.entries = es])
    BY <1>3 DEF DreamWriteSnapshot
  <2>2. es \subseteq Learnings
    BY <1>0, <2>1 DEF TopEntries, kSubset, Snapshot
  <2>3. [dream[d].snap EXCEPT !.entries = es] \in Snapshot
    BY <1>0, <2>2 DEF Snapshot
  <2>4. snapshots' \in Seq(Snapshot) /\ Len(snapshots') = Len(snapshots) + 1
    BY <2>1, <2>3, AppendProperties
  <2> DEFINE n == Len(snapshots')
             wrote == [dream[d] EXCEPT !.step = "advance", !.at = n]
  <2>5. dream' = [dream EXCEPT ![d] = wrote]
    BY <1>3 DEF DreamWriteSnapshot
  <2>6. n \in Nat /\ n = Len(snapshots) + 1
    BY <1>0, <2>4
  <2> HIDE DEF n
  <2>7. wrote \in Dream /\ wrote.at = n
    BY <1>0, <2>6 DEF Dream
  <2> HIDE DEF wrote
  <2>8. dream' \in [Dreamers -> Dream]
    BY <2>5, <2>7
  <2>9. PositionsExist'
    <3>1. \A e \in Dreamers : dream'[e].at <= n
      BY <1>0, <2>5, <2>6, <2>7 DEF PositionsExist
    <3>2. \A s \in Searchers : search'[s].at <= n
      BY <1>0, <1>3, <2>6 DEF DreamWriteSnapshot, PositionsExist
    <3> QED
      BY <3>1, <3>2 DEF PositionsExist, n
  <2>10. current' \in 0 .. Len(snapshots') /\ search' = search
    BY <1>3, <1>0, <2>4 DEF DreamWriteSnapshot
  <2> QED
    BY <2>4, <2>8, <2>9, <2>10
<1>4. CASE AdvanceCurrent(d)
  BY <1>0, <1>4 DEF AdvanceCurrent, PositionsExist
<1>5. CASE DreamStops(d)
  BY <1>0, <1>5 DEF DreamStops, PositionsExist
<1> QED
  BY <1>1, <1>2, <1>3, <1>4, <1>5

LEMMA SearchTypes ==
    ASSUME TypeOK, RetrievalType, NEW s \in Searchers,
           BeginSearch(s) \/ ReadCurrent(s) \/ SearchReadReinforcements(s) \/ Answer(s)
    PROVE  RetrievalType'
<1> USE DEF RetrievalType, RetrievalTypeOK
<1>0. /\ search[s] \in Search /\ Len(snapshots) \in Nat /\ current \in Nat
      /\ appended \subseteq BlockIds /\ Registered(reinf) \subseteq Learnings
  BY DEF TypeOK, Registered
<1>1. ASSUME NEW x \in Search, x.at \in 0 .. Len(snapshots),
             search' = [search EXCEPT ![s] = x], UNCHANGED <<snapshots, current, dream>>
      PROVE  RetrievalType'
  <2>1. \A t \in Searchers : search'[t].at <= Len(snapshots)
    BY <1>0, <1>1 DEF PositionsExist
  <2> QED
    BY <1>1, <2>1 DEF PositionsExist
<1>2. CASE BeginSearch(s)
  <2> DEFINE x == [NoSearch EXCEPT !.step = "readCurrent", !.known = appended]
  <2>1. x \in Search /\ x.at = 0 /\ search' = [search EXCEPT ![s] = x]
    BY <1>0, <1>2 DEF BeginSearch, NoSearch, Search
  <2> HIDE DEF x
  <2>2. x.at \in 0 .. Len(snapshots) /\ UNCHANGED <<snapshots, current, dream>>
    BY <1>0, <1>2, <2>1 DEF BeginSearch
  <2> QED
    BY <1>1, <2>1, <2>2
<1>3. CASE ReadCurrent(s)
  <2> DEFINE x == [search[s] EXCEPT !.step = "readReinf", !.at = current]
  <2>1. x \in Search /\ x.at = current /\ search' = [search EXCEPT ![s] = x]
    BY <1>0, <1>3 DEF ReadCurrent, Search
  <2> HIDE DEF x
  <2> QED
    BY <1>1, <1>3, <2>1 DEF ReadCurrent
<1>4. CASE SearchReadReinforcements(s)
  <2> DEFINE x == [search[s] EXCEPT !.step = "readIndex", !.seen = Registered(reinf)]
  <2>1. x \in Search /\ x.at = search[s].at /\ search' = [search EXCEPT ![s] = x]
    BY <1>0, <1>4 DEF SearchReadReinforcements, Search
  <2>2. x.at \in 0 .. Len(snapshots)
    BY <1>0, <2>1 DEF Search, PositionsExist
  <2> HIDE DEF x
  <2> QED
    BY <1>1, <1>4, <2>1, <2>2 DEF SearchReadReinforcements
<1>5. CASE Answer(s)
  <2> DEFINE spectral == /\ search[s].at # 0
                         /\ UncoveredBlocks(snapshots[search[s].at]) = {}
             m == IF spectral THEN "spectral" ELSE "bm25"
  <2>1. PICK found \in Rankings(s, spectral) :
           search' = [search EXCEPT ![s].step = "answered", ![s].found = found, ![s].mode = m]
    BY <1>5 DEF Answer
  <2>2. found \in SUBSET Learnings
    BY <1>0, <2>1 DEF Rankings, Search
  <2> DEFINE x == [search[s] EXCEPT !.step = "answered", !.found = found, !.mode = m]
  <2>3. m \in {"spectral", "bm25"}
    OBVIOUS
  <2>4. search' = [search EXCEPT ![s] = x]
    BY <1>0, <2>1
  <2> HIDE DEF m
  <2>5. x \in Search /\ x.at = search[s].at
    BY <1>0, <2>2, <2>3 DEF Search
  <2>6. x.at \in 0 .. Len(snapshots)
    BY <1>0, <2>5 DEF Search, PositionsExist
  <2> HIDE DEF x
  <2> QED
    BY <1>1, <1>5, <2>4, <2>5, <2>6 DEF Answer
<1> QED
  BY <1>2, <1>3, <1>4, <1>5

LEMMA InitTypes == RetrievalInit => RetrievalType
<1> SUFFICES ASSUME RetrievalInit PROVE RetrievalType
  OBVIOUS
<1>1. /\ NoDream \in Dream /\ NoSearch \in Search
      /\ NoDream.at = 0 /\ NoSearch.at = 0
  BY NoSnapshotType DEF NoDream, Dream, NoSearch, Search
<1>2. snapshots \in Seq(Snapshot) /\ Len(snapshots) = 0 /\ current = 0
  BY DEF RetrievalInit
<1>3. dream \in [Dreamers -> Dream] /\ search \in [Searchers -> Search]
  BY <1>1 DEF RetrievalInit
<1>4. /\ \A d \in Dreamers : dream[d].at = 0
      /\ \A s \in Searchers : search[s].at = 0
  BY <1>1 DEF RetrievalInit
<1>5. PositionsExist
  BY <1>2, <1>4 DEF PositionsExist
<1> QED
  BY <1>2, <1>3, <1>5 DEF RetrievalType, RetrievalTypeOK

(* Every step is one of the ledger's or leaves the ledger alone.           *)
LEMMA RetrievalStepsLedger == [RetrievalNext]_allVars => [Next]_vars
BY DEF RetrievalNext, allVars, DreamReadIndex, DreamReadReinforcements, DreamWriteSnapshot,
       AdvanceCurrent, DreamStops, BeginSearch, ReadCurrent, SearchReadReinforcements, Answer

LEMMA NextTypes == TypeOK /\ RetrievalType /\ [RetrievalNext]_allVars => RetrievalType'
<1>1. RetrievalType /\ UNCHANGED retrieval => RetrievalType'
  BY DEF retrieval, RetrievalType, RetrievalTypeOK, PositionsExist
<1> QED
  BY <1>1, DreamTypes, SearchTypes DEF RetrievalNext, allVars

------------------------------------------------------------------------------
(* What a pass claims.  The hash of a block tells its uuid, so a hash read *)
(* from the index is that of a block that was appended by then, or whose   *)
(* append_block was under way.                                             *)

BlocksHashed == \A b \in blocks : b.hash = ComputeBlockHash(b.id, b.parent, b.learnings)
ClaimsAppended(snap) == \A h \in snap.covers : h[1] \in snap.racing \cup appended
ClaimsHeld(snap) ==
    \A b \in blocks : b.hash \in snap.covers /\ b.id \notin snap.racing => b.learnings \subseteq snap.nodes

(* A pass that has read the index claims what it should; once it has read  *)
(* reinforcements.json, it has what it claims; a snapshot always has.      *)
DreamsClaim == \A d \in Dreamers : dream[d].step # "idle" => ClaimsAppended(dream[d].snap)
DreamsHold  == \A d \in Dreamers : dream[d].step = "writeSnapshot" => ClaimsHeld(dream[d].snap)
SnapshotsHold ==
    \A i \in DOMAIN snapshots : ClaimsAppended(snapshots[i]) /\ ClaimsHeld(snapshots[i])

(* A search.                                                               *)
HasSeen(s) == LearningsOf(search[s].known) \subseteq search[s].seen
HasRanked(s) ==
    LET snap == snapshots[search[s].at]
    IN  search[s].at # 0 /\ LearningsOf(search[s].known \ snap.racing) \subseteq snap.nodes
SearchesHold ==
    \A s \in Searchers :
        /\ search[s].known \subseteq appended
        /\ search[s].step \in {"readIndex", "answered"} => HasSeen(s)
        /\ search[s].step = "answered" /\ search[s].mode # "bm25" => HasRanked(s)
        /\ search[s].step = "answered" /\ search[s].mode = "bm25" =>
              search[s].found = search[s].seen

ClaimInv == BlocksHashed /\ DreamsClaim /\ DreamsHold /\ SnapshotsHold /\ SearchesHold

(* A block that a step of the ledger adds has a uuid that is not appended, *)
(* before or after.                                                        *)
LEMMA NewBlocks ==
    ASSUME AllInv, RegInv, BlocksHashed, [Next]_vars
    PROVE  /\ blocks \subseteq blocks' /\ appended \subseteq appended'
           /\ \A b \in blocks' \ blocks : b.id \notin appended'
           /\ BlocksHashed'
<1> USE DEF AllInv, TypeInv, TypeOK
<1>1. ASSUME NEW p \in Procs, WriteBlock(p)
      PROVE  /\ blocks' = blocks \cup {OwnBlock(p)} /\ appended' = appended
             /\ OwnBlock(p).id \notin appended
             /\ OwnBlock(p).hash = ComputeBlockHash(OwnBlock(p).id, OwnBlock(p).parent, OwnBlock(p).learnings)
  <2>1. pc[p] = "writeBlock" /\ blocks' = blocks \cup {OwnBlock(p)} /\ appended' = appended
    BY <1>1 DEF WriteBlock, history
  <2>2. job[p].id \notin appended
    BY <2>1 DEF LogInv, IdsNew, NewSteps, AppendsIndexed
  <2> QED
    BY <2>1, <2>2 DEF OwnBlock, NewBlock
<1>2. ASSUME NEW p \in Procs, ~WriteBlock(p),
             Step(p) \/ Open(p) \/ Close(p) \/ BeginAppend(p) \/ BeginRecord(p) \/ Abandon(p)
      PROVE  blocks' = blocks /\ appended \subseteq appended'
  BY <1>2 DEF Step, Open, MakeIndex, CheckReinforcements, MakeReinforcements, Close, LockIndex,
              LockReinforcements, Acquire, LockTimeout, BeginAppend, BeginRecord, ReadIndex,
              WriteMerkle, WriteIndex, ReadReinforcements, StoreLearning, WriteReinforcements,
              AppendReturns, ReadRecord, WriteRecord, RecordReturns, Abandon, files, history
<1>3. Next => (\E p \in Procs : WriteBlock(p)) \/ (blocks' = blocks /\ appended \subseteq appended')
  BY <1>2 DEF Next
<1>4. CASE \E p \in Procs : WriteBlock(p)
  BY <1>1, <1>4 DEF BlocksHashed
<1>5. CASE blocks' = blocks /\ appended \subseteq appended'
  BY <1>5 DEF BlocksHashed
<1>6. CASE UNCHANGED vars
  BY <1>6 DEF vars, files, history, BlocksHashed
<1> QED
  BY <1>3, <1>4, <1>5, <1>6

(* So the steps of the ledger keep the claims.                             *)
LEMMA LedgerClaims ==
    ASSUME AllInv, RegInv, ClaimInv, [Next]_vars, UNCHANGED retrieval
    PROVE  ClaimInv'
<1> USE DEF ClaimInv
<1>1. /\ blocks \subseteq blocks' /\ appended \subseteq appended'
      /\ \A b \in blocks' \ blocks : b.id \notin appended'
      /\ BlocksHashed'
  BY NewBlocks
<1>2. UNCHANGED <<snapshots, dream, search>>
  BY DEF retrieval
<1>3. ASSUME NEW snap
      PROVE  /\ ClaimsAppended(snap) => ClaimsAppended(snap)'
             /\ ClaimsAppended(snap) /\ ClaimsHeld(snap) => ClaimsHeld(snap)'
  <2>1. ClaimsAppended(snap) => ClaimsAppended(snap)'
    BY <1>1 DEF ClaimsAppended
  <2>2. ASSUME ClaimsAppended(snap), NEW b \in blocks' \ blocks, b.hash \in snap.covers
        PROVE  b.id \in snap.racing
    <3>1. b.hash[1] = b.id
      BY <1>1 DEF BlocksHashed, ComputeBlockHash
    <3> QED
      BY <1>1, <2>2, <3>1 DEF ClaimsAppended
  <2> QED
    BY <1>1, <2>1, <2>2 DEF ClaimsHeld
<1>4. DreamsClaim' /\ DreamsHold' /\ SnapshotsHold'
  BY <1>2, <1>3 DEF DreamsClaim, DreamsHold, SnapshotsHold
<1>5. ASSUME NEW ids, ids \subseteq appended
      PROVE  LearningsOf(ids)' = LearningsOf(ids)
  <2>1. {c \in blocks' : c.id \in ids} = {c \in blocks : c.id \in ids}
    BY <1>1, <1>5
  <2> QED
    BY <2>1 DEF LearningsOf
<1>6. SearchesHold'
  <2> SUFFICES ASSUME NEW s \in Searchers
               PROVE  /\ search[s].known \subseteq appended'
                      /\ search[s].step \in {"readIndex", "answered"} => HasSeen(s)'
                      /\ search[s].step = "answered" /\ search[s].mode # "bm25" => HasRanked(s)'
                      /\ search[s].step = "answered" /\ search[s].mode = "bm25" =>
                            search[s].found = search[s].seen
    BY <1>2 DEF SearchesHold
  <2>1. search[s].known \subseteq appended
    BY DEF SearchesHold
  <2>2. HasSeen(s) => HasSeen(s)'
    BY <1>2, <1>5, <2>1 DEF HasSeen
  <2> DEFINE snap == snapshots[search[s].at]
  <2>3. LearningsOf(search[s].known \ snap.racing)' = LearningsOf(search[s].known \ snap.racing)
    <3>1. search[s].known \ snap.racing \subseteq appended
      BY <2>1
    <3> QED
      BY <1>2, <1>5, <3>1
  <2>4. HasRanked(s) => HasRanked(s)'
    BY <1>2, <2>3 DEF HasRanked
  <2> QED
    BY <1>1, <2>1, <2>2, <2>4 DEF SearchesHold
<1> QED
  BY <1>1, <1>4, <1>6

------------------------------------------------------------------------------
(* The pass.                                                               *)

LEMMA InitClaimInv == RetrievalInit => ClaimInv
<1> SUFFICES ASSUME RetrievalInit PROVE ClaimInv
  OBVIOUS
<1>1. /\ \A d \in Dreamers : dream[d].step = "idle"
      /\ \A s \in Searchers : search[s].step = "idle" /\ search[s].known = {}
      /\ DOMAIN snapshots = {}
  BY DEF RetrievalInit, NoDream, NoSearch
<1>2. BlocksHashed
  <2> DEFINE genesis == NewBlock(CHOOSE b \in BlockIds : TRUE, None, Seed)
  <2>1. genesis.hash = ComputeBlockHash(genesis.id, genesis.parent, genesis.learnings)
    BY DEF NewBlock
  <2>2. blocks \subseteq {genesis}
    BY DEF RetrievalInit, Init
  <2> QED
    BY <2>1, <2>2 DEF BlocksHashed
<1> QED
  BY <1>1, <1>2 DEF ClaimInv, DreamsClaim, DreamsHold, SnapshotsHold, SearchesHold

(* What the index lists has been appended or is being appended.            *)
LEMMA IndexClaims ==
    ASSUME AllInv, NEW snap \in Snapshot, snap.covers = IndexHashes(index),
           snap.racing = IndexIds(index) \ appended
    PROVE  ClaimsAppended(snap)
<1> SUFFICES ASSUME NEW h \in IndexHashes(index) PROVE h[1] \in IndexIds(index)
  BY DEF ClaimsAppended
<1>1. PICK i \in DOMAIN index.blocks : h = index.blocks[i].hash
  BY DEF IndexHashes
<1>2. PICK b \in blocks : EntryOf(b) = index.blocks[i]
                          /\ b.hash = ComputeBlockHash(b.id, b.parent, b.learnings)
  BY DEF AllInv, ChainInv, ChainIntact, Intact, Backed
<1>3. h[1] = index.blocks[i].id
  BY <1>1, <1>2 DEF EntryOf, ComputeBlockHash
<1> QED
  BY <1>3 DEF IndexIds

(* reinforcements.json has the learnings of every block appended so far.   *)
LEMMA AppendedIsRegistered ==
    ASSUME TypeOK, RegInv, NEW ids, ids \subseteq appended
    PROVE  LearningsOf(ids) \subseteq Registered(reinf)
<1> SUFFICES ASSUME NEW b \in blocks, b.id \in ids, NEW l \in b.learnings
             PROVE  l \in Registered(reinf)
  BY DEF LearningsOf
<1>1. reinf[l].block = b.id /\ b.id # None /\ l \in Learnings
  BY BlockFacts DEF RegInv, AppendedRegistered, IsRegistered
<1> QED
  BY <1>1 DEF Registered

LEMMA DreamClaims ==
    ASSUME AllInv, RegInv, RetrievalType, ClaimInv, NEW d \in Dreamers,
           \/ DreamReadIndex(d) \/ DreamReadReinforcements(d) \/ DreamWriteSnapshot(d)
           \/ AdvanceCurrent(d) \/ DreamStops(d)
    PROVE  ClaimInv'
<1> USE DEF ClaimInv
<1>0. /\ TypeOK /\ dream \in [Dreamers -> Dream] /\ dream[d] \in Dream
      /\ snapshots \in Seq(Snapshot) /\ Len(snapshots) \in Nat
      /\ search \in [Searchers -> Search]
      /\ \A s \in Searchers : search[s].at \in Nat /\ search[s].at <= Len(snapshots)
      /\ search' = search /\ UNCHANGED <<blocks, appended>>
  BY DEF AllInv, TypeInv, RetrievalType, RetrievalTypeOK, PositionsExist, Search,
         DreamReadIndex, DreamReadReinforcements, DreamWriteSnapshot, AdvanceCurrent, DreamStops,
         vars, files, history
<1>1. BlocksHashed'
  BY <1>0 DEF BlocksHashed
<1>2. \A snap : /\ ClaimsAppended(snap)' <=> ClaimsAppended(snap)
                /\ ClaimsHeld(snap)' <=> ClaimsHeld(snap)
  BY <1>0 DEF ClaimsAppended, ClaimsHeld
<1>3. ASSUME NEW x \in Dream, dream' = [dream EXCEPT ![d] = x], snapshots' = snapshots,
             x.step # "idle" => ClaimsAppended(x.snap),
             x.step = "writeSnapshot" => ClaimsHeld(x.snap)
      PROVE  ClaimInv'
  <2>1. DreamsClaim' /\ DreamsHold'
    BY <1>0, <1>2, <1>3 DEF DreamsClaim, DreamsHold
  <2>2. SnapshotsHold'
    BY <1>2, <1>3 DEF SnapshotsHold
  <2>3. SearchesHold'
    BY <1>0, <1>3 DEF SearchesHold, HasSeen, HasRanked, LearningsOf
  <2> QED
    BY <1>1, <2>1, <2>2, <2>3
<1>4. CASE DreamReadIndex(d)
  <2> DEFINE snap == [NoSnapshot EXCEPT !.covers = IndexHashes(index),
                                        !.racing = IndexIds(index) \ appended]
             x == [NoDream EXCEPT !.step = "readReinf", !.snap = snap]
  <2>1. /\ snap \in Snapshot /\ snap.covers = IndexHashes(index)
        /\ snap.racing = IndexIds(index) \ appended
    BY <1>0, IndexTypes DEF NoSnapshot, Snapshot
  <2>2. dream' = [dream EXCEPT ![d] = x] /\ snapshots' = snapshots
    BY <1>4 DEF DreamReadIndex
  <2> HIDE DEF snap
  <2>3. ClaimsAppended(snap)
    BY <2>1, IndexClaims
  <2>4. x \in Dream /\ x.step = "readReinf" /\ x.snap = snap
    BY <2>1 DEF NoDream, Dream
  <2> HIDE DEF x
  <2> QED
    BY <1>3, <2>2, <2>3, <2>4
<1>5. CASE DreamReadReinforcements(d)
  <2> DEFINE x == [dream[d] EXCEPT !.step = "writeSnapshot", !.snap.nodes = Registered(reinf)]
  <2>1. /\ x \in Dream /\ x.step = "writeSnapshot" /\ x.snap.nodes = Registered(reinf)
        /\ x.snap.covers = dream[d].snap.covers /\ x.snap.racing = dream[d].snap.racing
    BY <1>0 DEF Dream, Snapshot, Registered
  <2>2. dream' = [dream EXCEPT ![d] = x] /\ snapshots' = snapshots
    BY <1>0, <1>5 DEF DreamReadReinforcements
  <2> HIDE DEF x
  <2>3. ClaimsAppended(x.snap)
    BY <1>5, <2>1 DEF DreamReadReinforcements, DreamsClaim, ClaimsAppended
  <2>4. ClaimsHeld(x.snap)
    <3> SUFFICES ASSUME NEW b \in blocks, b.hash \in x.snap.covers, b.id \notin x.snap.racing
                 PROVE  b.learnings \subseteq Registered(reinf)
      BY <2>1 DEF ClaimsHeld
    <3>1. b.id \in appended
      BY <2>3 DEF ClaimsAppended, BlocksHashed, ComputeBlockHash
    <3>2. LearningsOf({b.id}) \subseteq Registered(reinf)
      BY <1>0, <3>1, AppendedIsRegistered
    <3> QED
      BY <3>2 DEF LearningsOf
  <2> QED
    BY <1>3, <2>1, <2>2, <2>3, <2>4
<1>6. CASE DreamWriteSnapshot(d)
  <2>1. PICK es : snapshots' = Append(snapshots, [dream[d].snap EXCEPT !.entries = es])
    BY <1>6 DEF DreamWriteSnapshot
  <2> DEFINE n == Len(snapshots')
             snap == [dream[d].snap EXCEPT !.entries = es]
             x == [dream[d] EXCEPT !.step = "advance", !.at = n]
  <2>2. /\ snap.covers = dream[d].snap.covers /\ snap.racing = dream[d].snap.racing
        /\ snap.nodes = dream[d].snap.nodes
    BY <1>0 DEF Dream, Snapshot
  <2>3. dream[d].step = "writeSnapshot" /\ dream' = [dream EXCEPT ![d] = x]
    BY <1>6 DEF DreamWriteSnapshot
  <2>4. x.step = "advance" /\ x.snap = dream[d].snap
    BY <1>0 DEF Dream
  <2> HIDE DEF snap, x
  <2>5. ClaimsAppended(snap) /\ ClaimsHeld(snap) /\ ClaimsAppended(dream[d].snap)
    BY <2>2, <2>3 DEF DreamsClaim, DreamsHold, ClaimsAppended, ClaimsHeld
  <2>6. /\ DOMAIN snapshots' = 1 .. Len(snapshots) + 1
        /\ \A i \in 1 .. Len(snapshots) : snapshots'[i] = snapshots[i]
        /\ snapshots'[Len(snapshots) + 1] = snap
        /\ DOMAIN snapshots = 1 .. Len(snapshots)
    BY <1>0, <2>1 DEF snap
  <2>7. DreamsClaim' /\ DreamsHold'
    BY <1>0, <1>2, <2>3, <2>4, <2>5 DEF DreamsClaim, DreamsHold
  <2>8. SnapshotsHold'
    <3> SUFFICES ASSUME NEW i \in 1 .. Len(snapshots) + 1
                 PROVE  ClaimsAppended(snapshots'[i]) /\ ClaimsHeld(snapshots'[i])
      BY <1>2, <2>6 DEF SnapshotsHold
    <3>1. i = Len(snapshots) + 1 \/ i \in 1 .. Len(snapshots)
      BY <1>0
    <3> QED
      BY <2>5, <2>6, <3>1 DEF SnapshotsHold
  <2>9. SearchesHold'
    <3>1. \A s \in Searchers : search[s].at # 0 => snapshots'[search[s].at] = snapshots[search[s].at]
      BY <1>0, <2>6
    <3> QED
      BY <1>0, <3>1 DEF SearchesHold, HasSeen, HasRanked, LearningsOf
  <2> QED
    BY <1>1, <2>7, <2>8, <2>9
<1>7. CASE AdvanceCurrent(d) \/ DreamStops(d)
  <2>1. NoDream \in Dream /\ NoDream.step = "idle"
    BY NoSnapshotType DEF NoDream, Dream
  <2> QED
    BY <1>3, <1>7, <2>1 DEF AdvanceCurrent, DreamStops
<1> QED
  BY <1>4, <1>5, <1>6, <1>7

------------------------------------------------------------------------------
(* The search.  A spectral answer has compared the snapshot with the whole *)
(* index, and the index has every block that was appended.                 *)

LEMMA CoveredIsRanked ==
    ASSUME AllInv, RegInv, NEW snap, ClaimsHeld(snap), UncoveredBlocks(snap) = {},
           NEW ids, ids \subseteq appended
    PROVE  LearningsOf(ids \ snap.racing) \subseteq snap.nodes
<1> SUFFICES ASSUME NEW b \in blocks, b.id \in ids, b.id \notin snap.racing
             PROVE  b.learnings \subseteq snap.nodes
  BY DEF LearningsOf
<1>1. PICK i \in DOMAIN index.blocks : index.blocks[i].id = b.id
  BY DEF AllInv, LogInv, AppendsIndexed, IndexIds
<1>2. PICK c \in blocks : EntryOf(c) = index.blocks[i]
  BY DEF AllInv, ChainInv, ChainIntact, Intact, Backed
<1>3. c = b
  BY <1>1, <1>2 DEF EntryOf, RegInv, BlocksUnique
<1>4. b.hash \in IndexHashes(index)
  BY <1>2, <1>3 DEF EntryOf, IndexHashes
<1> QED
  BY <1>4 DEF UncoveredBlocks, ClaimsHeld

LEMMA SearchClaims ==
    ASSUME AllInv, RegInv, RetrievalType, ClaimInv, NEW s \in Searchers,
           BeginSearch(s) \/ ReadCurrent(s) \/ SearchReadReinforcements(s) \/ Answer(s)
    PROVE  ClaimInv'
<1> USE DEF ClaimInv
<1>0. /\ TypeOK /\ search \in [Searchers -> Search] /\ search[s] \in Search
      /\ snapshots \in Seq(Snapshot) /\ search[s].at \in Nat /\ search[s].at <= Len(snapshots)
      /\ UNCHANGED <<blocks, appended, snapshots, dream>>
      /\ search[s].known \subseteq appended
  BY DEF AllInv, TypeInv, RetrievalType, RetrievalTypeOK, PositionsExist, Search, SearchesHold,
         BeginSearch, ReadCurrent, SearchReadReinforcements, Answer, vars, files, history
<1>1. BlocksHashed' /\ DreamsClaim' /\ DreamsHold' /\ SnapshotsHold'
  BY <1>0 DEF BlocksHashed, DreamsClaim, DreamsHold, SnapshotsHold, ClaimsAppended, ClaimsHeld
<1>2. ASSUME NEW x, search' = [search EXCEPT ![s] = x], x.known \subseteq appended,
             x.step \in {"readIndex", "answered"} => LearningsOf(x.known) \subseteq x.seen,
             x.step = "answered" /\ x.mode # "bm25" =>
                /\ x.at # 0
                /\ LearningsOf(x.known \ snapshots[x.at].racing) \subseteq snapshots[x.at].nodes,
             x.step = "answered" /\ x.mode = "bm25" => x.found = x.seen
      PROVE  ClaimInv'
  <2>1. SearchesHold'
    BY <1>0, <1>2 DEF SearchesHold, HasSeen, HasRanked, LearningsOf
  <2> QED
    BY <1>1, <2>1
<1>3. CASE BeginSearch(s)
  <2> DEFINE x == [NoSearch EXCEPT !.step = "readCurrent", !.known = appended]
  <2>1. x.step = "readCurrent" /\ x.known = appended /\ search' = [search EXCEPT ![s] = x]
    BY <1>3 DEF BeginSearch, NoSearch
  <2> HIDE DEF x
  <2> QED
    BY <1>2, <2>1
<1>4. CASE ReadCurrent(s)
  <2> DEFINE x == [search[s] EXCEPT !.step = "readReinf", !.at = current]
  <2>1. x.step = "readReinf" /\ x.known = search[s].known /\ search' = [search EXCEPT ![s] = x]
    BY <1>0, <1>4 DEF ReadCurrent, Search
  <2> HIDE DEF x
  <2> QED
    BY <1>0, <1>2, <2>1
<1>5. CASE SearchReadReinforcements(s)
  <2> DEFINE x == [search[s] EXCEPT !.step = "readIndex", !.seen = Registered(reinf)]
  <2>1. /\ x.step = "readIndex" /\ x.known = search[s].known /\ x.seen = Registered(reinf)
        /\ search' = [search EXCEPT ![s] = x]
    BY <1>0, <1>5 DEF SearchReadReinforcements, Search
  <2> HIDE DEF x
  <2>2. LearningsOf(x.known) \subseteq x.seen
    BY <1>0, <2>1, AppendedIsRegistered DEF RegInv
  <2> QED
    BY <1>0, <1>2, <2>1, <2>2
<1>6. CASE Answer(s)
  <2> DEFINE snap == snapshots[search[s].at]
             spectral == search[s].at # 0 /\ UncoveredBlocks(snap) = {}
             m == IF spectral THEN "spectral" ELSE "bm25"
  <2>0. PICK found \in Rankings(s, spectral) :
           search' = [search EXCEPT ![s].step = "answered", ![s].found = found, ![s].mode = m]
    BY <1>6 DEF Answer
  <2> DEFINE x == [search[s] EXCEPT !.step = "answered", !.found = found, !.mode = m]
  <2>1. search' = [search EXCEPT ![s] = x] /\ search[s].step = "readIndex"
    BY <1>0, <1>6, <2>0 DEF Answer
  <2>2. /\ m # "bm25" => search[s].at # 0 /\ UncoveredBlocks(snap) = {}
        /\ m = "bm25" => found = search[s].seen
    BY <2>0 DEF Rankings
  <2> HIDE DEF m, spectral
  <2>3. /\ x.known = search[s].known /\ x.seen = search[s].seen
        /\ x.at = search[s].at /\ x.mode = m /\ x.found = found
    BY <1>0 DEF Search
  <2> HIDE DEF x
  <2>4. LearningsOf(x.known) \subseteq x.seen
    BY <2>1, <2>3 DEF SearchesHold, HasSeen
  <2>5. ASSUME m # "bm25"
        PROVE  LearningsOf(x.known \ snap.racing) \subseteq snap.nodes
    <3>1. ClaimsHeld(snap)
      BY <1>0, <2>2, <2>5 DEF SnapshotsHold
    <3> QED
      BY <1>0, <2>2, <2>3, <2>5, <3>1, CoveredIsRanked
  <2> QED
    BY <1>0, <1>2, <2>1, <2>2, <2>3, <2>4, <2>5
<1> QED
  BY <1>3, <1>4, <1>5, <1>6

------------------------------------------------------------------------------

LEMMA StepClaimInv ==
    ASSUME AllInv, RegInv, RetrievalType, ClaimInv, [RetrievalNext]_allVars
    PROVE  ClaimInv'
<1>1. CASE Next /\ UNCHANGED retrieval
  BY <1>1, LedgerClaims
<1>2. CASE UNCHANGED allVars
  BY <1>2, LedgerClaims DEF allVars
<1> QED
  BY <1>1, <1>2, DreamClaims, SearchClaims DEF RetrievalNext

LedgerHolds == TypeInv /\ ChainInv /\ ExistingLogInv /\ QuietInv
QuietClaims == Quiet => ClaimInv

LEMMA LedgerHoldsInRetrieval == RetrievalSpec => []LedgerHolds
<1>1. RetrievalInit => Init
  BY DEF RetrievalInit
<1>2. RetrievalSpec => Spec
  BY <1>1, RetrievalStepsLedger, PTL DEF RetrievalSpec, Spec
<1> QED
  BY <1>2, QuietInvHolds, PTL DEF LedgerHolds

LEMMA ClaimInvHolds == RetrievalSpec => [](LedgerHolds /\ RetrievalType /\ QuietClaims)
<1>1. RetrievalInit => RetrievalType /\ QuietClaims
  BY InitTypes, InitClaimInv DEF QuietClaims
<1>2. LedgerHolds /\ RetrievalType /\ QuietClaims /\ [RetrievalNext]_allVars
        => RetrievalType' /\ QuietClaims'
  <2>1. LedgerHolds /\ RetrievalType /\ [RetrievalNext]_allVars => RetrievalType'
    BY NextTypes DEF LedgerHolds, TypeInv
  <2>2. [RetrievalNext]_allVars => (Quiet <=> Quiet')
    BY RetrievalStepsLedger, SetupFixed DEF Quiet, Fresh, Recorders
  <2>3. Quiet /\ LedgerHolds => AllInv /\ RegInv
    BY DEF LedgerHolds, Quiet, ExistingLogInv, QuietInv, AllInv
  <2> QED
    BY <2>1, <2>2, <2>3, StepClaimInv DEF QuietClaims
<1> QED
  BY <1>1, <1>2, LedgerHoldsInRetrieval, PTL DEF RetrievalSpec

(* Snapshots, their pointer, passes and searches keep their types, and the *)
(* pointer names a snapshot that was written (active-memory/src/lib.rs).   *)
THEOREM RetrievalTypesHold == RetrievalSpec => []RetrievalTypeOK
BY ClaimInvHolds, PTL DEF RetrievalType

(* A snapshot claims no more than its pass had in its graph, racing        *)
(* appends apart (cortex-dream/src/lib.rs:50-75): on a ledger that exists  *)
(* and whose outcomes nobody records.                                      *)
THEOREM ClaimsStayBacked == RetrievalSpec => [](Quiet => ClaimsAreBacked)
<1>1. LedgerHolds /\ RetrievalType /\ QuietClaims => (Quiet => ClaimsAreBacked)
  <2> SUFFICES ASSUME RegInv, ClaimInv, NEW i \in DOMAIN snapshots
               PROVE  LearningsOf(CoveredBy(snapshots[i]) \ snapshots[i].racing)
                        \subseteq snapshots[i].nodes
    BY DEF LedgerHolds, QuietInv, QuietClaims, ClaimsAreBacked
  <2> DEFINE snap == snapshots[i]
  <2>1. ClaimsHeld(snap)
    BY DEF ClaimInv, SnapshotsHold
  <2>2. ASSUME NEW b \in blocks, b.id \in CoveredBy(snap), b.id \notin snap.racing
        PROVE  b.learnings \subseteq snap.nodes
    <3>1. PICK c \in blocks : c.hash \in snap.covers /\ c.id = b.id
      BY <2>2 DEF CoveredBy
    <3>2. c = b
      BY <3>1 DEF RegInv, BlocksUnique
    <3> QED
      BY <2>1, <2>2, <3>1, <3>2 DEF ClaimsHeld
  <2> QED
    BY <2>2 DEF LearningsOf
<1> QED
  BY <1>1, ClaimInvHolds, PTL

(* impls.rs:380-381: a BM25 search misses no learning tagged before it     *)
(* began, and what a spectral one misses the pass behind its snapshot had  *)
(* weighed, racing appends apart: nothing is hidden for being newer        *)
(* (impls.rs:366-460); on a ledger that exists and whose outcomes nobody   *)
(* records.                                                                *)
THEOREM AnswersStayCurrent == RetrievalSpec => [](Quiet => AnswersAreCurrent)
<1>1. LedgerHolds /\ RetrievalType /\ QuietClaims => (Quiet => AnswersAreCurrent)
  BY DEF QuietClaims, ClaimInv, SearchesHold, HasSeen, HasRanked, AnswersAreCurrent
<1> QED
  BY <1>1, ClaimInvHolds, PTL

=============================================================================
