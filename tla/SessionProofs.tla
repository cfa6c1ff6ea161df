--------------------------- MODULE SessionProofs ---------------------------
(***************************************************************************)
(* Theorems about a system of sessions, for any number of servers,         *)
(* projects, sessions, learnings, hooks and handoffs, and any setup: what  *)
(* the handoff pointers name, what a tool call answers, and what the       *)
(* PostToolUse hooks print and leave in their file.                        *)
(***************************************************************************)
EXTENDS Session, SequenceTheorems, FiniteSetTheorems, NaturalsInduction, WellFoundedInduction, TLAPS

------------------------------------------------------------------------------
(* The inductive invariant. *)

WritingSteps == {"idle", "file", "pointer"}

HandoffType ==
    /\ handoffs \in [Roots -> SUBSET Handoff]
    /\ current \in [Roots -> Stamp \cup {None}]
    /\ writing \in [Servers -> [step : WritingSteps, handoff : Handoff \cup {None}]]
    /\ \A s \in Servers : writing[s].step # "idle" => writing[s].handoff \in Handoff
    /\ clock \in 0 .. MaxHandoffs /\ faults \in Nat

(* A pointer names a file, and so does a pointer that is about to be.      *)
Named(r, stamp) == \E h \in handoffs[r] : h.stamp = stamp
PointersAreNamed == \A r \in Roots : current[r] # None => Named(r, current[r])
WritersAreNamed ==
    \A s \in Servers : writing[s].step = "pointer" =>
        Named(writing[s].handoff.root, writing[s].handoff.stamp)

(* No file, and no handoff under way, is of a time that has not come.      *)
StampsArePast ==
    /\ \A r \in Roots : \A h \in handoffs[r] : h.stamp <= clock
    /\ \A s \in Servers : writing[s].step # "idle" => writing[s].handoff.stamp <= clock

NewestIs(r, stamp) == \A h \in handoffs[r] : h.stamp <= stamp
UpToDate(r) == \A h \in handoffs[r] : current[r] # None /\ h.stamp <= current[r]

(* Without overlaps, one server at a time writes, with a stamp that no     *)
(* file exceeds; until it has, the pointer names the newest file.          *)
OneWriter(r) ==
    \A s, t \in Servers :
        /\ writing[s].step # "idle" /\ writing[s].handoff.root = r
        /\ writing[t].step # "idle" /\ writing[t].handoff.root = r
        => s = t
WriterIsNewest(r) ==
    \A s \in Servers : writing[s].step # "idle" /\ writing[s].handoff.root = r =>
        NewestIs(r, writing[s].handoff.stamp)
AtPointer(r) == \E s \in Servers : writing[s].step = "pointer" /\ writing[s].handoff.root = r
Orderly ==
    \A r \in Roots \ raced :
        OneWriter(r) /\ WriterIsNewest(r) /\ (AtPointer(r) \/ UpToDate(r))

HandoffInv ==
    /\ HandoffType /\ PointersAreNamed /\ WritersAreNamed /\ StampsArePast
    /\ faults = 0 => Orderly

LEMMA InvCurrent == HandoffInv => CurrentIsLatest
<1> SUFFICES ASSUME HandoffInv, NEW r \in Roots
             PROVE  /\ current[r] # None => ReadCurrent(r) # {}
                    /\ (\E h \in handoffs[r] : current[r] = None \/ h.stamp > current[r]) =>
                          r \in raced \/ faults > 0 \/ \E s \in WritingAt(r) : writing[s].step = "pointer"
  BY DEF CurrentIsLatest
<1>1. current[r] # None => ReadCurrent(r) # {}
  BY DEF HandoffInv, PointersAreNamed, Named, ReadCurrent
<1>2. ASSUME r \notin raced, faults = 0, NEW h \in handoffs[r],
             current[r] = None \/ h.stamp > current[r]
      PROVE  \E s \in WritingAt(r) : writing[s].step = "pointer"
  <2>1. ~UpToDate(r)
    <3>1. h.stamp \in Nat /\ (current[r] # None => current[r] \in Nat)
      BY DEF HandoffInv, HandoffType, Handoff, Stamp
    <3> QED
      BY <1>2, <3>1 DEF UpToDate
  <2>2. AtPointer(r)
    BY <1>2, <2>1 DEF HandoffInv, Orderly
  <2> QED
    BY <2>2 DEF AtPointer, WritingAt
<1>3. faults \in Nat
  BY DEF HandoffInv, HandoffType
<1> QED
  BY <1>1, <1>2, <1>3

LEMMA InitInv == SessionInit => HandoffInv
<1> SUFFICES ASSUME SessionInit PROVE HandoffInv
  OBVIOUS
<1>1. HandoffInit
  BY DEF SessionInit, Init
<1>2. HandoffType
  BY <1>1, HandoffAssumption DEF HandoffInit, HandoffType, NotWriting, WritingSteps
<1>3. \A s \in Servers : writing[s].step = "idle"
  BY <1>1 DEF HandoffInit, NotWriting
<1> QED
  BY <1>1, <1>2, <1>3 DEF HandoffInit, HandoffInv, PointersAreNamed, WritersAreNamed, StampsArePast,
                          Orderly, OneWriter, WriterIsNewest, UpToDate

------------------------------------------------------------------------------
(* The steps of a recording. *)

LEMMA BeginInv ==
    ASSUME HandoffInv, NEW s \in Servers, NEW root \in Roots, NEW session \in Sessions,
           BeginHandoff(s, root, session)
    PROVE  HandoffInv'
<1> DEFINE h == [stamp |-> clock', session |-> session, by |-> s, root |-> root]
           w == [step |-> "file", handoff |-> h]
<1>1. /\ writing' = [writing EXCEPT ![s] = w]
      /\ UNCHANGED <<handoffs, current, faults>>
  BY DEF BeginHandoff
<1>2. clock' \in Stamp /\ clock <= clock'
  <2>1. CASE clock < MaxHandoffs /\ clock' = clock + 1
    BY <2>1, HandoffAssumption DEF HandoffInv, HandoffType, Stamp
  <2>2. CASE clock' = clock /\ \E t \in WritingAt(root) : writing[t].handoff.stamp = clock
    <3>1. clock \in Stamp
      BY <2>2 DEF WritingAt, HandoffInv, HandoffType, Handoff
    <3> QED
      BY <2>2, <3>1 DEF Stamp
  <2> QED
    BY <2>1, <2>2 DEF BeginHandoff
<1>3. h \in Handoff
  BY <1>2 DEF Handoff
<1>4. w \in [step : WritingSteps, handoff : Handoff \cup {None}]
  BY <1>3 DEF WritingSteps
<1>5. h.stamp = clock' /\ h.root = root /\ w.step = "file" /\ w.handoff = h
  OBVIOUS
<1> HIDE DEF h, w
<1>6. writing'[s] = w /\ \A t \in Servers \ {s} : writing'[t] = writing[t]
  BY <1>1 DEF HandoffInv, HandoffType
<1>7. HandoffType'
  <2>1. writing' \in [Servers -> [step : WritingSteps, handoff : Handoff \cup {None}]]
    BY <1>1, <1>4 DEF HandoffInv, HandoffType
  <2>2. \A t \in Servers : writing'[t].step # "idle" => writing'[t].handoff \in Handoff
    BY <1>3, <1>5, <1>6 DEF HandoffInv, HandoffType
  <2> QED
    BY <1>1, <1>2, <2>1, <2>2 DEF HandoffInv, HandoffType, Stamp
<1>8. PointersAreNamed' /\ WritersAreNamed'
  BY <1>1, <1>5, <1>6 DEF HandoffInv, PointersAreNamed, WritersAreNamed, Named
<1>9. StampsArePast'
  <2>1. clock \in Nat /\ clock' \in Nat
    BY <1>2 DEF HandoffInv, HandoffType, Stamp
  <2>2. ASSUME NEW r \in Roots, NEW f \in handoffs[r] PROVE f.stamp <= clock'
    <3>1. f.stamp \in Nat /\ f.stamp <= clock
      BY DEF HandoffInv, HandoffType, Handoff, Stamp, StampsArePast
    <3> QED
      BY <1>2, <2>1, <3>1
  <2>3. ASSUME NEW t \in Servers, writing'[t].step # "idle" PROVE writing'[t].handoff.stamp <= clock'
    <3>1. CASE t = s
      BY <1>5, <1>6, <2>1, <3>1
    <3>2. CASE t # s
      <4>1. writing'[t] = writing[t] /\ writing[t].handoff.stamp \in Nat /\ writing[t].handoff.stamp <= clock
        BY <1>6, <2>3, <3>2 DEF HandoffInv, HandoffType, Handoff, Stamp, StampsArePast
      <4> QED
        BY <1>2, <2>1, <4>1
    <3> QED
      BY <3>1, <3>2
  <2> QED
    BY <1>1, <2>2, <2>3 DEF StampsArePast
<1>10. ASSUME faults' = 0 PROVE Orderly'
  <2>1. Orderly
    BY <1>1, <1>10 DEF HandoffInv
  <2> SUFFICES ASSUME NEW r \in Roots, r \notin raced'
               PROVE  OneWriter(r)' /\ WriterIsNewest(r)' /\ (AtPointer(r)' \/ UpToDate(r)')
    BY DEF Orderly
  <2>2. r \notin raced /\ (r = root => WritingAt(r) = {})
    BY DEF BeginHandoff
  <2>3. OneWriter(r) /\ WriterIsNewest(r) /\ (AtPointer(r) \/ UpToDate(r))
    BY <2>1, <2>2 DEF Orderly
  <2>4. CASE r # root
    <3>1. OneWriter(r)' /\ WriterIsNewest(r)'
      BY <1>1, <1>5, <1>6, <2>3, <2>4 DEF OneWriter, WriterIsNewest, NewestIs
    <3>2. AtPointer(r) => AtPointer(r)'
      <4> SUFFICES ASSUME NEW t \in Servers, writing[t].step = "pointer", writing[t].handoff.root = r
                   PROVE  AtPointer(r)'
        BY DEF AtPointer
      <4>1. t # s
        BY DEF BeginHandoff
      <4> QED
        BY <1>6, <4>1 DEF AtPointer
    <3>3. UpToDate(r) => UpToDate(r)'
      BY <1>1 DEF UpToDate
    <3> QED
      BY <2>3, <3>1, <3>2, <3>3
  <2>5. CASE r = root
    <3>1. \A t \in Servers : writing[t].step # "idle" => writing[t].handoff.root # r
      BY <2>2, <2>5 DEF WritingAt
    <3>2. OneWriter(r)'
      BY <1>6, <3>1 DEF OneWriter
    <3>3. WriterIsNewest(r)'
      <4>1. \A f \in handoffs[r] : f.stamp <= clock'
        BY <1>1, <1>9 DEF StampsArePast
      <4> QED
        BY <1>1, <1>5, <1>6, <3>1, <4>1 DEF WriterIsNewest, NewestIs
    <3>4. UpToDate(r)'
      BY <1>1, <2>3, <3>1 DEF UpToDate, AtPointer
    <3> QED
      BY <3>2, <3>3, <3>4
  <2> QED
    BY <2>4, <2>5
<1> QED
  BY <1>7, <1>8, <1>9, <1>10 DEF HandoffInv

LEMMA WriteFileInv ==
    ASSUME HandoffInv, NEW s \in Servers, WriteHandoff(s)
    PROVE  HandoffInv'
<1> DEFINE h == writing[s].handoff
           root == h.root
           files == {f \in handoffs[root] : f.stamp # h.stamp} \cup {h}
<1>1. /\ handoffs' = [handoffs EXCEPT ![root] = files]
      /\ writing' = [writing EXCEPT ![s].step = "pointer"]
      /\ writing[s].step = "file"
      /\ UNCHANGED <<current, clock, faults, raced>>
  BY DEF WriteHandoff
<1>2. h \in Handoff /\ root \in Roots /\ h.stamp \in Stamp
  BY <1>1 DEF HandoffInv, HandoffType, Handoff
<1>3. /\ writing'[s].step = "pointer" /\ writing'[s].handoff = h
      /\ \A t \in Servers \ {s} : writing'[t] = writing[t]
  BY <1>1 DEF HandoffInv, HandoffType
<1>4. writing' \in [Servers -> [step : WritingSteps, handoff : Handoff \cup {None}]]
  BY <1>1 DEF HandoffInv, HandoffType, WritingSteps
<1>5. /\ handoffs'[root] = files
      /\ \A r \in Roots \ {root} : handoffs'[r] = handoffs[r]
  BY <1>1, <1>2 DEF HandoffInv, HandoffType
<1>6. files \in SUBSET Handoff
  BY <1>2 DEF HandoffInv, HandoffType
<1>7. HandoffType'
  BY <1>1, <1>2, <1>3, <1>4, <1>6 DEF HandoffInv, HandoffType
<1>8. h \in files /\ \A f \in handoffs[root] : f \in files \/ f.stamp = h.stamp
  OBVIOUS
<1>9. \A f \in files : f \in handoffs[root] \/ f = h
  OBVIOUS
<1> HIDE DEF files
<1>10. ASSUME NEW r \in Roots, NEW stamp, Named(r, stamp) PROVE Named(r, stamp)'
  <2>1. CASE r = root
    BY <1>5, <1>8, <1>10, <2>1 DEF Named
  <2>2. CASE r # root
    BY <1>5, <1>10, <2>2 DEF Named
  <2> QED
    BY <2>1, <2>2
<1>11. PointersAreNamed'
  <2> SUFFICES ASSUME NEW r \in Roots, current[r] # None PROVE \E f \in handoffs'[r] : f.stamp = current[r]
    BY <1>1 DEF PointersAreNamed, Named
  <2>1. PICK stamp : stamp = current[r]
    OBVIOUS
  <2>2. Named(r, stamp)'
    BY <1>10, <2>1 DEF HandoffInv, PointersAreNamed
  <2> QED
    BY <2>1, <2>2 DEF Named
<1>12. WritersAreNamed'
  <2> SUFFICES ASSUME NEW t \in Servers, writing'[t].step = "pointer"
               PROVE  \E f \in handoffs'[writing'[t].handoff.root] : f.stamp = writing'[t].handoff.stamp
    BY DEF WritersAreNamed, Named
  <2>1. CASE t = s
    BY <1>3, <1>5, <1>8, <2>1
  <2>2. CASE t # s
    <3>1. PICK r \in Roots, stamp \in Stamp : r = writing[t].handoff.root /\ stamp = writing[t].handoff.stamp
      BY <1>3, <2>2 DEF HandoffInv, HandoffType, Handoff
    <3>2. Named(r, stamp)'
      BY <1>3, <1>10, <2>2, <3>1 DEF HandoffInv, WritersAreNamed
    <3> QED
      BY <1>3, <2>2, <3>1, <3>2 DEF Named
  <2> QED
    BY <2>1, <2>2
<1>13. StampsArePast'
  <2>1. h.stamp <= clock
    BY <1>1 DEF HandoffInv, StampsArePast
  <2>2. \A r \in Roots : \A f \in handoffs'[r] : f.stamp <= clock
    BY <1>5, <1>9, <2>1 DEF HandoffInv, StampsArePast
  <2>3. \A t \in Servers : writing'[t].step # "idle" => writing'[t].handoff.stamp <= clock
    BY <1>3, <2>1 DEF HandoffInv, StampsArePast
  <2> QED
    BY <1>1, <2>2, <2>3 DEF StampsArePast
<1>14. ASSUME faults' = 0 PROVE Orderly'
  <2> SUFFICES ASSUME NEW r \in Roots, r \notin raced
               PROVE  OneWriter(r)' /\ WriterIsNewest(r)' /\ (AtPointer(r)' \/ UpToDate(r)')
    BY <1>1 DEF Orderly
  <2>1. OneWriter(r) /\ WriterIsNewest(r) /\ (AtPointer(r) \/ UpToDate(r))
    BY <1>1, <1>14 DEF HandoffInv, Orderly
  <2>2. \A t \in Servers : writing'[t].handoff = writing[t].handoff
                            /\ (writing'[t].step = "idle" <=> writing[t].step = "idle")
    BY <1>1, <1>3
  <2>3. OneWriter(r)'
    BY <2>1, <2>2 DEF OneWriter
  <2>4. CASE r # root
    <3>1. WriterIsNewest(r)'
      BY <1>5, <2>1, <2>2, <2>4 DEF WriterIsNewest, NewestIs
    <3>2. AtPointer(r) => AtPointer(r)'
      BY <1>1, <1>3 DEF AtPointer
    <3>3. UpToDate(r) => UpToDate(r)'
      BY <1>1, <1>5, <2>4 DEF UpToDate
    <3> QED
      BY <2>1, <2>3, <3>1, <3>2, <3>3
  <2>5. CASE r = root
    <3>1. AtPointer(r)'
      BY <1>3, <2>5 DEF AtPointer
    <3>2. \A f \in handoffs'[r] : f.stamp <= h.stamp
      <4>1. NewestIs(r, h.stamp)
        BY <1>1, <2>1, <2>5 DEF WriterIsNewest
      <4>2. h.stamp <= h.stamp
        BY <1>2 DEF Stamp
      <4> QED
        BY <1>5, <1>9, <2>5, <4>1, <4>2 DEF NewestIs
    <3>3. WriterIsNewest(r)'
      <4> SUFFICES ASSUME NEW t \in Servers, writing'[t].step # "idle", writing'[t].handoff.root = r,
                          NEW f \in handoffs'[r]
                   PROVE  f.stamp <= writing'[t].handoff.stamp
        BY DEF WriterIsNewest, NewestIs
      <4>1. t = s
        BY <1>1, <2>1, <2>2, <2>5 DEF OneWriter
      <4> QED
        BY <1>3, <3>2, <4>1
    <3> QED
      BY <2>3, <3>1, <3>3
  <2> QED
    BY <2>4, <2>5
<1> QED
  BY <1>7, <1>11, <1>12, <1>13, <1>14 DEF HandoffInv

(* The pointer is written: it names the writer's file, and no writer is    *)
(* left where none overlapped.                                             *)
LEMMA WritePointerInv ==
    ASSUME HandoffInv, NEW s \in Servers, WritePointer(s)
    PROVE  HandoffInv'
<1> DEFINE h == writing[s].handoff
           root == h.root
<1>1. /\ current' = [current EXCEPT ![root] = h.stamp]
      /\ writing' = [writing EXCEPT ![s] = NotWriting]
      /\ writing[s].step = "pointer"
      /\ UNCHANGED <<handoffs, clock, faults, raced>>
  BY DEF WritePointer
<1>2. h \in Handoff /\ root \in Roots /\ h.stamp \in Stamp
  BY <1>1 DEF HandoffInv, HandoffType, Handoff
<1>3. /\ writing'[s].step = "idle"
      /\ \A t \in Servers \ {s} : writing'[t] = writing[t]
  BY <1>1 DEF HandoffInv, HandoffType, NotWriting
<1>4. /\ current'[root] = h.stamp
      /\ \A r \in Roots \ {root} : current'[r] = current[r]
  BY <1>1, <1>2 DEF HandoffInv, HandoffType
<1>5. HandoffType'
  <2>1. NotWriting \in [step : WritingSteps, handoff : Handoff \cup {None}]
    BY DEF NotWriting, WritingSteps
  <2>2. writing' \in [Servers -> [step : WritingSteps, handoff : Handoff \cup {None}]]
    BY <1>1, <2>1 DEF HandoffInv, HandoffType
  <2>3. \A t \in Servers : writing'[t].step # "idle" => writing'[t].handoff \in Handoff
    BY <1>3 DEF HandoffInv, HandoffType
  <2> QED
    BY <1>1, <1>2, <2>2, <2>3 DEF HandoffInv, HandoffType
<1>6. Named(root, h.stamp)
  BY <1>1 DEF HandoffInv, WritersAreNamed
<1>7. PointersAreNamed'
  BY <1>1, <1>4, <1>6 DEF HandoffInv, PointersAreNamed, Named
<1>8. WritersAreNamed' /\ StampsArePast'
  BY <1>1, <1>3 DEF HandoffInv, WritersAreNamed, StampsArePast, Named
<1>9. ASSUME faults' = 0 PROVE Orderly'
  <2> SUFFICES ASSUME NEW r \in Roots, r \notin raced
               PROVE  OneWriter(r)' /\ WriterIsNewest(r)' /\ (AtPointer(r)' \/ UpToDate(r)')
    BY <1>1 DEF Orderly
  <2>1. OneWriter(r) /\ WriterIsNewest(r) /\ (AtPointer(r) \/ UpToDate(r))
    BY <1>1, <1>9 DEF HandoffInv, Orderly
  <2>2. OneWriter(r)' /\ WriterIsNewest(r)'
    BY <1>1, <1>3, <2>1 DEF OneWriter, WriterIsNewest, NewestIs
  <2>3. CASE r # root
    <3>1. AtPointer(r) => AtPointer(r)'
      BY <1>3, <2>3 DEF AtPointer
    <3>2. UpToDate(r) => UpToDate(r)'
      BY <1>1, <1>4, <2>3 DEF UpToDate
    <3> QED
      BY <2>1, <2>2, <3>1, <3>2
  <2>4. CASE r = root
    <3>1. NewestIs(r, h.stamp)
      BY <1>1, <2>1, <2>4 DEF WriterIsNewest
    <3>2. h.stamp # None
      BY <1>2, HandoffAssumption DEF Stamp
    <3>3. UpToDate(r)'
      BY <1>1, <1>4, <2>4, <3>1, <3>2 DEF UpToDate, NewestIs
    <3> QED
      BY <2>2, <3>3
  <2> QED
    BY <2>3, <2>4
<1> QED
  BY <1>5, <1>7, <1>8, <1>9 DEF HandoffInv

LEMMA FailsInv ==
    ASSUME HandoffInv, NEW s \in Servers, HandoffFails(s)
    PROVE  HandoffInv'
<1>1. /\ writing' = [writing EXCEPT ![s] = NotWriting] /\ faults' = faults + 1
      /\ UNCHANGED <<handoffs, current, clock, raced>>
  BY DEF HandoffFails
<1>2. /\ writing'[s].step = "idle"
      /\ \A t \in Servers \ {s} : writing'[t] = writing[t]
  BY <1>1 DEF HandoffInv, HandoffType, NotWriting
<1>3. HandoffType'
  <2>1. NotWriting \in [step : WritingSteps, handoff : Handoff \cup {None}]
    BY DEF NotWriting, WritingSteps
  <2>2. writing' \in [Servers -> [step : WritingSteps, handoff : Handoff \cup {None}]]
    BY <1>1, <2>1 DEF HandoffInv, HandoffType
  <2>3. \A t \in Servers : writing'[t].step # "idle" => writing'[t].handoff \in Handoff
    BY <1>2 DEF HandoffInv, HandoffType
  <2> QED
    BY <1>1, <2>2, <2>3 DEF HandoffInv, HandoffType
<1>4. PointersAreNamed' /\ WritersAreNamed' /\ StampsArePast'
  BY <1>1, <1>2 DEF HandoffInv, PointersAreNamed, WritersAreNamed, StampsArePast, Named
<1>5. faults' # 0
  BY <1>1 DEF HandoffInv, HandoffType
<1> QED
  BY <1>3, <1>4, <1>5 DEF HandoffInv

(* What leaves the handoffs alone, but for a fault that may be counted.    *)
LEMMA OtherInv ==
    ASSUME HandoffInv, UNCHANGED <<handoffs, current, writing, clock, raced>>,
           faults' = faults \/ faults' = faults + 1
    PROVE  HandoffInv'
<1>1. HandoffType'
  BY DEF HandoffInv, HandoffType
<1>2. PointersAreNamed' /\ WritersAreNamed' /\ StampsArePast'
  BY DEF HandoffInv, PointersAreNamed, WritersAreNamed, StampsArePast, Named
<1>3. faults' = 0 => faults = 0
  BY DEF HandoffInv, HandoffType
<1>4. Orderly => Orderly'
  BY DEF Orderly, OneWriter, WriterIsNewest, NewestIs, AtPointer, UpToDate
<1> QED
  BY <1>1, <1>2, <1>3, <1>4 DEF HandoffInv

------------------------------------------------------------------------------
(* The sessions around it. *)

SetupOK == setup \in Setups

LEMMA RootOfCall ==
    ASSUME SetupOK, NEW s \in Servers, NEW dir \in setup.args
    PROVE  ResolveLedger(s, dir) \in Roots
<1>1. setup.config[s].default \in Dirs \cup {None} /\ dir \in Dirs \cup {None}
  BY ToolsAssumption DEF SetupOK, Config
<1> QED
  BY <1>1, ToolsAssumption DEF ResolveLedger, Default

LEMMA ToolsInv ==
    ASSUME HandoffInv, SetupOK, Next
    PROVE  HandoffInv' /\ SetupOK'
<1>1. CASE \E root \in Roots : Dream(root)
  BY <1>1, OtherInv DEF Dream, handoffVars, SetupOK
<1>2. ASSUME NEW s \in Servers,
             \/ Start(s) \/ Consult(s) \/ Reinforce(s)
             \/ TagHandoffFile(s) \/ TagHandoffPointer(s) \/ Fail(s)
             \/ \E dir \in setup.args : Begins(s, dir)
      PROVE  HandoffInv' /\ SetupOK'
  <2>1. setup' = setup
    <3>1. CASE Start(s) \/ Consult(s) \/ Reinforce(s)
      BY <3>1 DEF Start, Consult, Reinforce
    <3>2. CASE TagHandoffFile(s) \/ TagHandoffPointer(s) \/ Fail(s)
      BY <3>2 DEF TagHandoffFile, TagHandoffPointer, Fail
    <3>3. ASSUME NEW dir, TagLearning(s, dir) \/ \E ref : BeginReinforce(s, dir, ref)
                 \/ \E session : BeginTagHandoff(s, dir, session)
          PROVE  setup' = setup
      BY <3>3 DEF TagLearning, BeginReinforce, BeginTagHandoff
    <3>4. ASSUME NEW dir, NEW tool, NEW ref, BeginRead(s, tool, dir, ref) PROVE setup' = setup
      BY <3>4 DEF BeginRead
    <3> QED
      BY <1>2, <3>1, <3>2, <3>3, <3>4 DEF Begins
  <2> SUFFICES HandoffInv'
    BY <2>1 DEF SetupOK
  <2>3. CASE UNCHANGED handoffVars
    BY <2>3, OtherInv DEF handoffVars
  <2>4. CASE Start(s) \/ Reinforce(s)
    BY <2>3, <2>4 DEF Start, Reinforce
  <2>5. CASE TagHandoffFile(s)
    BY <2>5, WriteFileInv DEF TagHandoffFile
  <2>6. CASE TagHandoffPointer(s)
    BY <2>6, WritePointerInv DEF TagHandoffPointer
  <2>7. CASE Fail(s)
    BY <2>7, FailsInv, OtherInv DEF Fail
  <2>8. ASSUME NEW dir \in setup.args, NEW session \in Sessions, BeginTagHandoff(s, dir, session)
        PROVE  HandoffInv'
    BY <2>8, RootOfCall, BeginInv DEF BeginTagHandoff
  <2>9. ASSUME NEW dir, TagLearning(s, dir) \/ \E ref : BeginReinforce(s, dir, ref)
        PROVE  HandoffInv'
    BY <2>3, <2>9 DEF TagLearning, BeginReinforce
  <2>10. ASSUME NEW dir, NEW tool, NEW ref, BeginRead(s, tool, dir, ref) PROVE HandoffInv'
    BY <2>3, <2>10 DEF BeginRead
  <2>11. CASE Consult(s)
    <3>1. UNCHANGED <<handoffs, current, writing, clock, raced>> /\ (faults' = faults \/ faults' = faults + 1)
      BY <2>11 DEF Consult
    <3> QED
      BY <3>1, OtherInv
  <2> QED
    BY <1>2, <2>4, <2>5, <2>6, <2>7, <2>8, <2>9, <2>10, <2>11 DEF Begins
<1> QED
  BY <1>1, <1>2 DEF Next

LEMMA StepInv == HandoffInv /\ SetupOK /\ [SessionNext]_sessionVars => HandoffInv' /\ SetupOK'
<1> SUFFICES ASSUME HandoffInv, SetupOK, [SessionNext]_sessionVars PROVE HandoffInv' /\ SetupOK'
  OBVIOUS
<1>1. CASE ToolStep
  BY <1>1, ToolsInv DEF ToolStep
<1>2. CASE UNCHANGED vars
  BY <1>2, OtherInv DEF vars, handoffVars, toolVars, SetupOK
<1>3. CASE UNCHANGED sessionVars
  BY <1>2, <1>3 DEF sessionVars
<1>4. SessionNext => ToolStep \/ UNCHANGED vars
  BY DEF SessionNext, HookRuns, HookAfterCall, HookAfterTool
<1> QED
  BY <1>1, <1>2, <1>3, <1>4

(* Whatever the sessions, their servers and the hooks do, and whoever dies *)
(* where: the pointer of a handoff directory names a file that is there,   *)
(* and the newest one, but for a recording between its two writes, one     *)
(* that failed there, and recordings that overlapped under that root.      *)
THEOREM AlwaysCurrentIsLatest == SessionSpec => []CurrentIsLatest
<1>1. SessionInit => HandoffInv /\ SetupOK
  BY InitInv DEF SessionInit, Init, SetupOK
<1> QED
  BY <1>1, StepInv, InvCurrent, PTL DEF SessionSpec

------------------------------------------------------------------------------
(* What was recorded is there: without ties, every handoff has a stamp of  *)
(* its own, and no file replaces another.                                  *)

StampsDiffer ==
    \A s, t \in Servers : writing[s].step # "idle" /\ writing[t].step # "idle"
                           /\ writing[s].handoff.stamp = writing[t].handoff.stamp => s = t
StampIsNew ==
    \A s \in Servers : writing[s].step = "file" =>
        \A r \in Roots : \A f \in handoffs[r] : f.stamp # writing[s].handoff.stamp
FileIsThere ==
    \A s \in Servers : writing[s].step = "pointer" => writing[s].handoff \in handoffs[writing[s].handoff.root]
FilesAtHome == \A r \in Roots : \A f \in handoffs[r] : f.root = r
RecordedArePointed == \A h \in recorded : current[h.root] # None

RecordedInv ==
    /\ recorded \subseteq Handoff /\ ties \in Nat
    /\ FilesAtHome /\ RecordedArePointed
    /\ ties = 0 => StampsDiffer /\ StampIsNew /\ FileIsThere /\ NeverOverwritten

LEMMA RecordedBegin ==
    ASSUME HandoffInv, RecordedInv, NEW s \in Servers, NEW root \in Roots, NEW session \in Sessions,
           BeginHandoff(s, root, session)
    PROVE  RecordedInv'
<1> DEFINE h == [stamp |-> clock', session |-> session, by |-> s, root |-> root]
           w == [step |-> "file", handoff |-> h]
<1>1. /\ writing' = [writing EXCEPT ![s] = w]
      /\ UNCHANGED <<handoffs, current, recorded>>
      /\ ties' \in Nat /\ (ties' = 0 => ties = 0 /\ clock' = clock + 1)
  BY DEF BeginHandoff, RecordedInv
<1>2. h.stamp = clock' /\ w.step = "file" /\ w.handoff = h
  OBVIOUS
<1> HIDE DEF h, w
<1>3. writing'[s] = w /\ \A t \in Servers \ {s} : writing'[t] = writing[t]
  BY <1>1 DEF HandoffInv, HandoffType
<1>4. ASSUME ties' = 0 PROVE (StampsDiffer /\ StampIsNew /\ FileIsThere /\ NeverOverwritten)'
  <2>1. clock \in Nat /\ clock' = clock + 1 /\ StampsDiffer /\ StampIsNew /\ FileIsThere /\ NeverOverwritten
    BY <1>1, <1>4 DEF RecordedInv, HandoffInv, HandoffType
  <2>2. \A t \in Servers : writing[t].step # "idle" => writing[t].handoff.stamp # clock'
    <3>1. \A t \in Servers : writing[t].step # "idle" =>
             writing[t].handoff.stamp \in Nat /\ writing[t].handoff.stamp <= clock
      BY DEF HandoffInv, HandoffType, Handoff, Stamp, StampsArePast
    <3> QED
      BY <2>1, <3>1
  <2>3. \A r \in Roots : \A f \in handoffs[r] : f.stamp # clock'
    <3>1. \A r \in Roots : \A f \in handoffs[r] : f.stamp \in Nat /\ f.stamp <= clock
      BY DEF HandoffInv, HandoffType, Handoff, Stamp, StampsArePast
    <3> QED
      BY <2>1, <3>1
  <2>4. StampsDiffer'
    BY <1>2, <1>3, <2>1, <2>2 DEF StampsDiffer
  <2>5. StampIsNew'
    BY <1>1, <1>2, <1>3, <2>1, <2>3 DEF StampIsNew
  <2> QED
    BY <1>1, <1>2, <1>3, <2>1, <2>4, <2>5 DEF FileIsThere, NeverOverwritten
<1> QED
  BY <1>1, <1>4 DEF RecordedInv, FilesAtHome, RecordedArePointed

LEMMA RecordedWrite ==
    ASSUME HandoffInv, RecordedInv, NEW s \in Servers, WriteHandoff(s)
    PROVE  RecordedInv'
<1> DEFINE h == writing[s].handoff
           root == h.root
           files == {f \in handoffs[root] : f.stamp # h.stamp} \cup {h}
<1>1. /\ handoffs' = [handoffs EXCEPT ![root] = files]
      /\ writing' = [writing EXCEPT ![s].step = "pointer"]
      /\ writing[s].step = "file"
      /\ UNCHANGED <<current, recorded, ties>>
  BY DEF WriteHandoff
<1>2. h \in Handoff /\ root \in Roots
  BY <1>1 DEF HandoffInv, HandoffType, Handoff
<1>3. /\ writing'[s].step = "pointer" /\ writing'[s].handoff = h
      /\ \A t \in Servers \ {s} : writing'[t] = writing[t]
  BY <1>1 DEF HandoffInv, HandoffType
<1>4. /\ handoffs'[root] = files
      /\ \A r \in Roots \ {root} : handoffs'[r] = handoffs[r]
  BY <1>1, <1>2 DEF HandoffInv, HandoffType
<1>5. FilesAtHome'
  BY <1>2, <1>4 DEF RecordedInv, FilesAtHome
<1>6. ASSUME ties' = 0 PROVE (StampsDiffer /\ StampIsNew /\ FileIsThere /\ NeverOverwritten)'
  <2>1. StampsDiffer /\ StampIsNew /\ FileIsThere /\ NeverOverwritten
    BY <1>1, <1>6 DEF RecordedInv
  <2>2. files = handoffs[root] \cup {h}
    BY <1>1, <1>2, <2>1 DEF StampIsNew
  <2>3. \A r \in Roots : handoffs[r] \subseteq handoffs'[r] /\ handoffs'[r] \subseteq handoffs[r] \cup {h}
    BY <1>4, <2>2
  <2>4. StampsDiffer'
    BY <1>1, <1>3, <2>1 DEF StampsDiffer
  <2>5. StampIsNew'
    BY <1>1, <1>3, <2>1, <2>3 DEF StampIsNew, StampsDiffer
  <2>6. FileIsThere'
    <3> SUFFICES ASSUME NEW t \in Servers, writing'[t].step = "pointer"
                 PROVE  writing'[t].handoff \in handoffs'[writing'[t].handoff.root]
      BY DEF FileIsThere
    <3>1. CASE t = s
      BY <1>3, <1>4, <2>2, <3>1
    <3>2. CASE t # s
      <4>1. writing[t].handoff.root \in Roots
        BY <1>3, <3>2 DEF HandoffInv, HandoffType, Handoff
      <4> QED
        BY <1>3, <2>1, <2>3, <3>2, <4>1 DEF FileIsThere
    <3> QED
      BY <3>1, <3>2
  <2>7. NeverOverwritten'
    <3> SUFFICES ASSUME NEW k \in recorded PROVE k \in handoffs'[k.root]
      BY <1>1 DEF NeverOverwritten
    <3>1. k \in handoffs[k.root] /\ k.root \in Roots
      BY <2>1 DEF NeverOverwritten, RecordedInv, Handoff
    <3> QED
      BY <2>3, <3>1
  <2> QED
    BY <2>4, <2>5, <2>6, <2>7
<1> QED
  BY <1>1, <1>5, <1>6 DEF RecordedInv, RecordedArePointed

LEMMA RecordedPointer ==
    ASSUME HandoffInv, RecordedInv, NEW s \in Servers, WritePointer(s)
    PROVE  RecordedInv' /\ recorded \subseteq recorded'
<1> DEFINE h == writing[s].handoff
<1>1. /\ current' = [current EXCEPT ![h.root] = h.stamp]
      /\ writing' = [writing EXCEPT ![s] = NotWriting]
      /\ recorded' = recorded \cup {h}
      /\ writing[s].step = "pointer"
      /\ UNCHANGED <<handoffs, ties>>
  BY DEF WritePointer
<1>2. h \in Handoff /\ h.root \in Roots /\ h.stamp # None
  BY <1>1, HandoffAssumption DEF HandoffInv, HandoffType, Handoff, Stamp
<1>3. writing'[s].step = "idle" /\ \A t \in Servers \ {s} : writing'[t] = writing[t]
  BY <1>1 DEF HandoffInv, HandoffType, NotWriting
<1>4. current'[h.root] # None /\ \A r \in Roots : current[r] # None => current'[r] # None
  BY <1>1, <1>2 DEF HandoffInv, HandoffType
<1>5. RecordedArePointed'
  BY <1>1, <1>2, <1>4 DEF RecordedInv, RecordedArePointed, Handoff
<1>6. ASSUME ties' = 0 PROVE (StampsDiffer /\ StampIsNew /\ FileIsThere /\ NeverOverwritten)'
  <2>1. StampsDiffer /\ StampIsNew /\ FileIsThere /\ NeverOverwritten
    BY <1>1, <1>6 DEF RecordedInv
  <2>2. NeverOverwritten'
    BY <1>1, <2>1 DEF NeverOverwritten, FileIsThere
  <2> QED
    BY <1>1, <1>3, <2>1, <2>2 DEF StampsDiffer, StampIsNew, FileIsThere
<1> QED
  BY <1>1, <1>2, <1>5, <1>6 DEF RecordedInv, FilesAtHome

LEMMA RecordedFails ==
    ASSUME HandoffInv, RecordedInv, NEW s \in Servers, HandoffFails(s)
    PROVE  RecordedInv'
<1>1. /\ writing' = [writing EXCEPT ![s] = NotWriting]
      /\ UNCHANGED <<handoffs, current, ties, recorded>>
  BY DEF HandoffFails
<1>2. /\ writing'[s].step = "idle"
      /\ \A t \in Servers \ {s} : writing'[t] = writing[t]
  BY <1>1 DEF HandoffInv, HandoffType, NotWriting
<1>3. ASSUME ties = 0 PROVE (StampsDiffer /\ StampIsNew /\ FileIsThere /\ NeverOverwritten)'
  BY <1>1, <1>2, <1>3 DEF RecordedInv, StampsDiffer, StampIsNew, FileIsThere, NeverOverwritten
<1> QED
  BY <1>1, <1>3 DEF RecordedInv, FilesAtHome, RecordedArePointed

LEMMA RecordedOther ==
    ASSUME RecordedInv, UNCHANGED <<handoffs, current, writing, ties, recorded>>
    PROVE  RecordedInv'
  BY DEF RecordedInv, FilesAtHome, RecordedArePointed, StampsDiffer, StampIsNew, FileIsThere, NeverOverwritten

------------------------------------------------------------------------------
(* The calls of the tools: their types.                                    *)

CallSteps == {"idle", "consult", "record", "handing", "done"}
ToolNames == ReadTools \cup WriteTools \cup {"none"}
Answers == {"none", "ledgerMissing", "found", "nothing", "created", "notFound", "recorded"}
Asked == Refs \cup Sessions \cup {None}
Value == Learnings \cup Roots \cup Handoff \cup {None}
CallRecord == [step : CallSteps, tool : ToolNames, dir : Dirs \cup {None}, arg : Asked,
               todo : Seq(Roots), answer : Answers, value : Value, known : SUBSET Value,
               cut : SUBSET Value]
RecallRecord == [arg : Asked, dir : Dirs \cup {None}, id : Value]

ToolsType ==
    /\ call \in [Servers -> CallRecord] /\ recalled \in [Servers -> RecallRecord]
    /\ tagged \in [Roots -> SUBSET Learnings] /\ \A r \in Roots : IsFiniteSet(tagged[r])
    /\ dirs \subseteq Roots
    /\ \A s \in Servers : call[s].tool \in {"get", "reinforce"} => call[s].arg \in Refs

(* What the steps of others leave of what a call relies on.                *)
Grows ==
    /\ \A r \in Roots : tagged[r] \subseteq tagged'[r]
    /\ dirs \subseteq dirs' /\ recorded \subseteq recorded'
    /\ ties' = 0 => ties = 0
    /\ setup' = setup

(* What a call may miss: NothingIsMissed.                                  *)
Exempt(c, v) ==
    v \in c.cut \/ (c.tool = "get" /\ Ambiguous(c.arg, v)) \/ (c.tool = "handoff" /\ ties > 0)

(* What was there when a call began is found in a ledger it has to consult.*)
Awaits(s, c) ==
    c.step = "consult" =>
        /\ c.tool \in ReadTools /\ c.todo # <<>> /\ c.answer = "none"
        /\ Default(s, c.dir) # None => c.todo = <<Default(s, c.dir)>> /\ Default(s, c.dir) \in dirs
        /\ \A v \in c.known : Exempt(c, v) \/ \E i \in DOMAIN c.todo : v \in Findable(c.tool, c.arg, c.todo[i])
Missed(c) == c.answer = "nothing" => \A v \in c.known : Exempt(c, v)
FoundLatest(c) ==
    ties = 0 /\ c.tool = "handoff" /\ c.arg # None /\ c.answer = "found" =>
        \A h \in c.known \ c.cut : h.root = c.value.root => h.stamp <= c.value.stamp
(* What a session found under an id in the project's ledger is there.      *)
Recalls(s, m) ==
    m.id # None /\ Default(s, m.dir) # None =>
        Default(s, m.dir) \in dirs /\ m.id \in Hits(Default(s, m.dir), m.arg)
Again(c, m) == c.tool = "reinforce" /\ m.id # None /\ c.arg = m.arg /\ c.dir = m.dir
Reinforces(s, c, m) ==
    Again(c, m) /\ Default(s, c.dir) # None =>
        /\ c.answer # "ledgerMissing"
        /\ c.answer = "notFound" => c.arg \in Prefixes
        /\ c.answer = "recorded" \/ c.step = "record" => c.value = m.id
Hands(s, c) == writing[s].step # "idle" => c.step = "handing" /\ c.tool = "tagHandoff"

CallInv(s) ==
    /\ Awaits(s, call[s]) /\ Missed(call[s]) /\ FoundLatest(call[s])
    /\ Recalls(s, recalled[s]) /\ Reinforces(s, call[s], recalled[s]) /\ Hands(s, call[s])

CallsInv ==
    /\ HandoffInv /\ RecordedInv /\ ToolsType /\ setup \in Setups
    /\ \A s \in Servers : CallInv(s)

LEMMA CallsAreRight == CallsInv => NothingIsMissed /\ SessionFindsItsHandoff /\ ReinforcedIsRecalled
<1> SUFFICES ASSUME CallsInv PROVE NothingIsMissed /\ SessionFindsItsHandoff /\ ReinforcedIsRecalled
  OBVIOUS
<1>1. NothingIsMissed
  BY DEF CallsInv, CallInv, Missed, Exempt, NothingIsMissed
<1>2. SessionFindsItsHandoff
  BY DEF CallsInv, CallInv, FoundLatest, SessionFindsItsHandoff
<1>3. ReinforcedIsRecalled
  BY DEF CallsInv, CallInv, Reinforces, Again, RecalledAgain, ReinforcedIsRecalled
<1> QED
  BY <1>1, <1>2, <1>3

------------------------------------------------------------------------------
(* Where the tools look.                                                   *)

LEMMA DefaultRoot ==
    ASSUME setup \in Setups, NEW s \in Servers, NEW dir \in Dirs \cup {None}
    PROVE  Default(s, dir) \in Dirs \cup {None} /\ (Default(s, dir) # None => Default(s, dir) \in Roots)
<1>1. setup.config[s].default \in Dirs \cup {None}
  BY ToolsAssumption DEF Config
<1> QED
  BY <1>1, ToolsAssumption DEF Default

LEMMA CandidatesAre ==
    ASSUME ToolsType, setup \in Setups, NEW s \in Servers, NEW dir \in Dirs \cup {None}
    PROVE  /\ ReadCandidates(s, dir) \in Seq(Roots)
           /\ Default(s, dir) # None =>
                 ReadCandidates(s, dir) = IF Default(s, dir) \in dirs THEN <<Default(s, dir)>> ELSE <<>>
<1>1. \A r \in Roots : Existing(r) \in Seq(Roots)
  BY DEF Existing
<1>2. setup.config[s].cwd \in Roots /\ Global \in Roots
  BY ToolsAssumption DEF Config
<1>3. CASE Default(s, dir) # None
  BY <1>1, <1>3, DefaultRoot DEF ReadCandidates, Existing
<1>4. CASE Default(s, dir) = None
  <2>1. ReadCandidates(s, dir) = Existing(setup.config[s].cwd) \o Existing(Global)
    BY <1>4 DEF ReadCandidates
  <2> QED
    BY <1>1, <1>2, <1>4, <2>1, ConcatProperties
<1> QED
  BY <1>3, <1>4

(* A set of naturals that is not empty has a least element.                *)
LEMMA LeastElement ==
    ASSUME NEW T, T \subseteq Nat, T # {}
    PROVE  \E n \in T : \A m \in T : n <= m
<1>1. \E n \in T : \A m \in T : ~(<<m, n>> \in OpToRel(<, Nat))
  BY WFMin, NatLessThanWellFounded, Zenon
<1>2. PICK n \in T : \A m \in T : ~(<<m, n>> \in OpToRel(<, Nat))
  BY <1>1
<1>3. ASSUME NEW m \in T PROVE n <= m
  <2>1. m \in Nat /\ n \in Nat /\ <<m, n>> \in Nat \X Nat
    OBVIOUS
  <2>2. ~(m < n)
    BY <1>2, <2>1, Zenon DEF OpToRel
  <2> QED
    BY <2>1, <2>2
<1> QED
  BY <1>3

(* So some handoffs, if there are any, have a newest one.                  *)
LEMMA NewestExists ==
    ASSUME NEW H, H \subseteq Handoff, H # {}
    PROVE  Newest(H) # {}
<1> DEFINE T == {MaxHandoffs - h.stamp : h \in H}
<1>1. \A h \in H : h.stamp \in Nat /\ MaxHandoffs - h.stamp \in Nat
  BY HandoffAssumption DEF Handoff, Stamp
<1>2. PICK n \in T : \A m \in T : n <= m
  <2>1. T \subseteq Nat /\ T # {}
    BY <1>1
  <2> QED
    BY <2>1, LeastElement
<1>3. PICK h \in H : n = MaxHandoffs - h.stamp
  OBVIOUS
<1>4. \A k \in H : k.stamp <= h.stamp
  <2> SUFFICES ASSUME NEW k \in H PROVE k.stamp <= h.stamp
    OBVIOUS
  <2>1. MaxHandoffs - h.stamp <= MaxHandoffs - k.stamp
    BY <1>2, <1>3
  <2> QED
    BY <1>1, <2>1, HandoffAssumption
<1> QED
  BY <1>4 DEF Newest

(* A whole id is the only match of itself.                                 *)
LEMMA MatchOfId ==
    ASSUME ToolsType, NEW root \in Roots, NEW arg
    PROVE  /\ MatchPrefix(root, arg) \subseteq Hits(root, arg) /\ Hits(root, arg) \subseteq Learnings
           /\ arg \in Learnings => MatchPrefix(root, arg) = Hits(root, arg)
           /\ \A l, m : l \in MatchPrefix(root, arg) /\ m \in Hits(root, arg) => l = m
<1>1. Hits(root, arg) \subseteq tagged[root] /\ IsFiniteSet(tagged[root]) /\ tagged[root] \subseteq Learnings
  BY DEF Hits, ToolsType
<1>2. IsFiniteSet(Hits(root, arg))
  BY <1>1, FS_Subset
<1>3. Cardinality(Hits(root, arg)) = 1 <=> \E l : Hits(root, arg) = {l}
  BY <1>2, FS_Singleton
<1>4. MatchPrefix(root, arg) = IF Cardinality(Hits(root, arg)) = 1 THEN Hits(root, arg) ELSE {}
  BY DEF MatchPrefix
<1>5. arg \in Learnings => Hits(root, arg) = {arg} \/ Hits(root, arg) = {}
  BY DEF Hits
<1>6. arg \in Learnings => MatchPrefix(root, arg) = Hits(root, arg)
  BY <1>3, <1>4, <1>5
<1>7. \A l, m : l \in MatchPrefix(root, arg) /\ m \in Hits(root, arg) => l = m
  BY <1>3, <1>4
<1> QED
  BY <1>1, <1>4, <1>6, <1>7

LEMMA ResultType ==
    ASSUME HandoffInv, RecordedInv, ToolsType, NEW tool \in ReadTools, NEW arg, NEW root \in Roots,
           NEW out \in LeftOut(tool, arg, root)
    PROVE  Result(tool, arg, root, out) \subseteq Value /\ out \subseteq Value
<1>1. handoffs[root] \subseteq Handoff /\ tagged[root] \subseteq Learnings
  BY DEF HandoffInv, HandoffType, ToolsType
<1>2. HandoffOne(root, arg, out) \subseteq Handoff
  BY <1>1 DEF HandoffOne, ReadCurrent, LatestForSession, Newest
<1>3. GetOne(root, arg) \subseteq Learnings
  BY MatchOfId DEF GetOne
<1>4. SearchOne(root, arg, out) \subseteq Learnings /\ RecallOne(root, arg) \subseteq Learnings /\ ListOne(root) \subseteq Learnings
  BY <1>1 DEF SearchOne, RecallOne, ListOne, Hits, Covers
<1>5. StatsOne(root) \subseteq Roots /\ SummaryOne(root) \subseteq Roots
  BY DEF StatsOne, SummaryOne
<1>6. Result(tool, arg, root, out) \subseteq Value
  BY <1>2, <1>3, <1>4, <1>5 DEF Result, ReadTools, Value
<1>7. out \subseteq Value
  <2>1. CASE tool = "search" /\ Covers(root)
    BY <1>1, <2>1 DEF LeftOut, Covers, Value
  <2>2. CASE tool = "handoff" /\ arg # None
    BY <1>1, <2>2 DEF LeftOut, Value
  <2>3. CASE ~(tool = "search" /\ Covers(root)) /\ ~(tool = "handoff" /\ arg # None)
    BY <2>3 DEF LeftOut
  <2> QED
    BY <2>1, <2>2, <2>3
<1> QED
  BY <1>6, <1>7

LEMMA FindableType ==
    ASSUME HandoffInv, RecordedInv, ToolsType, NEW tool \in ReadTools, NEW arg, NEW root \in Roots
    PROVE  Findable(tool, arg, root) \subseteq Value
<1>1. tagged[root] \subseteq Learnings /\ recorded \subseteq Handoff
  BY DEF RecordedInv, ToolsType
<1>2. GetOne(root, arg) \subseteq Learnings
  BY MatchOfId DEF GetOne
<1>3. Hits(root, arg) \subseteq Learnings /\ RecallOne(root, arg) \subseteq Learnings /\ ListOne(root) \subseteq Learnings
  BY <1>1 DEF RecallOne, ListOne, Hits
<1>4. StatsOne(root) \subseteq Roots /\ SummaryOne(root) \subseteq Roots
  BY DEF StatsOne, SummaryOne
<1> QED
  BY <1>1, <1>2, <1>3, <1>4 DEF Findable, Result, ReadTools, Value

(* Ledgers grow: an id that is ambiguous remains so.                       *)
LEMMA AmbiguousStays ==
    ASSUME ToolsType, Grows, NEW arg, NEW v, Ambiguous(arg, v)
    PROVE  Ambiguous(arg, v)'
<1>1. PICK r \in Roots : v \in Hits(r, arg) /\ Hits(r, arg) # {v}
  BY DEF Ambiguous
<1>2. PICK a : a = arg
  OBVIOUS
<1>3. Hits(r, a) \subseteq Hits(r, a)'
  BY DEF Hits, Grows
<1>4. v \in Hits(r, a)' /\ Hits(r, a)' # {v}
  BY <1>1, <1>2, <1>3
<1> QED
  BY <1>2, <1>4 DEF Ambiguous, Hits

(* What was findable is still there, but for an id that got ambiguous.     *)
LEMMA FindableStays ==
    ASSUME ToolsType, ToolsType', Grows, NEW tool \in ReadTools, NEW arg \in Asked, NEW root \in Roots,
           NEW v \in Findable(tool, arg, root),
           tool \in {"search", "list"} => (v \in contested' => v \in contested)
    PROVE  v \in Findable(tool, arg, root)' \/ (tool = "get" /\ Ambiguous(arg, v)')
<1>1. tagged[root] \subseteq tagged'[root]
  BY DEF Grows
<1>2. v \in Hits(root, arg) => v \in Hits(root, arg)'
  BY <1>1 DEF Hits
<1>3. CASE tool = "handoff"
  BY <1>3 DEF Findable, Grows
<1>4. CASE tool = "get"
  <2>1. v \in Hits(root, arg)
    BY <1>4, MatchOfId DEF Findable, Result, GetOne
  <2>2. CASE Hits(root, arg)' = {v}
    <3>1. PICK c : c = arg
      OBVIOUS
    <3>2. Cardinality({v}) = 1 /\ Hits(root, c)' = {v}
      BY <2>2, <3>1, FS_Singleton
    <3>3. MatchPrefix(root, c)' = {v}
      BY <3>2 DEF MatchPrefix
    <3> QED
      BY <1>4, <3>1, <3>3 DEF Findable, Result, GetOne
  <2>3. CASE Hits(root, arg)' # {v}
    BY <1>2, <1>4, <2>1, <2>3 DEF Ambiguous
  <2> QED
    BY <2>2, <2>3
<1>5. CASE tool = "search"
  BY <1>2, <1>5 DEF Findable
<1>6. CASE tool = "recall"
  BY <1>2, <1>6 DEF Findable, Result, RecallOne
<1>7. CASE tool = "list"
  BY <1>1, <1>7 DEF Findable, Result, ListOne
<1>8. CASE tool = "stats"
  BY <1>8 DEF Findable, Result, StatsOne
<1>9. CASE tool = "summary"
  BY <1>1, <1>9 DEF Findable, Result, SummaryOne
<1> QED
  BY <1>3, <1>4, <1>5, <1>6, <1>7, <1>8, <1>9 DEF ReadTools

(* The handoffs that were recorded are found, unless a file is skipped, if *)
(* all have their own stamps.                                              *)
LEMMA HandoffIsFound ==
    ASSUME HandoffInv, RecordedInv, ties = 0, NEW root \in Roots, NEW arg, NEW out,
           NEW v \in Findable("handoff", arg, root), v \notin out
    PROVE  /\ Result("handoff", arg, root, out) # {}
           /\ arg # None => \A h \in Result("handoff", arg, root, out) : v.stamp <= h.stamp
<1>1. v \in recorded /\ v.root = root /\ (arg # None => v.session = arg)
  BY DEF Findable
<1>2. v \in handoffs[root]
  BY <1>1 DEF RecordedInv, NeverOverwritten
<1>3. CASE arg = None
  <2>1. current[root] # None
    BY <1>1 DEF RecordedInv, RecordedArePointed
  <2>2. ReadCurrent(root) # {}
    BY <2>1 DEF HandoffInv, PointersAreNamed, Named, ReadCurrent
  <2> QED
    BY <1>3, <2>2 DEF Result, HandoffOne
<1>4. CASE arg # None
  <2> DEFINE own == {h \in handoffs[root] \ out : h.session = arg}
  <2>1. own \subseteq Handoff /\ v \in own
    BY <1>1, <1>2, <1>4 DEF HandoffInv, HandoffType
  <2>2. Result("handoff", arg, root, out) = Newest(own)
    BY <1>4 DEF Result, HandoffOne, LatestForSession
  <2> QED
    BY <2>1, <2>2, NewestExists DEF Newest
<1> QED
  BY <1>3, <1>4

------------------------------------------------------------------------------
(* A step leaves the calls of the others as they are, but that what it     *)
(* contests need not be found any more.                                    *)

Bystands(t) ==
    /\ \A f \in {"step", "tool", "dir", "arg", "todo", "answer", "value", "cut"} : call'[t][f] = call[t][f]
    /\ call'[t].known \subseteq call[t].known
    /\ call[t].tool \in {"search", "list"} /\ call[t].step = "consult" =>
          \A v \in call'[t].known : v \in contested' => v \in contested
    /\ recalled'[t] = recalled[t]
    /\ writing'[t].step # "idle" => writing[t].step # "idle"

LEMMA RecallsStay ==
    ASSUME ToolsType, Grows, NEW t, NEW m, Recalls(t, m)
    PROVE  Recalls(t, m)'
<1>1. Default(t, m.dir)' = Default(t, m.dir)
  BY DEF Default, Grows
<1> SUFFICES ASSUME m.id # None, Default(t, m.dir) # None
             PROVE  Default(t, m.dir) \in dirs' /\ m.id \in Hits(Default(t, m.dir), m.arg)'
  BY <1>1 DEF Recalls, Hits
<1>2. Default(t, m.dir) \in dirs /\ m.id \in Hits(Default(t, m.dir), m.arg)
  BY DEF Recalls
<1>3. PICK root : root = Default(t, m.dir)
  OBVIOUS
<1>4. m.id \in Hits(root, m.arg)'
  BY <1>2, <1>3 DEF Hits, Grows, ToolsType
<1> QED
  BY <1>1, <1>2, <1>3, <1>4 DEF Grows, Hits

LEMMA BystanderInv ==
    ASSUME ToolsType, ToolsType', Grows, setup \in Setups, ties \in Nat, ties' \in Nat,
           NEW t \in Servers, CallInv(t), Bystands(t)
    PROVE  CallInv(t)'
<1>0. PICK c, d, m : c = call[t] /\ d = call'[t] /\ m = recalled[t]
  OBVIOUS
<1>1. /\ d.step = c.step /\ d.tool = c.tool /\ d.dir = c.dir /\ d.arg = c.arg /\ d.todo = c.todo
      /\ d.answer = c.answer /\ d.value = c.value /\ d.cut = c.cut /\ d.known \subseteq c.known
      /\ recalled'[t] = m
  BY <1>0 DEF Bystands
<1>2. /\ c \in CallRecord /\ d \in CallRecord /\ m \in RecallRecord
      /\ c.tool = "get" => c.arg \in Refs
  BY <1>0 DEF ToolsType
<1>3. c.dir \in Dirs \cup {None} /\ m.dir \in Dirs \cup {None} /\ c.todo \in Seq(Roots) /\ c.arg \in Asked
  BY <1>2 DEF CallRecord, RecallRecord
<1>4. Default(t, c.dir)' = Default(t, c.dir) /\ Default(t, m.dir)' = Default(t, m.dir)
  BY DEF Default, Grows
<1>5. Awaits(t, c) /\ Missed(c) /\ FoundLatest(c) /\ Recalls(t, m) /\ Reinforces(t, c, m) /\ Hands(t, c)
  BY <1>0 DEF CallInv
<1>6. ASSUME NEW v, Exempt(c, v) PROVE Exempt(d, v)'
  <2>1. PICK arg : arg = c.arg
    OBVIOUS
  <2>2. Ambiguous(arg, v) => Ambiguous(arg, v)'
    BY AmbiguousStays
  <2>3. c.tool = "get" /\ Ambiguous(c.arg, v) => d.tool = "get" /\ Ambiguous(d.arg, v)'
    BY <1>1, <2>1, <2>2 DEF Ambiguous, Hits
  <2>4. ties > 0 => ties' > 0
    BY DEF Grows
  <2> QED
    BY <1>1, <1>6, <2>3, <2>4 DEF Exempt
<1>7. Awaits(t, d)'
  <2> SUFFICES ASSUME d.step = "consult"
               PROVE  /\ d.tool \in ReadTools /\ d.todo # <<>> /\ d.answer = "none"
                      /\ Default(t, d.dir)' # None => d.todo = <<Default(t, d.dir)'>> /\ Default(t, d.dir)' \in dirs'
                      /\ \A v \in d.known : Exempt(d, v)' \/ \E i \in DOMAIN d.todo : v \in Findable(d.tool, d.arg, d.todo[i])'
    BY Zenon DEF Awaits
  <2>1. /\ c.tool \in ReadTools /\ c.todo # <<>> /\ c.answer = "none"
        /\ Default(t, c.dir) # None => c.todo = <<Default(t, c.dir)>> /\ Default(t, c.dir) \in dirs
        /\ \A v \in c.known : Exempt(c, v) \/ \E i \in DOMAIN c.todo : v \in Findable(c.tool, c.arg, c.todo[i])
    BY <1>1, <1>5 DEF Awaits
  <2>2. ASSUME NEW v \in d.known, ~Exempt(d, v)'
        PROVE  \E i \in DOMAIN d.todo : v \in Findable(d.tool, d.arg, d.todo[i])'
    <3>1. PICK i \in DOMAIN c.todo : v \in Findable(c.tool, c.arg, c.todo[i])
      BY <1>1, <1>6, <2>1, <2>2
    <3>2. c.todo[i] \in Roots
      BY <1>3
    <3>3. c.tool \in {"search", "list"} => (v \in contested' => v \in contested)
      BY <1>0, <1>1, <2>2 DEF Bystands
    <3>4. PICK root, tool, arg : root = c.todo[i] /\ tool = c.tool /\ arg = c.arg
      OBVIOUS
    <3>5. v \in Findable(tool, arg, root)' \/ (tool = "get" /\ Ambiguous(arg, v)')
      BY <1>3, <2>1, <3>1, <3>2, <3>3, <3>4, FindableStays
    <3>6. root = d.todo[i] /\ tool = d.tool /\ arg = d.arg /\ i \in DOMAIN d.todo
      BY <1>1, <3>4
    <3> QED
      BY <2>2, <3>5, <3>6 DEF Exempt
  <2>3. dirs \subseteq dirs' /\ Default(t, d.dir)' = Default(t, c.dir)
    BY <1>1, <1>4 DEF Grows
  <2> QED
    BY <1>1, <2>1, <2>2, <2>3
<1>8. Missed(d)'
  <2>1. ASSUME d.answer = "nothing", NEW v \in d.known PROVE Exempt(d, v)'
    BY <1>1, <1>5, <1>6, <2>1 DEF Missed
  <2> QED
    BY <2>1, Zenon DEF Missed
<1>9. FoundLatest(d)'
  BY <1>1, <1>5 DEF FoundLatest, Grows
<1>10. Recalls(t, m)'
  BY <1>5, RecallsStay
<1>11. Reinforces(t, d, m)'
  BY <1>1, <1>4, <1>5 DEF Reinforces, Again
<1>12. Hands(t, d)'
  BY <1>1, <1>5 DEF Hands, Bystands
<1> QED
  BY <1>0, <1>1, <1>7, <1>8, <1>9, <1>10, <1>11, <1>12
  DEF CallInv, Awaits, Missed, FoundLatest, Recalls, Reinforces, Hands

LEMMA NothingMoves ==
    ASSUME CallsInv, UNCHANGED <<handoffs, current, writing, clock, ties, faults, recorded, raced>>,
           UNCHANGED <<dirs, tagged, contested, call, recalled, setup>>
    PROVE  CallsInv'
<1>1. HandoffInv' /\ RecordedInv' /\ setup' \in Setups
  BY OtherInv, RecordedOther DEF CallsInv
<1>2. ToolsType' /\ Grows /\ \A t \in Servers : Bystands(t)
  BY DEF CallsInv, ToolsType, Grows, Bystands
<1>3. \A t \in Servers : CallInv(t)'
  BY <1>1, <1>2, BystanderInv DEF CallsInv, RecordedInv
<1> QED
  BY <1>1, <1>2, <1>3 DEF CallsInv

------------------------------------------------------------------------------
(* The server that takes the step.                                         *)

LEMMA CallBecomes ==
    ASSUME ToolsType, NEW s \in Servers, NEW c \in CallRecord, call' = [call EXCEPT ![s] = c],
           c.tool \in {"get", "reinforce"} => c.arg \in Refs
    PROVE  /\ call' \in [Servers -> CallRecord] /\ call'[s] = c
           /\ \A t \in Servers \ {s} : call'[t] = call[t]
           /\ \A t \in Servers : call'[t].tool \in {"get", "reinforce"} => call'[t].arg \in Refs
<1>1. call' \in [Servers -> CallRecord]
  BY DEF ToolsType
<1>2. call'[s] = c /\ \A t \in Servers \ {s} : call'[t] = call[t]
  BY DEF ToolsType
<1> QED
  BY <1>1, <1>2 DEF ToolsType

LEMMA CallOfType ==
    ASSUME NEW tool \in ToolNames, NEW dir \in Dirs \cup {None}, NEW arg \in Asked
    PROVE  LET c == CallOf(tool, dir, arg)
           IN  /\ c \in CallRecord /\ c.step = "idle" /\ c.tool = tool /\ c.dir = dir /\ c.arg = arg
               /\ c.answer = "none" /\ c.known = {} /\ c.value = None
<1>1. <<>> \in Seq(Roots)
  OBVIOUS
<1> QED
  BY <1>1 DEF CallOf, NoCall, CallRecord, CallSteps, Answers, Value

CallsType ==
    /\ call \in [Servers -> CallRecord]
    /\ \A t \in Servers : call[t].tool \in {"get", "reinforce"} => call[t].arg \in Refs

LEMMA AnsweredIs ==
    ASSUME ToolsType, NEW s \in Servers, NEW c \in CallRecord, NEW answer \in Answers, NEW value \in Value,
           Answered(s, c, answer, value), c.tool \in {"get", "reinforce"} => c.arg \in Refs
    PROVE  /\ CallsType' /\ \A t \in Servers \ {s} : call'[t] = call[t]
           /\ \E d \in CallRecord :
                 /\ call'[s] = d /\ d.step = "done" /\ d.tool = c.tool /\ d.dir = c.dir /\ d.arg = c.arg
                 /\ d.answer = answer /\ d.known = c.known /\ d.value = value /\ d.cut = c.cut
<1>1. <<>> \in Seq(Roots)
  OBVIOUS
<1>2. PICK d : d = [c EXCEPT !.step = "done", !.answer = answer, !.value = value, !.todo = <<>>]
  OBVIOUS
<1>3. /\ d \in CallRecord /\ d.step = "done" /\ d.tool = c.tool /\ d.dir = c.dir /\ d.arg = c.arg
      /\ d.answer = answer /\ d.known = c.known /\ d.value = value /\ d.cut = c.cut
  BY <1>1, <1>2 DEF CallRecord, CallSteps
<1>4. call' = [call EXCEPT ![s] = d]
  BY <1>2 DEF Answered
<1> QED
  BY <1>3, <1>4, CallBecomes DEF CallsType

(* A call that looks for nothing.                                          *)
LEMMA PlainCall ==
    ASSUME ToolsType, Grows, NEW s \in Servers, CallInv(s), NEW c, call'[s] = c,
           c.step # "consult", c.tool # "reinforce", c.answer # "nothing",
           c.tool = "handoff" => c.answer # "found",
           recalled'[s] = recalled[s] \/ recalled'[s] = NotRecalled,
           writing'[s].step # "idle" => c.step = "handing" /\ c.tool = "tagHandoff"
    PROVE  CallInv(s)'
<1>1. PICK m : m = recalled'[s] /\ (m = recalled[s] \/ m.id = None)
  BY DEF NotRecalled
<1>2. Recalls(s, m)
  BY <1>1 DEF CallInv, Recalls
<1>3. Recalls(s, m)'
  BY <1>2, RecallsStay
<1>4. /\ Awaits(s, c)' /\ Missed(c)' /\ FoundLatest(c)' /\ Reinforces(s, c, m)' /\ Hands(s, c)'
  BY DEF Awaits, Missed, FoundLatest, Reinforces, Again, Hands
<1> QED
  BY <1>1, <1>3, <1>4 DEF CallInv, Awaits, Missed, FoundLatest, Recalls, Reinforces, Hands

LEMMA BeginReadInv ==
    ASSUME CallsInv, NEW s \in Servers, NEW tool \in ReadTools, NEW dir \in setup.args, NEW arg \in Asked,
           tool = "get" => arg \in Refs, BeginRead(s, tool, dir, arg)
    PROVE  ToolsType' /\ Grows /\ CallInv(s)' /\ \A t \in Servers \ {s} : Bystands(t)
<1>a. PICK roots : roots = ReadCandidates(s, dir)
  OBVIOUS
<1>b. PICK c : c = CallOf(tool, dir, arg)
  OBVIOUS
<1>c. PICK known : known = UNION {Findable(tool, arg, roots[i]) : i \in DOMAIN roots}
  OBVIOUS
<1>d. PICK d :
         /\ roots = <<>> => d = [c EXCEPT !.step = "done", !.answer = "ledgerMissing", !.value = None, !.todo = <<>>]
         /\ roots # <<>> => d = [c EXCEPT !.step = "consult", !.todo = roots, !.known = known]
  OBVIOUS
<1>1. /\ call' = [call EXCEPT ![s] = d] /\ call[s].step \in {"idle", "done"}
      /\ UNCHANGED <<handoffs, current, writing, clock, ties, faults, recorded, raced>>
      /\ UNCHANGED <<dirs, tagged, contested, recalled, setup>>
  BY <1>a, <1>b, <1>c, <1>d DEF BeginRead, Answered, Calls, handoffVars
<1>2. HandoffInv /\ RecordedInv /\ ToolsType /\ setup \in Setups /\ CallInv(s)
  BY DEF CallsInv
<1>3. dir \in Dirs \cup {None}
  BY <1>2, ToolsAssumption
<1>4. /\ c \in CallRecord /\ c.step = "idle" /\ c.tool = tool /\ c.dir = dir /\ c.arg = arg
      /\ c.answer = "none" /\ c.known = {}
  BY <1>b, <1>3, CallOfType DEF ToolNames
<1>5. /\ roots \in Seq(Roots)
      /\ Default(s, dir) # None =>
            roots = IF Default(s, dir) \in dirs THEN <<Default(s, dir)>> ELSE <<>>
  BY <1>a, <1>2, <1>3, CandidatesAre
<1>6. known \subseteq Value
  <2> SUFFICES ASSUME NEW i \in DOMAIN roots PROVE Findable(tool, arg, roots[i]) \subseteq Value
    BY <1>c
  <2>1. roots[i] \in Roots
    BY <1>5
  <2> QED
    BY <1>2, <2>1, FindableType
<1>7. \A v \in known : \E i \in DOMAIN roots : v \in Findable(tool, arg, roots[i])
  BY <1>c
<1>8. d \in CallRecord /\ d.tool = tool /\ d.dir = dir /\ d.arg = arg
  <2>1. CASE roots = <<>>
    <3>1. "ledgerMissing" \in Answers /\ None \in Value /\ <<>> \in Seq(Roots)
      BY DEF Answers, Value
    <3>2. d = [c EXCEPT !.step = "done", !.answer = "ledgerMissing", !.value = None, !.todo = <<>>]
      BY <1>d, <2>1
    <3>3. d \in CallRecord /\ d.tool = c.tool /\ d.dir = c.dir /\ d.arg = c.arg
      BY <1>4, <3>1, <3>2 DEF CallRecord, CallSteps
    <3> QED
      BY <1>4, <3>3
  <2>2. CASE roots # <<>>
    BY <1>d, <1>4, <1>5, <1>6, <2>2 DEF CallRecord, CallSteps
  <2> QED
    BY <2>1, <2>2
<1>9. Grows /\ (ties = 0 => ties' = 0)
  BY <1>1 DEF Grows
<1>10. /\ call' \in [Servers -> CallRecord] /\ call'[s] = d
       /\ \A t \in Servers \ {s} : call'[t] = call[t]
       /\ \A t \in Servers : call'[t].tool \in {"get", "reinforce"} => call'[t].arg \in Refs
  <2>1. d.tool \in {"get", "reinforce"} => d.arg \in Refs
    BY <1>8 DEF ReadTools
  <2> QED
    BY <1>1, <1>2, <1>8, <2>1, CallBecomes
<1>11. ToolsType'
  BY <1>1, <1>2, <1>10 DEF ToolsType
<1>12. \A t \in Servers \ {s} : Bystands(t)
  BY <1>1, <1>10 DEF Bystands
<1>13. Hands(s, call[s]) => writing[s].step = "idle"
  BY <1>1 DEF Hands
<1>14. writing'[s].step = "idle"
  BY <1>1, <1>2, <1>13 DEF CallInv
<1>15. CASE roots = <<>>
  <2>1. d.step = "done" /\ d.answer = "ledgerMissing"
    BY <1>d, <1>4, <1>15 DEF CallRecord
  <2>2. d.tool # "reinforce"
    BY <1>8 DEF ReadTools
  <2>3. CallInv(s)'
    BY <1>1, <1>2, <1>9, <1>10, <1>14, <2>1, <2>2, PlainCall
  <2> QED
    BY <1>9, <1>11, <1>12, <2>3
<1>16. CASE roots # <<>>
  <2>1. d.step = "consult" /\ d.todo = roots /\ d.known = known /\ d.answer = "none"
    BY <1>d, <1>4, <1>16 DEF CallRecord
  <2>2. Default(s, dir)' = Default(s, dir)
    BY <1>1 DEF Default
  <2>3. Awaits(s, d)'
    <3>1. ASSUME NEW v \in known, ~Exempt(d, v)'
          PROVE  \E i \in DOMAIN roots : v \in Findable(tool, arg, roots[i])'
      <4>1. PICK i \in DOMAIN roots : v \in Findable(tool, arg, roots[i])
        BY <1>7
      <4>2. PICK root \in Roots : root = roots[i]
        BY <1>5
      <4>3. v \in Findable(tool, arg, root)' \/ (tool = "get" /\ Ambiguous(arg, v)')
        BY <1>1, <1>2, <1>9, <1>11, <4>1, <4>2, FindableStays
      <4>4. v \in Findable(tool, arg, root)'
        BY <1>8, <3>1, <4>3 DEF Exempt
      <4> QED
        BY <4>2, <4>4
    <3> QED
      BY <1>1, <1>5, <1>8, <1>16, <2>1, <2>2, <3>1 DEF Awaits
  <2>4. PICK m : m = recalled'[s] /\ m = recalled[s]
    BY <1>1
  <2>5. Recalls(s, m)'
    <3>1. Recalls(s, m)
      BY <1>2, <2>4 DEF CallInv
    <3> QED
      BY <1>2, <1>9, <3>1, RecallsStay
  <2>6. Missed(d)' /\ FoundLatest(d)' /\ Reinforces(s, d, m)' /\ Hands(s, d)'
    BY <1>8, <1>14, <2>1 DEF Missed, FoundLatest, Reinforces, Again, Hands, ReadTools
  <2>7. CallInv(s)'
    BY <1>10, <2>3, <2>4, <2>5, <2>6 DEF CallInv, Awaits, Missed, FoundLatest, Recalls, Reinforces, Hands
  <2> QED
    BY <1>9, <1>11, <1>12, <2>7
<1> QED
  BY <1>15, <1>16

(* A ledger that is consulted shows what the call has to find there, but   *)
(* for what the answer leaves out.                                         *)
LEMMA LookFinds ==
    ASSUME HandoffInv, RecordedInv, NEW tool \in ReadTools, NEW arg, NEW root \in Roots, NEW out,
           NEW v \in Findable(tool, arg, root), v \notin out, tool = "handoff" => ties = 0
    PROVE  Result(tool, arg, root, out) # {}
<1>1. CASE tool = "handoff"
  BY <1>1, HandoffIsFound
<1>2. CASE tool = "search"
  <2>1. v \in Hits(root, arg) /\ v \in tagged[root] /\ v \notin contested
    BY <1>2 DEF Findable, Hits
  <2> QED
    BY <1>2, <2>1 DEF Result, SearchOne, Covers
<1>3. CASE tool \notin {"handoff", "search"}
  BY <1>3 DEF Findable, Result, ReadTools
<1> QED
  BY <1>1, <1>2, <1>3

(* The call after one ledger has been consulted, before it is answered.    *)
LEMMA LookCall ==
    ASSUME CallsInv, NEW s \in Servers, call[s].step = "consult",
           NEW out \in LeftOut(call[s].tool, call[s].arg, Head(call[s].todo))
    PROVE  LET c == call[s]  e == [c EXCEPT !.cut = @ \cup out]
           IN  /\ e \in CallRecord /\ e.cut = c.cut \cup out
               /\ \A f \in {"step", "tool", "dir", "arg", "todo", "answer", "value", "known"} : e[f] = c[f]
<1>1. PICK c, e : c = call[s] /\ e = [c EXCEPT !.cut = c.cut \cup out]
  OBVIOUS
<1>2. c \in CallRecord /\ c.tool \in ReadTools /\ c.todo # <<>>
  BY <1>1 DEF CallsInv, ToolsType, CallInv, Awaits
<1>3. PICK root \in Roots : root = Head(c.todo)
  BY <1>2 DEF CallRecord
<1>4. PICK tool, arg : tool = c.tool /\ arg = c.arg
  OBVIOUS
<1>5. out \subseteq Value
  BY <1>1, <1>2, <1>3, <1>4, ResultType DEF CallsInv
<1>6. e \in CallRecord
  BY <1>1, <1>2, <1>5 DEF CallRecord
<1>7. e.cut = c.cut \cup out /\ \A f \in {"step", "tool", "dir", "arg", "todo", "answer", "value", "known"} : e[f] = c[f]
  BY <1>1, <1>2 DEF CallRecord
<1> QED
  BY <1>1, <1>6, <1>7

LEMMA ConsultFound ==
    ASSUME CallsInv, NEW s \in Servers, Consult(s),
           NEW out \in LeftOut(call[s].tool, call[s].arg, Head(call[s].todo)),
           Consulted(s, Head(call[s].todo), out),
           Result(call[s].tool, call[s].arg, Head(call[s].todo), out) # {}
    PROVE  ToolsType' /\ Grows /\ CallInv(s)' /\ \A t \in Servers \ {s} : Bystands(t)
<1>a. PICK c : c = call[s]
  OBVIOUS
<1>b. PICK root : root = Head(c.todo)
  OBVIOUS
<1>c. PICK e : e = [c EXCEPT !.cut = @ \cup out]
  OBVIOUS
<1>1. /\ c.step = "consult"
      /\ UNCHANGED <<handoffs, current, writing, clock, ties, recorded, raced>>
      /\ UNCHANGED <<dirs, tagged, contested, setup>>
      /\ recalled' = IF c.tool = "get" /\ call'[s].answer = "found"
                     THEN [recalled EXCEPT ![s] = [arg |-> c.arg, dir |-> c.dir, id |-> call'[s].value]]
                     ELSE recalled
  BY <1>a DEF Consult
<1>2. HandoffInv /\ RecordedInv /\ ToolsType /\ setup \in Setups /\ CallInv(s)
  BY DEF CallsInv
<1>3. /\ c \in CallRecord /\ (c.tool \in {"get", "reinforce"} => c.arg \in Refs)
      /\ c.dir \in Dirs \cup {None} /\ c.arg \in Asked /\ c.todo \in Seq(Roots)
  BY <1>2, <1>a DEF ToolsType, CallRecord
<1>4. /\ c.tool \in ReadTools /\ c.todo # <<>>
      /\ Default(s, c.dir) # None => c.todo = <<Default(s, c.dir)>> /\ Default(s, c.dir) \in dirs
      /\ \A v \in c.known : Exempt(c, v) \/ \E i \in DOMAIN c.todo : v \in Findable(c.tool, c.arg, c.todo[i])
  BY <1>1, <1>2, <1>a DEF CallInv, Awaits
<1>5. root \in Roots /\ (Default(s, c.dir) # None => root = Default(s, c.dir) /\ root \in dirs)
  BY <1>3, <1>4, <1>b
<1>e. /\ e \in CallRecord /\ e.cut = c.cut \cup out
      /\ e.tool = c.tool /\ e.dir = c.dir /\ e.arg = c.arg /\ e.todo = c.todo /\ e.known = c.known
  BY <1>1, <1>a, <1>c, LookCall
<1>6. PICK v \in Result(c.tool, c.arg, root, out) : Answered(s, e, "found", v)
  <2>1. Result(e.tool, e.arg, root, out) # {}
    BY <1>a, <1>b, <1>e
  <2>2. \E v \in Result(e.tool, e.arg, root, out) : Answered(s, e, "found", v)
    BY <1>a, <1>b, <1>c, <2>1 DEF Consulted
  <2> QED
    BY <1>e, <2>2
<1>7. v \in Value /\ "found" \in Answers
  <2>1. PICK tool, arg : tool = c.tool /\ arg = c.arg
    OBVIOUS
  <2>2. out \in LeftOut(tool, arg, root) /\ v \in Result(tool, arg, root, out)
    BY <1>a, <1>b, <1>6, <2>1
  <2> QED
    BY <1>2, <1>4, <1>5, <2>1, <2>2, ResultType DEF Answers
<1>8. PICK d \in CallRecord :
         /\ call'[s] = d /\ d.step = "done" /\ d.tool = c.tool /\ d.dir = c.dir /\ d.arg = c.arg
         /\ d.answer = "found" /\ d.known = c.known /\ d.value = v /\ d.cut = c.cut \cup out
  BY <1>2, <1>3, <1>e, <1>6, <1>7, AnsweredIs
<1>9. CallsType' /\ \A t \in Servers \ {s} : call'[t] = call[t]
  BY <1>2, <1>3, <1>e, <1>6, <1>7, AnsweredIs
<1>10. Grows
  BY <1>1 DEF Grows
<1>11. PICK m \in RecallRecord :
          /\ recalled'[s] = m /\ m = IF c.tool = "get" THEN [arg |-> c.arg, dir |-> c.dir, id |-> v] ELSE recalled[s]
          /\ recalled' \in [Servers -> RecallRecord]
          /\ \A t \in Servers \ {s} : recalled'[t] = recalled[t]
  <2>1. CASE c.tool = "get"
    <3>1. recalled' = [recalled EXCEPT ![s] = [arg |-> c.arg, dir |-> c.dir, id |-> v]]
      BY <1>1, <1>8, <2>1
    <3>2. [arg |-> c.arg, dir |-> c.dir, id |-> v] \in RecallRecord
      BY <1>3, <1>7 DEF RecallRecord
    <3> QED
      BY <1>2, <2>1, <3>1, <3>2 DEF ToolsType
  <2>2. CASE c.tool # "get"
    BY <1>1, <1>2, <2>2 DEF ToolsType
  <2> QED
    BY <2>1, <2>2
<1>12. ToolsType'
  BY <1>1, <1>2, <1>9, <1>11 DEF ToolsType, CallsType
<1>13. \A t \in Servers \ {s} : Bystands(t)
  BY <1>1, <1>9, <1>11 DEF Bystands
<1>14. FoundLatest(d)'
  <2> SUFFICES ASSUME ties = 0, c.tool = "handoff", c.arg # None, NEW h \in c.known \ (c.cut \cup out), h.root = v.root
               PROVE  h.stamp <= v.stamp
    BY <1>1, <1>8 DEF FoundLatest
  <2>1. PICK i \in DOMAIN c.todo : h \in Findable("handoff", c.arg, c.todo[i])
    BY <1>4 DEF Exempt, ReadTools
  <2>2. v.root = root
    BY <1>2, <1>5, <1>6 DEF Result, HandoffOne, LatestForSession, Newest, RecordedInv, FilesAtHome
  <2>3. PICK arg : arg = c.arg
    OBVIOUS
  <2>4. h \in Findable("handoff", arg, root)
    BY <2>1, <2>2, <2>3 DEF Findable
  <2>5. \A k \in Result("handoff", arg, root, out) : h.stamp <= k.stamp
    BY <1>2, <1>5, <2>3, <2>4, HandoffIsFound
  <2> QED
    BY <1>6, <2>3, <2>5
<1>15. Recalls(s, m)'
  <2>1. Recalls(s, m)
    <3>1. CASE c.tool = "get"
      <4>1. v \in Hits(root, c.arg)
        <5>1. PICK arg : arg = c.arg
          OBVIOUS
        <5>2. v \in MatchPrefix(root, arg)
          BY <1>6, <3>1, <5>1 DEF Result, GetOne
        <5>3. v \in Hits(root, arg)
          BY <1>2, <1>5, <5>2, MatchOfId
        <5> QED
          BY <5>1, <5>3
      <4>2. m.arg = c.arg /\ m.dir = c.dir /\ m.id = v
        BY <1>11, <3>1
      <4> QED
        BY <1>5, <4>1, <4>2 DEF Recalls
    <3>2. CASE c.tool # "get"
      BY <1>2, <1>11, <3>2 DEF CallInv
    <3> QED
      BY <3>1, <3>2
  <2> QED
    BY <1>2, <1>10, <2>1, RecallsStay
<1>16. writing'[s].step = "idle"
  BY <1>1, <1>2, <1>a DEF CallInv, Hands
<1>17. Awaits(s, d)' /\ Missed(d)' /\ Reinforces(s, d, m)' /\ Hands(s, d)'
  BY <1>4, <1>8, <1>16 DEF Awaits, Missed, Reinforces, Again, Hands, ReadTools
<1>18. CallInv(s)'
  BY <1>8, <1>11, <1>14, <1>15, <1>17 DEF CallInv, Awaits, Missed, FoundLatest, Recalls, Reinforces, Hands
<1> QED
  BY <1>10, <1>12, <1>13, <1>18

LEMMA ConsultNothing ==
    ASSUME CallsInv, NEW s \in Servers, Consult(s),
           NEW out \in LeftOut(call[s].tool, call[s].arg, Head(call[s].todo)),
           Consulted(s, Head(call[s].todo), out),
           Result(call[s].tool, call[s].arg, Head(call[s].todo), out) = {}
    PROVE  ToolsType' /\ Grows /\ CallInv(s)' /\ \A t \in Servers \ {s} : Bystands(t)
<1>a. PICK c : c = call[s]
  OBVIOUS
<1>b. PICK root : root = Head(c.todo)
  OBVIOUS
<1>c. PICK e : e = [c EXCEPT !.cut = @ \cup out]
  OBVIOUS
<1>1. /\ c.step = "consult"
      /\ UNCHANGED <<handoffs, current, writing, clock, ties, recorded, raced>>
      /\ UNCHANGED <<dirs, tagged, contested, setup>>
      /\ recalled' = IF c.tool = "get" /\ call'[s].answer = "found"
                     THEN [recalled EXCEPT ![s] = [arg |-> c.arg, dir |-> c.dir, id |-> call'[s].value]]
                     ELSE recalled
  BY <1>a DEF Consult
<1>2. HandoffInv /\ RecordedInv /\ ToolsType /\ setup \in Setups /\ CallInv(s)
  BY DEF CallsInv
<1>3. /\ c \in CallRecord /\ (c.tool \in {"get", "reinforce"} => c.arg \in Refs)
      /\ c.dir \in Dirs \cup {None} /\ c.arg \in Asked /\ c.todo \in Seq(Roots)
  BY <1>2, <1>a DEF ToolsType, CallRecord
<1>4. /\ c.tool \in ReadTools /\ c.todo # <<>> /\ c.answer = "none"
      /\ Default(s, c.dir) # None => c.todo = <<Default(s, c.dir)>> /\ Default(s, c.dir) \in dirs
      /\ \A v \in c.known : Exempt(c, v) \/ \E i \in DOMAIN c.todo : v \in Findable(c.tool, c.arg, c.todo[i])
  BY <1>1, <1>2, <1>a DEF CallInv, Awaits
<1>5. root \in Roots /\ Len(c.todo) \in Nat \ {0} /\ DOMAIN c.todo = 1 .. Len(c.todo) /\ root = c.todo[1]
  BY <1>3, <1>4, <1>b
<1>e. /\ e \in CallRecord /\ e.cut = c.cut \cup out /\ e.step = c.step /\ e.answer = c.answer
      /\ e.tool = c.tool /\ e.dir = c.dir /\ e.arg = c.arg /\ e.todo = c.todo /\ e.known = c.known
  BY <1>1, <1>a, <1>c, LookCall
<1>f. PICK tool, arg : tool = c.tool /\ arg = c.arg
  OBVIOUS
<1>g. \A v : Exempt(e, v) <=> v \in out \/ Exempt(c, v)
  BY <1>e DEF Exempt, Ambiguous, Hits
<1>h. \A v : Ambiguous(arg, v)' <=> Ambiguous(arg, v)
  BY <1>1 DEF Ambiguous, Hits
<1>6. \A v \in c.known : ~Exempt(e, v) => \E i \in DOMAIN c.todo : i # 1 /\ v \in Findable(c.tool, c.arg, c.todo[i])
  <2> SUFFICES ASSUME NEW v \in c.known, ~Exempt(e, v)
               PROVE  \E i \in DOMAIN c.todo : i # 1 /\ v \in Findable(c.tool, c.arg, c.todo[i])
    OBVIOUS
  <2>1. PICK i \in DOMAIN c.todo : v \in Findable(c.tool, c.arg, c.todo[i])
    BY <1>4, <1>g
  <2>2. Result(tool, arg, root, out) = {}
    BY <1>a, <1>b, <1>f
  <2>3. v \notin out /\ (tool = "handoff" => ties = 0)
    BY <1>2, <1>f, <1>g DEF Exempt, RecordedInv
  <2>4. v \notin Findable(tool, arg, root)
    BY <1>2, <1>4, <1>5, <1>f, <2>2, <2>3, LookFinds
  <2> QED
    BY <1>5, <1>f, <2>1, <2>4
<1>7. Grows
  BY <1>1 DEF Grows
<1>8. writing'[s].step = "idle" /\ Recalls(s, recalled[s])
  BY <1>1, <1>2, <1>a DEF CallInv, Hands
<1>9. ASSUME NEW d, d \in CallRecord, CallsType', \A t \in Servers \ {s} : call'[t] = call[t], call'[s] = d,
             d.answer # "found", d.tool = c.tool, Awaits(s, d)', Missed(d)'
      PROVE  ToolsType' /\ CallInv(s)' /\ \A t \in Servers \ {s} : Bystands(t)
  <2>1. recalled' = recalled
    BY <1>1, <1>9
  <2>2. ToolsType'
    BY <1>1, <1>2, <1>9, <2>1 DEF ToolsType, CallsType
  <2>3. \A t \in Servers \ {s} : Bystands(t)
    BY <1>1, <1>9, <2>1 DEF Bystands
  <2>4. PICK m : m = recalled'[s] /\ m = recalled[s]
    BY <2>1
  <2>5. Recalls(s, m)'
    BY <1>2, <1>7, <1>8, <2>4, RecallsStay
  <2>6. FoundLatest(d)' /\ Reinforces(s, d, m)' /\ Hands(s, d)'
    BY <1>4, <1>8, <1>9 DEF FoundLatest, Reinforces, Again, Hands, ReadTools
  <2>7. CallInv(s)'
    BY <1>9, <2>4, <2>5, <2>6 DEF CallInv, Awaits, Missed, FoundLatest, Recalls, Reinforces, Hands
  <2> QED
    BY <2>2, <2>3, <2>7
<1>10. CASE Len(c.todo) = 1
  <2>1. Answered(s, e, "nothing", None)
    <3>1. Result(e.tool, e.arg, root, out) = {} /\ Len(e.todo) = 1
      BY <1>a, <1>b, <1>e, <1>10
    <3> QED
      BY <1>a, <1>b, <1>c, <3>1 DEF Consulted
  <2>2. "nothing" \in Answers /\ None \in Value
    BY DEF Answers, Value
  <2>3. PICK d \in CallRecord :
           /\ call'[s] = d /\ d.step = "done" /\ d.tool = c.tool /\ d.arg = c.arg
           /\ d.answer = "nothing" /\ d.known = c.known /\ d.cut = e.cut
    BY <1>2, <1>3, <1>e, <2>1, <2>2, AnsweredIs
  <2>4. CallsType' /\ \A t \in Servers \ {s} : call'[t] = call[t]
    BY <1>2, <1>3, <1>e, <2>1, <2>2, AnsweredIs
  <2>5. Missed(d)'
    <3>1. \A v \in c.known : Exempt(e, v)
      BY <1>5, <1>6, <1>10
    <3>2. \A v : Exempt(e, v) => Exempt(d, v)'
      <4>1. d.cut = e.cut /\ d.tool = e.tool /\ d.arg = arg /\ e.arg = arg /\ ties' = ties
        BY <1>1, <1>e, <1>f, <2>3
      <4> QED
        BY <1>h, <4>1 DEF Exempt
    <3> QED
      BY <2>3, <3>1, <3>2 DEF Missed
  <2>6. Awaits(s, d)'
    BY <2>3 DEF Awaits
  <2> QED
    BY <1>7, <1>9, <2>3, <2>4, <2>5, <2>6
<1>11. CASE Len(c.todo) # 1
  <2>1. call' = [call EXCEPT ![s] = [e EXCEPT !.todo = Tail(e.todo)]]
    <3>1. Result(e.tool, e.arg, root, out) = {} /\ Len(e.todo) # 1
      BY <1>a, <1>b, <1>e, <1>11
    <3> QED
      BY <1>a, <1>b, <1>c, <3>1 DEF Consulted
  <2>2. PICK d : d = [e EXCEPT !.todo = Tail(c.todo)]
    OBVIOUS
  <2>3. call' = [call EXCEPT ![s] = d]
    BY <1>e, <2>1, <2>2
  <2>4. /\ Tail(c.todo) \in Seq(Roots) /\ Tail(c.todo) # <<>>
        /\ \A i \in DOMAIN c.todo : i # 1 => i - 1 \in DOMAIN Tail(c.todo) /\ Tail(c.todo)[i - 1] = c.todo[i]
    <3>1. /\ Tail(c.todo) \in Seq(Roots) /\ Len(Tail(c.todo)) = Len(c.todo) - 1
          /\ \A i \in 1 .. Len(Tail(c.todo)) : Tail(c.todo)[i] = c.todo[i + 1]
      BY <1>3, <1>4, HeadTailProperties
    <3> DEFINE rest == Tail(c.todo)
    <3> HIDE DEF rest
    <3>2. DOMAIN rest = 1 .. (Len(c.todo) - 1) /\ Len(rest) \in Nat /\ Len(rest) # 0
      BY <1>5, <1>11, <3>1 DEF rest
    <3>3. rest # <<>>
      BY <3>2
    <3>4. ASSUME NEW i \in DOMAIN c.todo, i # 1 PROVE i - 1 \in DOMAIN rest /\ rest[i - 1] = c.todo[i]
      <4>1. i \in Nat /\ i - 1 \in 1 .. (Len(c.todo) - 1) /\ (i - 1) + 1 = i
        BY <1>5, <3>4
      <4> QED
        BY <3>1, <3>2, <4>1 DEF rest
    <3> QED
      BY <3>1, <3>3, <3>4 DEF rest
  <2>5. /\ d \in CallRecord /\ d.step = c.step /\ d.tool = c.tool /\ d.dir = c.dir /\ d.arg = c.arg
        /\ d.answer = c.answer /\ d.known = c.known /\ d.todo = Tail(c.todo) /\ d.cut = e.cut
    BY <1>3, <1>e, <2>2, <2>4 DEF CallRecord
  <2>6. CallsType' /\ call'[s] = d /\ \A t \in Servers \ {s} : call'[t] = call[t]
    BY <1>2, <1>3, <2>3, <2>5, CallBecomes DEF CallsType
  <2>7. Missed(d)'
    BY <1>4, <2>5 DEF Missed
  <2>8. Default(s, c.dir) = None
    <3>1. ASSUME NEW r, c.todo = <<r>> PROVE Len(c.todo) = 1
      BY <3>1
    <3> QED
      BY <1>4, <1>11, <3>1
  <2>9. ASSUME NEW v \in d.known, ~Exempt(d, v)'
        PROVE  \E i \in DOMAIN d.todo : v \in Findable(d.tool, d.arg, d.todo[i])'
    <3>1. ~Exempt(e, v)
      <4>1. d.cut = e.cut /\ d.tool = e.tool /\ d.arg = arg /\ e.arg = arg /\ ties' = ties
        BY <1>1, <1>e, <1>f, <2>5
      <4> QED
        BY <1>h, <2>9, <4>1 DEF Exempt
    <3>2. PICK i \in DOMAIN c.todo : i # 1 /\ v \in Findable(c.tool, c.arg, c.todo[i])
      BY <1>6, <2>5, <3>1
    <3>3. i - 1 \in DOMAIN d.todo /\ d.todo[i - 1] = c.todo[i]
      BY <2>4, <2>5, <3>2
    <3>4. v \in Findable(d.tool, d.arg, d.todo[i - 1])
      BY <2>5, <3>2, <3>3
    <3>5. PICK j \in DOMAIN d.todo : v \in Findable(d.tool, d.arg, d.todo[j])
      BY <3>3, <3>4
    <3>6. PICK r : r = d.todo[j] /\ tool = d.tool /\ arg = d.arg
      BY <1>f, <2>5
    <3>7. Findable(tool, arg, r)' = Findable(tool, arg, r)
      BY <1>1 DEF Findable, Result, GetOne, RecallOne, ListOne, StatsOne, SummaryOne,
                  HandoffOne, MatchPrefix, Hits, ReadCurrent, LatestForSession, Newest
    <3> QED
      BY <3>5, <3>6, <3>7
  <2>10. Awaits(s, d)'
    <3>1. Default(s, d.dir)' = None
      BY <1>1, <2>5, <2>8 DEF Default
    <3> QED
      BY <1>4, <2>4, <2>5, <2>9, <3>1 DEF Awaits
  <2>11. d.answer # "found"
    BY <1>4, <2>5
  <2> QED
    BY <1>7, <1>9, <2>5, <2>6, <2>7, <2>10, <2>11
<1> QED
  BY <1>10, <1>11

LEMMA TagLearningInv ==
    ASSUME CallsInv, NEW s \in Servers, NEW dir \in setup.args, TagLearning(s, dir)
    PROVE  ToolsType' /\ Grows /\ CallInv(s)' /\ \A t \in Servers \ {s} : Bystands(t)
<1>a. PICK root : root = ResolveLedger(s, dir)
  OBVIOUS
<1>b. PICK c : c = CallOf("tag", dir, None)
  OBVIOUS
<1>1. /\ call[s].step \in {"idle", "done"} /\ dirs' = dirs \cup {root}
      /\ UNCHANGED <<handoffs, current, writing, clock, ties, faults, recorded, raced>>
      /\ UNCHANGED <<contested, recalled, setup>>
  BY <1>a DEF TagLearning, Calls, handoffVars
<1>2. HandoffInv /\ RecordedInv /\ ToolsType /\ setup \in Setups /\ CallInv(s)
  BY DEF CallsInv
<1>3. dir \in Dirs \cup {None} /\ root \in Roots
  BY <1>2, <1>a, ToolsAssumption, RootOfCall DEF SetupOK
<1>4. c \in CallRecord /\ c.tool = "tag"
  BY <1>b, <1>3, CallOfType DEF ToolNames, WriteTools, Asked
<1>5. PICK l \in Learnings :
         tagged' = [tagged EXCEPT ![root] = @ \cup {l}] /\ Answered(s, c, "created", l)
  BY <1>a, <1>b DEF TagLearning
<1>6. "created" \in Answers /\ l \in Value
  BY DEF Answers, Value
<1>7. CallsType' /\ \A t \in Servers \ {s} : call'[t] = call[t]
  BY <1>2, <1>4, <1>5, <1>6, AnsweredIs
<1>8. PICK d : call'[s] = d /\ d.step = "done" /\ d.tool = "tag" /\ d.answer = "created"
  BY <1>2, <1>4, <1>5, <1>6, AnsweredIs
<1>9. /\ tagged' \in [Roots -> SUBSET Learnings] /\ \A r \in Roots : IsFiniteSet(tagged'[r])
      /\ \A r \in Roots : tagged[r] \subseteq tagged'[r]
  <2>1. IsFiniteSet(tagged[root] \cup {l})
    BY <1>2, <1>3, FS_AddElement DEF ToolsType
  <2> QED
    BY <1>2, <1>3, <1>5, <2>1 DEF ToolsType
<1>10. Grows
  BY <1>1, <1>9 DEF Grows
<1>11. ToolsType'
  BY <1>1, <1>2, <1>3, <1>7, <1>9 DEF ToolsType, CallsType
<1>12. \A t \in Servers \ {s} : Bystands(t)
  BY <1>1, <1>7 DEF Bystands
<1>13. writing'[s].step = "idle"
  BY <1>1, <1>2 DEF CallInv, Hands
<1>14. CallInv(s)'
  BY <1>1, <1>2, <1>8, <1>10, <1>13, PlainCall
<1> QED
  BY <1>10, <1>11, <1>12, <1>14

LEMMA BeginReinforceInv ==
    ASSUME CallsInv, NEW s \in Servers, NEW dir \in setup.args, NEW arg \in Refs, BeginReinforce(s, dir, arg)
    PROVE  ToolsType' /\ Grows /\ CallInv(s)' /\ \A t \in Servers \ {s} : Bystands(t)
<1>a. PICK root : root = ResolveLedger(s, dir)
  OBVIOUS
<1>b. PICK c : c = CallOf("reinforce", dir, arg)
  OBVIOUS
<1>1. /\ call[s].step \in {"idle", "done"}
      /\ UNCHANGED <<handoffs, current, writing, clock, ties, faults, recorded, raced>>
      /\ UNCHANGED <<dirs, tagged, contested, recalled, setup>>
  BY DEF BeginReinforce, Calls, handoffVars
<1>2. HandoffInv /\ RecordedInv /\ ToolsType /\ setup \in Setups /\ CallInv(s)
  BY DEF CallsInv
<1>3. dir \in Dirs \cup {None} /\ root \in Roots /\ (Default(s, dir) # None => root = Default(s, dir))
  BY <1>2, <1>a, ToolsAssumption, RootOfCall DEF SetupOK, ResolveLedger
<1>4. /\ c \in CallRecord /\ c.tool = "reinforce" /\ c.dir = dir /\ c.arg = arg /\ c.answer = "none"
  <2>1. "reinforce" \in ToolNames /\ arg \in Asked
    BY DEF ToolNames, WriteTools, Asked
  <2> QED
    BY <1>b, <1>3, <2>1, CallOfType
<1>5. Grows
  BY <1>1 DEF Grows
<1>6. writing'[s].step = "idle"
  BY <1>1, <1>2 DEF CallInv, Hands
<1>7. PICK m : m = recalled'[s] /\ m = recalled[s]
  BY <1>1
<1>8. Recalls(s, m) /\ Recalls(s, m)'
  BY <1>2, <1>5, <1>7, RecallsStay DEF CallInv
<1>9. Default(s, dir)' = Default(s, dir)
  BY <1>1 DEF Default
<1>10. ASSUME Again(c, m), Default(s, dir) # None
       PROVE  root \in dirs /\ m.id \in Hits(root, arg)
  <2>1. m.dir = dir /\ m.arg = arg /\ m.id # None
    BY <1>4, <1>10 DEF Again
  <2> QED
    BY <1>3, <1>8, <1>10, <2>1 DEF Recalls
<1>11. ASSUME NEW d, CallsType', \A t \in Servers \ {s} : call'[t] = call[t], call'[s] = d,
              d.tool = "reinforce", d.dir = dir, d.arg = arg, d.step # "consult", d.answer # "nothing",
              Again(c, m) /\ Default(s, dir) # None =>
                 /\ d.answer # "ledgerMissing"
                 /\ d.answer = "notFound" => arg \in Prefixes
                 /\ d.answer = "recorded" \/ d.step = "record" => d.value = m.id
       PROVE  ToolsType' /\ CallInv(s)' /\ \A t \in Servers \ {s} : Bystands(t)
  <2>1. ToolsType' /\ \A t \in Servers \ {s} : Bystands(t)
    BY <1>1, <1>2, <1>11 DEF ToolsType, CallsType, Bystands
  <2>2. Reinforces(s, d, m)'
    BY <1>4, <1>9, <1>11 DEF Reinforces, Again
  <2>3. Awaits(s, d)' /\ Missed(d)' /\ FoundLatest(d)' /\ Hands(s, d)'
    BY <1>6, <1>11 DEF Awaits, Missed, FoundLatest, Hands
  <2> QED
    BY <1>7, <1>8, <1>11, <2>1, <2>2, <2>3 DEF CallInv, Awaits, Missed, FoundLatest, Recalls, Reinforces, Hands
<1>12. ASSUME NEW answer \in {"ledgerMissing", "notFound"}, Answered(s, c, answer, None),
              Again(c, m) /\ Default(s, dir) # None => answer = "notFound" /\ arg \in Prefixes
       PROVE  ToolsType' /\ CallInv(s)' /\ \A t \in Servers \ {s} : Bystands(t)
  <2>1. answer \in Answers /\ None \in Value /\ answer # "nothing"
    BY DEF Answers, Value
  <2>2. CallsType' /\ \A t \in Servers \ {s} : call'[t] = call[t]
    BY <1>2, <1>4, <1>12, <2>1, AnsweredIs
  <2>3. PICK d : /\ call'[s] = d /\ d.step = "done" /\ d.tool = "reinforce" /\ d.dir = dir /\ d.arg = arg
                 /\ d.answer = answer
    BY <1>2, <1>4, <1>12, <2>1, AnsweredIs
  <2> QED
    BY <1>11, <1>12, <2>1, <2>2, <2>3
<1>13. CASE root \notin dirs
  <2>1. Answered(s, c, "ledgerMissing", None)
    BY <1>a, <1>b, <1>13 DEF BeginReinforce
  <2> QED
    BY <1>5, <1>10, <1>12, <1>13, <2>1
<1>14. CASE root \in dirs /\ MatchPrefix(root, arg) = {}
  <2>1. Answered(s, c, "notFound", None)
    BY <1>a, <1>b, <1>14 DEF BeginReinforce
  <2>2. Again(c, m) /\ Default(s, dir) # None => arg \in Prefixes
    BY <1>2, <1>3, <1>10, <1>14, MatchOfId DEF Refs
  <2> QED
    BY <1>5, <1>12, <2>1, <2>2
<1>15. CASE root \in dirs /\ MatchPrefix(root, arg) # {}
  <2>1. PICK l \in MatchPrefix(root, arg) :
           call' = [call EXCEPT ![s] = [c EXCEPT !.step = "record", !.value = l, !.todo = <<root>>]]
    BY <1>a, <1>b, <1>15 DEF BeginReinforce
  <2>2. PICK d : d = [c EXCEPT !.step = "record", !.value = l, !.todo = <<root>>]
    OBVIOUS
  <2>3. l \in Learnings /\ l \in Value /\ <<root>> \in Seq(Roots)
    BY <1>2, <1>3, MatchOfId DEF Value
  <2>5. /\ d \in CallRecord /\ d.step = "record" /\ d.tool = "reinforce" /\ d.dir = dir /\ d.arg = arg
        /\ d.answer = "none" /\ d.value = l
    BY <1>4, <2>2, <2>3 DEF CallRecord, CallSteps
  <2>6. call' = [call EXCEPT ![s] = d]
    BY <2>1, <2>2
  <2>7. CallsType' /\ call'[s] = d /\ \A t \in Servers \ {s} : call'[t] = call[t]
    BY <1>2, <2>5, <2>6, CallBecomes DEF CallsType
  <2>8. Again(c, m) /\ Default(s, dir) # None => l = m.id
    BY <1>2, <1>3, <1>10, MatchOfId
  <2> QED
    BY <1>5, <1>11, <2>5, <2>7, <2>8
<1> QED
  BY <1>13, <1>14, <1>15

LEMMA ReinforceInv ==
    ASSUME CallsInv, NEW s \in Servers, Reinforce(s)
    PROVE  ToolsType' /\ Grows /\ CallInv(s)' /\ \A t \in Servers \ {s} : Bystands(t)
<1>a. PICK c : c = call[s]
  OBVIOUS
<1>b. PICK d : d = [c EXCEPT !.step = "done", !.answer = "recorded", !.todo = <<>>]
  OBVIOUS
<1>1. /\ c.step = "record"
      /\ UNCHANGED <<handoffs, current, writing, clock, ties, faults, recorded, raced>>
      /\ UNCHANGED <<dirs, tagged, recalled, setup>>
      /\ call' = [t \in Servers |->
              IF t = s THEN d
              ELSE IF call[t].tool \in {"search", "list"} /\ call[t].step = "consult"
                   THEN [call[t] EXCEPT !.known = @ \ contested']
              ELSE call[t]]
  BY <1>a, <1>b DEF Reinforce, handoffVars
<1>2. HandoffInv /\ RecordedInv /\ ToolsType /\ setup \in Setups /\ CallInv(s)
  BY DEF CallsInv
<1>3. c \in CallRecord /\ (c.tool \in {"get", "reinforce"} => c.arg \in Refs)
  BY <1>2, <1>a DEF ToolsType
<1>4. <<>> \in Seq(Roots)
  OBVIOUS
<1>5. /\ d \in CallRecord /\ d.step = "done" /\ d.tool = c.tool /\ d.dir = c.dir /\ d.arg = c.arg
      /\ d.answer = "recorded" /\ d.value = c.value
  BY <1>3, <1>4, <1>b DEF CallRecord, CallSteps, Answers
<1>6. ASSUME NEW t \in Servers \ {s}
      PROVE  /\ call'[t] \in CallRecord
             /\ \A f \in {"step", "tool", "dir", "arg", "todo", "answer", "value", "cut"} : call'[t][f] = call[t][f]
             /\ call'[t].known \subseteq call[t].known
             /\ call[t].tool \in {"search", "list"} /\ call[t].step = "consult" =>
                   \A v \in call'[t].known : v \notin contested'
  <2>1. call[t] \in CallRecord
    BY <1>2 DEF ToolsType
  <2>2. CASE call[t].tool \in {"search", "list"} /\ call[t].step = "consult"
    <3>1. call'[t] = [call[t] EXCEPT !.known = call[t].known \ contested']
      BY <1>1, <2>2
    <3> QED
      BY <2>1, <3>1 DEF CallRecord
  <2>3. CASE ~(call[t].tool \in {"search", "list"} /\ call[t].step = "consult")
    BY <1>1, <2>1, <2>3
  <2> QED
    BY <2>2, <2>3
<1>7. call'[s] = d
  BY <1>1
<1>8. call' \in [Servers -> CallRecord]
  <2>1. \A t \in Servers : call'[t] \in CallRecord
    BY <1>5, <1>6, <1>7
  <2>2. call' = [t \in Servers |-> call'[t]]
    BY <1>1
  <2> QED
    BY <2>1, <2>2
<1>9. \A t \in Servers \ {s} : call'[t].tool = call[t].tool /\ call'[t].arg = call[t].arg
  BY <1>6
<1>10. \A t \in Servers : call'[t].tool \in {"get", "reinforce"} => call'[t].arg \in Refs
  BY <1>2, <1>3, <1>5, <1>7, <1>9 DEF ToolsType
<1>11. ToolsType'
  BY <1>1, <1>2, <1>8, <1>10 DEF ToolsType
<1>12. Grows
  BY <1>1 DEF Grows
<1>13. \A t \in Servers \ {s} : Bystands(t)
  BY <1>1, <1>6 DEF Bystands
<1>14. PICK m : m = recalled'[s] /\ m = recalled[s]
  BY <1>1
<1>15. Recalls(s, m)'
  <2>1. Recalls(s, m)
    BY <1>2, <1>14 DEF CallInv
  <2> QED
    BY <1>2, <1>12, <2>1, RecallsStay
<1>16. Reinforces(s, d, m)'
  <2>1. Reinforces(s, c, m)
    BY <1>2, <1>14, <1>a DEF CallInv
  <2>2. Default(s, d.dir)' = Default(s, c.dir)
    BY <1>1, <1>5 DEF Default
  <2> QED
    BY <1>1, <1>5, <2>1, <2>2 DEF Reinforces, Again
<1>17. writing'[s].step = "idle"
  BY <1>1, <1>2, <1>a DEF CallInv, Hands
<1>18. Awaits(s, d)' /\ Missed(d)' /\ FoundLatest(d)' /\ Hands(s, d)'
  BY <1>5, <1>17 DEF Awaits, Missed, FoundLatest, Hands
<1>19. CallInv(s)'
  BY <1>7, <1>14, <1>15, <1>16, <1>18 DEF CallInv, Awaits, Missed, FoundLatest, Recalls, Reinforces, Hands
<1> QED
  BY <1>11, <1>12, <1>13, <1>19

(* The steps of a handoff, and those that do not change a call.            *)
LEMMA UntouchedInv ==
    ASSUME CallsInv, NEW s \in Servers, Start(s) \/ TagHandoffFile(s)
    PROVE  ToolsType' /\ Grows /\ \A t \in Servers : Bystands(t)
<1>1. ToolsType /\ HandoffInv
  BY DEF CallsInv
<1>2. /\ UNCHANGED <<tagged, contested, call, recalled, setup, recorded, ties>>
      /\ \A t \in Servers : writing'[t].step # "idle" => writing[t].step # "idle"
      /\ dirs \subseteq dirs' /\ dirs' \subseteq Roots
  <2>1. CASE Start(s)
    BY <1>1, <2>1 DEF Start, handoffVars, ToolsType
  <2>2. CASE TagHandoffFile(s)
    <3>1. /\ UNCHANGED <<tagged, contested, call, recalled, setup, recorded, ties>>
          /\ writing[s].step = "file" /\ writing' = [writing EXCEPT ![s].step = "pointer"]
          /\ dirs' = dirs \cup {writing[s].handoff.root}
      BY <2>2 DEF TagHandoffFile, WriteHandoff
    <3>2. writing[s].handoff.root \in Roots
      BY <1>1, <3>1 DEF HandoffInv, HandoffType, Handoff
    <3> QED
      BY <1>1, <3>1, <3>2 DEF ToolsType, HandoffInv, HandoffType
  <2> QED
    BY <2>1, <2>2
<1>3. ToolsType'
  BY <1>1, <1>2 DEF ToolsType
<1>4. Grows
  BY <1>2 DEF Grows
<1>5. \A t \in Servers : Bystands(t)
  BY <1>2 DEF Bystands
<1> QED
  BY <1>3, <1>4, <1>5

LEMMA BeginTagHandoffInv ==
    ASSUME CallsInv, NEW s \in Servers, NEW dir \in setup.args, NEW session \in Sessions,
           BeginTagHandoff(s, dir, session)
    PROVE  ToolsType' /\ Grows /\ CallInv(s)' /\ \A t \in Servers \ {s} : Bystands(t)
<1>a. PICK c : c = CallOf("tagHandoff", dir, session)
  OBVIOUS
<1>b. PICK d : d = [c EXCEPT !.step = "handing"]
  OBVIOUS
<1>1. HandoffInv /\ RecordedInv /\ ToolsType /\ setup \in Setups /\ CallInv(s)
  BY DEF CallsInv
<1>2. /\ call' = [call EXCEPT ![s] = d]
      /\ UNCHANGED <<dirs, tagged, contested, recalled, setup, recorded>>
      /\ ties' = 0 => ties = 0
  BY <1>1, <1>a, <1>b DEF BeginTagHandoff, BeginHandoff, RecordedInv
<1>3. \A t \in Servers \ {s} : writing'[t] = writing[t]
  BY <1>1 DEF BeginTagHandoff, BeginHandoff, HandoffInv, HandoffType
<1>4. /\ c \in CallRecord /\ c.tool = "tagHandoff" /\ c.answer = "none"
  <2>1. "tagHandoff" \in ToolNames /\ session \in Asked /\ dir \in Dirs \cup {None}
    BY <1>1, ToolsAssumption DEF ToolNames, WriteTools, Asked
  <2> QED
    BY <1>a, <2>1, CallOfType
<1>5. d \in CallRecord /\ d.tool = "tagHandoff" /\ d.answer = "none" /\ d.step = "handing"
  BY <1>b, <1>4 DEF CallRecord, CallSteps
<1>6. CallsType' /\ call'[s] = d /\ \A t \in Servers \ {s} : call'[t] = call[t]
  BY <1>1, <1>2, <1>5, CallBecomes DEF CallsType
<1>7. ToolsType'
  BY <1>1, <1>2, <1>6 DEF ToolsType, CallsType
<1>8. Grows
  BY <1>2 DEF Grows
<1>9. \A t \in Servers \ {s} : Bystands(t)
  BY <1>2, <1>3, <1>6 DEF Bystands
<1>10. CallInv(s)'
  BY <1>1, <1>2, <1>5, <1>6, <1>8, PlainCall
<1> QED
  BY <1>7, <1>8, <1>9, <1>10

LEMMA TagHandoffPointerInv ==
    ASSUME CallsInv, NEW s \in Servers, TagHandoffPointer(s)
    PROVE  ToolsType' /\ Grows /\ CallInv(s)' /\ \A t \in Servers \ {s} : Bystands(t)
<1>a. PICK c, h : c = call[s] /\ h = writing[s].handoff
  OBVIOUS
<1>1. HandoffInv /\ RecordedInv /\ ToolsType /\ setup \in Setups /\ CallInv(s)
  BY DEF CallsInv
<1>2. /\ Answered(s, c, "recorded", h) /\ writing[s].step = "pointer"
      /\ writing' = [writing EXCEPT ![s] = NotWriting]
      /\ UNCHANGED <<dirs, tagged, contested, recalled, setup, ties>>
      /\ recorded \subseteq recorded'
  BY <1>a DEF TagHandoffPointer, WritePointer
<1>3. writing'[s].step = "idle" /\ \A t \in Servers \ {s} : writing'[t] = writing[t]
  BY <1>1, <1>2 DEF HandoffInv, HandoffType, NotWriting
<1>4. c \in CallRecord /\ c.tool = "tagHandoff" /\ c.step = "handing"
  BY <1>1, <1>2, <1>a DEF CallInv, Hands, ToolsType
<1>5. "recorded" \in Answers /\ h \in Value
  BY <1>1, <1>2, <1>a DEF HandoffInv, HandoffType, Answers, Value
<1>6. CallsType' /\ \A t \in Servers \ {s} : call'[t] = call[t]
  BY <1>1, <1>2, <1>4, <1>5, AnsweredIs
<1>7. PICK d : call'[s] = d /\ d.step = "done" /\ d.tool = "tagHandoff" /\ d.answer = "recorded"
  BY <1>1, <1>2, <1>4, <1>5, AnsweredIs
<1>8. ToolsType'
  BY <1>1, <1>2, <1>6 DEF ToolsType, CallsType
<1>9. Grows
  BY <1>2 DEF Grows
<1>10. \A t \in Servers \ {s} : Bystands(t)
  BY <1>2, <1>3, <1>6 DEF Bystands
<1>11. CallInv(s)'
  BY <1>1, <1>2, <1>3, <1>7, <1>9, PlainCall
<1> QED
  BY <1>8, <1>9, <1>10, <1>11

LEMMA FailInv ==
    ASSUME CallsInv, NEW s \in Servers, Fail(s)
    PROVE  ToolsType' /\ Grows /\ CallInv(s)' /\ \A t \in Servers \ {s} : Bystands(t)
<1>1. HandoffInv /\ RecordedInv /\ ToolsType /\ setup \in Setups /\ CallInv(s)
  BY DEF CallsInv
<1>2. /\ call' = [call EXCEPT ![s] = NoCall] /\ call[s].step \in {"consult", "record", "handing"}
      /\ UNCHANGED <<dirs, tagged, contested, setup, ties, recorded>>
      /\ recalled' = recalled \/ recalled' = [recalled EXCEPT ![s] = NotRecalled]
  BY DEF Fail, HandoffFails
<1>3. writing'[s].step = "idle" /\ \A t \in Servers \ {s} : writing'[t] = writing[t]
  <2>1. CASE call[s].step = "handing"
    BY <1>1, <2>1 DEF Fail, HandoffFails, HandoffInv, HandoffType, NotWriting
  <2>2. CASE call[s].step # "handing"
    BY <1>1, <2>2 DEF Fail, CallInv, Hands
  <2> QED
    BY <2>1, <2>2
<1>4. NoCall \in CallRecord /\ NoCall.step = "idle" /\ NoCall.tool = "none" /\ NoCall.answer = "none"
  <2>1. <<>> \in Seq(Roots)
    OBVIOUS
  <2> QED
    BY <2>1 DEF NoCall, CallRecord, CallSteps, ToolNames, Asked, Answers, Value
<1>5. CallsType' /\ call'[s] = NoCall /\ \A t \in Servers \ {s} : call'[t] = call[t]
  BY <1>1, <1>2, <1>4, CallBecomes DEF CallsType
<1>6. /\ recalled' \in [Servers -> RecallRecord] /\ (recalled'[s] = recalled[s] \/ recalled'[s] = NotRecalled)
      /\ \A t \in Servers \ {s} : recalled'[t] = recalled[t]
  <2>1. NotRecalled \in RecallRecord
    BY DEF NotRecalled, RecallRecord, Asked, Value
  <2> QED
    BY <1>1, <1>2, <2>1 DEF ToolsType
<1>7. ToolsType'
  BY <1>1, <1>2, <1>5, <1>6 DEF ToolsType, CallsType
<1>8. Grows
  BY <1>2 DEF Grows
<1>9. \A t \in Servers \ {s} : Bystands(t)
  BY <1>2, <1>3, <1>5, <1>6 DEF Bystands
<1>10. CallInv(s)'
  BY <1>1, <1>3, <1>4, <1>5, <1>6, <1>8, PlainCall
<1> QED
  BY <1>7, <1>8, <1>9, <1>10

------------------------------------------------------------------------------
(* Together.                                                               *)

LEMMA ToolsRecorded ==
    ASSUME CallsInv, NEW s \in Servers,
           \/ Start(s) \/ Consult(s) \/ Reinforce(s)
           \/ TagHandoffFile(s) \/ TagHandoffPointer(s) \/ Fail(s)
           \/ \E dir \in setup.args :
                 \/ TagLearning(s, dir) \/ \E ref : BeginReinforce(s, dir, ref)
                 \/ \E session \in Sessions : BeginTagHandoff(s, dir, session)
                 \/ \E tool, ref : BeginRead(s, tool, dir, ref)
    PROVE  RecordedInv'
<1>1. HandoffInv /\ RecordedInv /\ SetupOK
  BY DEF CallsInv, SetupOK
<1>2. CASE UNCHANGED <<handoffs, current, writing, ties, recorded>>
  BY <1>1, <1>2, RecordedOther
<1>3. CASE Start(s) \/ Consult(s) \/ Reinforce(s)
  <2>1. CASE Start(s) \/ Reinforce(s)
    BY <1>2, <2>1 DEF Start, Reinforce, handoffVars
  <2>2. CASE Consult(s)
    BY <1>2, <2>2 DEF Consult
  <2> QED
    BY <1>3, <2>1, <2>2
<1>4. CASE TagHandoffFile(s)
  BY <1>1, <1>4, RecordedWrite DEF TagHandoffFile
<1>5. CASE TagHandoffPointer(s)
  BY <1>1, <1>5, RecordedPointer DEF TagHandoffPointer
<1>6. CASE Fail(s)
  BY <1>1, <1>2, <1>6, RecordedFails DEF Fail
<1>7. ASSUME NEW dir \in setup.args, NEW session \in Sessions, BeginTagHandoff(s, dir, session)
      PROVE  RecordedInv'
  BY <1>1, <1>7, RootOfCall, RecordedBegin DEF BeginTagHandoff
<1>8. ASSUME NEW dir, TagLearning(s, dir) \/ \E ref : BeginReinforce(s, dir, ref) PROVE RecordedInv'
  BY <1>2, <1>8 DEF TagLearning, BeginReinforce, handoffVars
<1>9. ASSUME NEW dir, NEW tool, NEW ref, BeginRead(s, tool, dir, ref) PROVE RecordedInv'
  BY <1>2, <1>9 DEF BeginRead, handoffVars
<1> QED
  BY <1>3, <1>4, <1>5, <1>6, <1>7, <1>8, <1>9

(* What a step of one server's call leaves of the others'. *)
OnlyActs(s) == ToolsType' /\ Grows /\ (CallInv(s)' \/ Bystands(s)) /\ \A t \in Servers \ {s} : Bystands(t)

(* A dream pass is nobody's call. *)
LEMMA DreamCalls ==
    ASSUME CallsInv, NEW root \in Roots, Dream(root)
    PROVE  CallsInv'
<1>1. /\ UNCHANGED <<handoffs, current, writing, clock, ties, faults, recorded, raced>>
      /\ UNCHANGED <<dirs, tagged, contested, call, recalled, setup>>
  BY DEF Dream, handoffVars
<1> QED
  BY <1>1, NothingMoves

LEMMA ToolsCalls == CallsInv /\ Next => CallsInv'
<1> SUFFICES ASSUME CallsInv, Next PROVE CallsInv'
  OBVIOUS
<1> SUFFICES ASSUME NEW s \in Servers,
                    \/ Start(s) \/ Consult(s) \/ Reinforce(s)
                    \/ TagHandoffFile(s) \/ TagHandoffPointer(s) \/ Fail(s)
                    \/ \E dir \in setup.args : Begins(s, dir)
             PROVE  CallsInv'
  BY DreamCalls DEF Next
<1>1. \/ Start(s) \/ Consult(s) \/ Reinforce(s)
      \/ TagHandoffFile(s) \/ TagHandoffPointer(s) \/ Fail(s)
      \/ \E dir \in setup.args : Begins(s, dir)
  OBVIOUS
<1>2. HandoffInv' /\ setup' \in Setups
  BY ToolsInv DEF CallsInv, SetupOK
<1>3. RecordedInv'
  BY <1>1, ToolsRecorded DEF Begins
<1>4. setup.refs \subseteq Refs
  BY ToolsAssumption DEF CallsInv
<1>5. /\ ToolsType' /\ Grows
      /\ CallInv(s)' \/ Bystands(s)
      /\ \A t \in Servers \ {s} : Bystands(t)
  <2>1. ASSUME NEW dir \in setup.args, NEW ref \in Asked, NEW tool \in ReadTools, tool = "get" => ref \in Refs,
               BeginRead(s, tool, dir, ref)
        PROVE  OnlyActs(s)
    BY <2>1, BeginReadInv DEF OnlyActs
  <2>2. ASSUME NEW dir \in setup.args, NEW ref \in setup.refs, NEW tool \in {"get", "search", "recall"},
               BeginRead(s, tool, dir, ref)
        PROVE  OnlyActs(s)
    BY <1>4, <2>1, <2>2 DEF ReadTools, Asked
  <2>3. ASSUME NEW dir \in setup.args, NEW tool \in {"list", "stats", "summary"}, BeginRead(s, tool, dir, None)
        PROVE  OnlyActs(s)
    BY <2>1, <2>3 DEF ReadTools, Asked
  <2>4. ASSUME NEW dir \in setup.args, NEW session \in Sessions \cup {None}, BeginRead(s, "handoff", dir, session)
        PROVE  OnlyActs(s)
    BY <2>1, <2>4 DEF ReadTools, Asked
  <2>5. ASSUME NEW dir \in setup.args, NEW ref \in setup.refs, BeginReinforce(s, dir, ref)
        PROVE  OnlyActs(s)
    BY <1>4, <2>5, BeginReinforceInv DEF OnlyActs
  <2>6. ASSUME NEW dir \in setup.args, TagLearning(s, dir) PROVE OnlyActs(s)
    BY <2>6, TagLearningInv DEF OnlyActs
  <2>7. ASSUME NEW dir \in setup.args, NEW session \in Sessions, BeginTagHandoff(s, dir, session) PROVE OnlyActs(s)
    BY <2>7, BeginTagHandoffInv DEF OnlyActs
  <2>8. CASE Start(s) \/ TagHandoffFile(s)
    BY <2>8, UntouchedInv DEF OnlyActs
  <2>9. CASE Consult(s)
    <3>1. PICK out \in LeftOut(call[s].tool, call[s].arg, Head(call[s].todo)) : Consulted(s, Head(call[s].todo), out)
      BY <2>9 DEF Consult
    <3>2. CASE Result(call[s].tool, call[s].arg, Head(call[s].todo), out) # {}
      BY <2>9, <3>1, <3>2, ConsultFound DEF OnlyActs
    <3>3. CASE Result(call[s].tool, call[s].arg, Head(call[s].todo), out) = {}
      BY <2>9, <3>1, <3>3, ConsultNothing DEF OnlyActs
    <3> QED
      BY <3>2, <3>3
  <2>10. CASE Reinforce(s)
    BY <2>10, ReinforceInv DEF OnlyActs
  <2>11. CASE TagHandoffPointer(s)
    BY <2>11, TagHandoffPointerInv DEF OnlyActs
  <2>12. CASE Fail(s)
    BY <2>12, FailInv DEF OnlyActs
  <2>13. ASSUME NEW dir \in setup.args, NEW ref \in setup.refs,
                \/ \E tool \in {"get", "search", "recall"} : BeginRead(s, tool, dir, ref)
                \/ BeginReinforce(s, dir, ref)
         PROVE  OnlyActs(s)
    <3>1. ASSUME NEW tool \in {"get", "search", "recall"}, BeginRead(s, tool, dir, ref) PROVE OnlyActs(s)
      BY <2>2, <3>1
    <3> QED
      BY <2>5, <2>13, <3>1
  <2>14. ASSUME NEW dir \in setup.args, \E tool \in {"list", "stats", "summary"} : BeginRead(s, tool, dir, None)
         PROVE  OnlyActs(s)
    BY <2>3, <2>14
  <2>15. ASSUME NEW dir \in setup.args, \E session \in Sessions : BeginTagHandoff(s, dir, session)
         PROVE  OnlyActs(s)
    BY <2>7, <2>15
  <2>16. ASSUME NEW dir \in setup.args,
                \E session \in Sessions \cup {None} : BeginRead(s, "handoff", dir, session)
         PROVE  OnlyActs(s)
    BY <2>4, <2>16
  <2>17. ASSUME NEW dir \in setup.args, Begins(s, dir) PROVE OnlyActs(s)
    BY <2>6, <2>13, <2>14, <2>15, <2>16, <2>17 DEF Begins
  <2>18. CASE Start(s) \/ Consult(s) \/ Reinforce(s)
               \/ TagHandoffFile(s) \/ TagHandoffPointer(s) \/ Fail(s)
    BY <2>8, <2>9, <2>10, <2>11, <2>12, <2>18
  <2> QED
    BY <1>1, <2>17, <2>18 DEF OnlyActs
<1>6. \A t \in Servers : Bystands(t) => CallInv(t)'
  BY <1>3, <1>5, BystanderInv DEF CallsInv, RecordedInv
<1> QED
  BY <1>2, <1>3, <1>5, <1>6 DEF CallsInv

LEMMA CallsInit == SessionInit => CallsInv
<1> SUFFICES ASSUME SessionInit PROVE CallsInv
  OBVIOUS
<1>1. HandoffInv /\ setup \in Setups /\ HandoffInit
  BY InitInv DEF SessionInit, Init
<1>2. RecordedInv
  <2>1. \A s \in Servers : writing[s].step = "idle"
    BY <1>1 DEF HandoffInit, NotWriting
  <2> QED
    BY <1>1, <2>1 DEF HandoffInit, RecordedInv, FilesAtHome, RecordedArePointed, StampsDiffer, StampIsNew,
                      FileIsThere, NeverOverwritten
<1>3. NoCall \in CallRecord /\ NoCall.step = "idle" /\ NoCall.tool = "none" /\ NoCall.answer = "none"
  <2>1. <<>> \in Seq(Roots)
    OBVIOUS
  <2> QED
    BY <2>1 DEF NoCall, CallRecord, CallSteps, ToolNames, Asked, Answers, Value
<1>4. NotRecalled \in RecallRecord /\ NotRecalled.id = None
  BY DEF NotRecalled, RecallRecord, Asked, Value
<1>5. \A s \in Servers : call[s] = NoCall /\ recalled[s] = NotRecalled
  BY DEF SessionInit, Init
<1>6. ToolsType
  <2>1. IsFiniteSet({})
    BY FS_EmptySet
  <2> QED
    BY <1>3, <1>4, <2>1 DEF SessionInit, Init, ToolsType
<1>7. \A s \in Servers : writing[s].step = "idle"
  BY <1>1 DEF HandoffInit, NotWriting
<1>8. \A s \in Servers : CallInv(s)
  BY <1>3, <1>4, <1>5, <1>7 DEF CallInv, Awaits, Missed, FoundLatest, Recalls, Reinforces, Again, Hands
<1> QED
  BY <1>1, <1>2, <1>6, <1>8 DEF CallsInv

LEMMA CallsStep == CallsInv /\ [SessionNext]_sessionVars => CallsInv'
<1> SUFFICES ASSUME CallsInv, [SessionNext]_sessionVars PROVE CallsInv'
  OBVIOUS
<1>1. CASE ToolStep
  BY <1>1, ToolsCalls DEF ToolStep
<1>2. CASE UNCHANGED vars
  <2>1. /\ UNCHANGED <<handoffs, current, writing, clock, ties, faults, recorded, raced>>
        /\ UNCHANGED <<dirs, tagged, contested, call, recalled, setup>>
    BY <1>2 DEF vars, handoffVars, toolVars
  <2> QED
    BY <2>1, NothingMoves
<1>3. CASE UNCHANGED sessionVars
  BY <1>2, <1>3 DEF sessionVars
<1>4. SessionNext => ToolStep \/ UNCHANGED vars
  BY DEF SessionNext, HookRuns, HookAfterCall, HookAfterTool
<1> QED
  BY <1>1, <1>2, <1>3, <1>4

------------------------------------------------------------------------------
(* The hooks: their types. *)

HookSteps == {"idle", "check", "record", "open", "write", "rename", "print"}
NudgeKinds == {"web", "mcp", "agent", "recall"}
HookRecord == [step : HookSteps, session : HookSessions \cup {NoFile},
               kind : NudgeKinds \cup {"none"}, state : SUBSET Entry,
               at : 0 .. MaxTime, inode : Inode \cup {NoFile}]
Contents == [is : {"empty", "garbled", "whole"}, entries : SUBSET Entry]

DiskType ==
    /\ file \in Inode \cup {NoFile} /\ tmp \in Inode \cup {NoFile}
    /\ content \in [Inode -> Contents]
ClockType == now \in 0 .. MaxTime /\ hookFaults \in Nat /\ overlap \in BOOLEAN
Keyed(x) == x.step # "idle" => x.session \in HookSessions /\ x.kind \in NudgeKinds
HookType ==
    /\ DiskType /\ ClockType
    /\ hook \in [Hooks -> HookRecord]
    /\ \A h \in Hooks : Keyed(hook[h])
    /\ \A n \in nudges : n.at \in Nat

(* What a hook's step does to its own record. *)
Moves(h, x) == hook' = [hook EXCEPT ![h] = x]

LEMMA MovesTo ==
    ASSUME HookType, NEW h \in Hooks, NEW x \in HookRecord, Keyed(x), Moves(h, x)
    PROVE  /\ hook' \in [Hooks -> HookRecord]
           /\ \A g \in Hooks : Keyed(hook'[g])
           /\ hook'[h] = x /\ \A g \in Hooks \ {h} : hook'[g] = hook[g]
<1>1. hook' \in [Hooks -> HookRecord]
  BY DEF HookType, Moves
<1>2. hook'[h] = x /\ \A g \in Hooks \ {h} : hook'[g] = hook[g]
  BY DEF HookType, Moves
<1> QED
  BY <1>1, <1>2 DEF HookType

(* The records that the steps of a hook leave. *)
LEMMA RecordOf ==
    ASSUME HookType, NEW h \in Hooks
    PROVE  /\ hook[h] \in HookRecord
           /\ NoHook \in HookRecord /\ Keyed(NoHook)
           /\ \A step \in HookSteps \ {"idle"} : hook[h].step # "idle" =>
                 LET x == [hook[h] EXCEPT !.step = step]
                 IN  x \in HookRecord /\ Keyed(x) /\ x.step = step /\ x.session = hook[h].session
                     /\ x.kind = hook[h].kind /\ x.state = hook[h].state /\ x.at = hook[h].at
                     /\ x.inode = hook[h].inode
<1>1. hook[h] \in HookRecord
  BY DEF HookType
<1>2. NoHook \in HookRecord /\ Keyed(NoHook)
  BY HookAssumption DEF NoHook, HookRecord, Keyed, HookSteps
<1>3. ASSUME NEW step \in HookSteps \ {"idle"}, hook[h].step # "idle"
      PROVE  LET x == [hook[h] EXCEPT !.step = step]
             IN  x \in HookRecord /\ Keyed(x) /\ x.step = step /\ x.session = hook[h].session
                 /\ x.kind = hook[h].kind /\ x.state = hook[h].state /\ x.at = hook[h].at
                 /\ x.inode = hook[h].inode
  BY <1>1, <1>3 DEF HookRecord, Keyed, HookType
<1> QED
  BY <1>1, <1>2, <1>3

(* A file that no hook has open, and that has no name, can be made. *)
LEMMA InodeIsFree ==
    ASSUME HookType, tmp = NoFile
    PROVE  \E j \in Inode : j \notin {file, tmp} \cup {hook[g].inode : g \in Hooks}
<1> DEFINE held == {hook[g].inode : g \in Hooks}
           f == [g \in Hooks |-> hook[g].inode]
           used == held \cup {file}
<1>1. IsFiniteSet(Hooks) /\ Cardinality(Hooks) \in Nat
  BY HookAssumption, FS_CardinalityType
<1>2. f \in Surjection(Hooks, held)
  BY DEF Surjection
<1>3. IsFiniteSet(held) /\ Cardinality(held) <= Cardinality(Hooks)
  BY <1>1, <1>2, FS_Surjection
<1>4. /\ IsFiniteSet(used) /\ Cardinality(used) \in Nat
      /\ Cardinality(used) <= Cardinality(Hooks) + 1
  <2>1. IsFiniteSet(used) /\ Cardinality(used) = IF file \in held THEN Cardinality(held) ELSE Cardinality(held) + 1
    BY <1>3, FS_AddElement
  <2>2. Cardinality(held) \in Nat
    BY <1>3, FS_CardinalityType
  <2> QED
    BY <1>1, <1>3, <2>1, <2>2
<1>5. IsFiniteSet(Inode) /\ Cardinality(Inode) = Cardinality(Hooks) + 2
  BY <1>1, FS_Interval DEF Inode
<1>6. ~(Inode \subseteq used)
  <2> SUFFICES ASSUME Inode \subseteq used PROVE FALSE
    OBVIOUS
  <2>1. Cardinality(Inode) <= Cardinality(used)
    BY <1>4, FS_Subset
  <2> QED
    BY <1>1, <1>4, <1>5, <2>1
<1>7. tmp \notin Inode
  BY HookAssumption DEF Inode
<1> QED
  BY <1>6, <1>7

------------------------------------------------------------------------------
(* What each step of a hook leaves, of its own record and of the others'.  *)

Others(h) == \A g \in Hooks \ {h} : hook'[g] = hook[g]
Same(h, x) == x.session = hook[h].session /\ x.kind = hook[h].kind

LEMMA OfFire ==
    ASSUME HookType, NEW h \in Hooks, NEW s \in HookSessions, NEW tool \in DOMAIN ToolKind, NEW b,
           Fire(h, s, tool, b)
    PROVE  /\ HookType' /\ Others(h)
           /\ hook[h].step = "idle" /\ hook'[h].step = "check" /\ hook'[h].state = {}
<1> DEFINE x == [NoHook EXCEPT !.step = "check", !.session = s, !.kind = ToolKind[tool]]
<1>1. /\ Moves(h, x) /\ UNCHANGED <<file, tmp, content, now, hookFaults, nudges>> /\ overlap' \in BOOLEAN
      /\ hook[h].step = "idle"
  BY DEF Fire, Moves, disk, HookType, ClockType
<1>2. ToolKind[tool] \in NudgeKinds
  BY DEF Fire, ToolKind, NudgeKinds
<1>3. x \in HookRecord /\ Keyed(x) /\ x.step = "check" /\ x.state = {}
  BY <1>2, RecordOf DEF NoHook, HookRecord, Keyed, HookSteps
<1> HIDE DEF x
<1>4. /\ hook' \in [Hooks -> HookRecord] /\ \A g \in Hooks : Keyed(hook'[g])
      /\ hook'[h] = x /\ Others(h)
  BY <1>1, <1>3, MovesTo DEF Others
<1> QED
  BY <1>1, <1>3, <1>4 DEF HookType, DiskType, ClockType

LEMMA OfRecentlyFired ==
    ASSUME HookType, NEW h \in Hooks, RecentlyFired(h)
    PROVE  /\ HookType' /\ Others(h) /\ hook[h].step = "check"
           /\ \/ hook'[h].step = "idle" /\ hook'[h].state = {}
              \/ /\ hook'[h].step = "record" /\ Same(h, hook'[h]) /\ hook'[h].state = hook[h].state
                 /\ ~ \E e \in ReadState : e.key = Holding(h) /\ now < e.at + Window
<1> DEFINE y == [hook[h] EXCEPT !.step = "record"]
<1>1. /\ \/ Moves(h, NoHook)
         \/ Moves(h, y) /\ ~ \E e \in ReadState : e.key = Holding(h) /\ now < e.at + Window
      /\ hook[h].step = "check"
      /\ UNCHANGED <<file, tmp, content, now, hookFaults, overlap, nudges>>
  <2> DEFINE fired == \E e \in ReadState : e.key = Holding(h) /\ now < e.at + Window
  <2>1. /\ hook[h].step = "check"
        /\ UNCHANGED <<file, tmp, content, now, hookFaults, overlap, nudges>>
        /\ fired => Moves(h, NoHook)
        /\ ~fired => hook' = [hook EXCEPT ![h].step = "record"]
    BY DEF RecentlyFired, Moves, disk
  <2>2. hook' = [hook EXCEPT ![h].step = "record"] => Moves(h, y)
    BY DEF Moves
  <2> QED
    BY <2>1, <2>2
<1>2. /\ NoHook \in HookRecord /\ Keyed(NoHook) /\ NoHook.step = "idle" /\ NoHook.state = {}
      /\ y \in HookRecord /\ Keyed(y) /\ y.step = "record" /\ Same(h, y) /\ y.state = hook[h].state
  BY <1>1, RecordOf DEF NoHook, HookSteps, Same
<1> HIDE DEF y
<1>3. ASSUME NEW x, x = NoHook \/ x = y, Moves(h, x)
      PROVE  HookType' /\ Others(h) /\ hook'[h] = x
  BY <1>1, <1>2, <1>3, MovesTo DEF HookType, DiskType, ClockType, Others
<1> QED
  BY <1>1, <1>2, <1>3

LEMMA OfRecordFire ==
    ASSUME HookType, NEW h \in Hooks, RecordFire(h)
    PROVE  /\ HookType' /\ Others(h) /\ hook[h].step = "record" /\ hook'[h].step = "open"
           /\ Same(h, hook'[h]) /\ hook'[h].at = now
           /\ hook'[h].state = Prune({e \in ReadState : e.key # Holding(h)} \cup {[key |-> Holding(h), at |-> now]})
<1> DEFINE S == Prune({e \in ReadState : e.key # Holding(h)} \cup {[key |-> Holding(h), at |-> now]})
           x == [hook[h] EXCEPT !.step = "open", !.at = now, !.state = S]
<1>1. /\ hook' = [hook EXCEPT ![h].step = "open", ![h].at = now, ![h].state = S]
      /\ hook[h].step = "record"
      /\ UNCHANGED <<file, tmp, content, now, hookFaults, overlap, nudges>>
  BY DEF RecordFire, disk, history
<1>2. ReadState \subseteq Entry
  BY DEF ReadState, HookType, DiskType, Contents
<1>3. [key |-> Holding(h), at |-> now] \in Entry
  BY <1>1 DEF HookType, ClockType, Keyed, Holding, DedupKey, Entry, Key, NudgeKinds
<1>4. S \subseteq Entry
  BY <1>2, <1>3 DEF Prune
<1> HIDE DEF S
<1>5. Moves(h, x)
  BY <1>1 DEF Moves, HookType, HookRecord
<1>6. /\ x \in HookRecord /\ Keyed(x) /\ x.step = "open" /\ Same(h, x) /\ x.at = now /\ x.state = S
  BY <1>1, <1>4 DEF HookType, HookRecord, Keyed, HookSteps, Same, ClockType
<1> HIDE DEF x
<1>7. HookType' /\ Others(h) /\ hook'[h] = x
  BY <1>1, <1>5, <1>6, MovesTo DEF HookType, DiskType, ClockType, Others
<1> QED
  BY <1>1, <1>6, <1>7 DEF S

LEMMA OfOpenTmp ==
    ASSUME HookType, NEW h \in Hooks, OpenTmp(h)
    PROVE  /\ HookType' /\ Others(h) /\ hook[h].step = "open" /\ hook'[h].step = "write"
           /\ Same(h, hook'[h]) /\ hook'[h].at = hook[h].at /\ hook'[h].state = hook[h].state
           /\ hook'[h].inode = tmp' /\ tmp' \in Inode /\ content' = [content EXCEPT ![tmp'] = Empty]
           /\ tmp = NoFile => tmp' # file
           /\ tmp # NoFile => tmp' = tmp
<1> DEFINE used == {file, tmp} \cup {hook[g].inode : g \in Hooks}
           i == IF tmp = NoFile THEN CHOOSE j \in Inode : j \notin used ELSE tmp
           x == [hook[h] EXCEPT !.step = "write", !.inode = i]
<1>1. /\ hook' = [hook EXCEPT ![h].step = "write", ![h].inode = i]
      /\ tmp' = i /\ content' = [content EXCEPT ![i] = Empty]
      /\ hook[h].step = "open"
      /\ UNCHANGED <<file, now, hookFaults, overlap, nudges>>
  BY DEF OpenTmp, history
<1>2. /\ i \in Inode
      /\ tmp = NoFile => i # file
      /\ tmp # NoFile => i = tmp
  <2>1. CASE tmp = NoFile
    BY <2>1, InodeIsFree
  <2>2. CASE tmp # NoFile
    BY <2>2 DEF HookType, DiskType
  <2> QED
    BY <2>1, <2>2
<1> HIDE DEF i
<1>3. Moves(h, x)
  BY <1>1 DEF Moves, HookType, HookRecord
<1>4. /\ x \in HookRecord /\ Keyed(x) /\ x.step = "write" /\ Same(h, x) /\ x.at = hook[h].at
      /\ x.state = hook[h].state /\ x.inode = i
  BY <1>1, <1>2 DEF HookType, HookRecord, Keyed, HookSteps, Same
<1> HIDE DEF x
<1>5. /\ hook' \in [Hooks -> HookRecord] /\ (\A g \in Hooks : Keyed(hook'[g])) /\ Others(h) /\ hook'[h] = x
  BY <1>3, <1>4, MovesTo DEF Others
<1>6. content' \in [Inode -> Contents]
  BY <1>1 DEF HookType, DiskType, Contents, Empty
<1> QED
  BY <1>1, <1>2, <1>4, <1>5, <1>6 DEF HookType, DiskType, ClockType

LEMMA OfWriteTmp ==
    ASSUME HookType, NEW h \in Hooks, WriteTmp(h), hook[h].inode \in Inode
    PROVE  /\ HookType' /\ Others(h) /\ hook[h].step = "write" /\ hook'[h].step = "rename"
           /\ Same(h, hook'[h]) /\ hook'[h].at = hook[h].at /\ hook'[h].state = hook[h].state
           /\ \E c \in {Whole(hook[h].state), Garbled} :
                 /\ content' = [content EXCEPT ![hook[h].inode] = c]
                 /\ content[hook[h].inode] = Empty => c = Whole(hook[h].state)
<1> DEFINE i == hook[h].inode
           x == [hook[h] EXCEPT !.step = "rename", !.inode = NoFile]
<1>1. /\ hook' = [hook EXCEPT ![h].step = "rename", ![h].inode = NoFile]
      /\ hook[h].step = "write"
      /\ UNCHANGED <<file, tmp, now, hookFaults, overlap, nudges>>
  BY DEF WriteTmp, history
<1>2. PICK c \in {Whole(hook[h].state), Garbled} :
         content' = [content EXCEPT ![i] = c] /\ (content[i] = Empty => c = Whole(hook[h].state))
  BY DEF WriteTmp
<1>3. Moves(h, x)
  BY <1>1 DEF Moves, HookType, HookRecord
<1>4. /\ x \in HookRecord /\ Keyed(x) /\ x.step = "rename" /\ Same(h, x) /\ x.at = hook[h].at
      /\ x.state = hook[h].state
  BY <1>1 DEF HookType, HookRecord, Keyed, HookSteps, Same
<1> HIDE DEF x
<1>5. /\ hook' \in [Hooks -> HookRecord] /\ (\A g \in Hooks : Keyed(hook'[g])) /\ Others(h) /\ hook'[h] = x
  BY <1>3, <1>4, MovesTo DEF Others
<1>6. c \in Contents
  BY DEF HookType, HookRecord, Contents, Whole, Garbled
<1>7. content' \in [Inode -> Contents]
  BY <1>2, <1>6 DEF HookType, DiskType
<1> QED
  BY <1>1, <1>2, <1>4, <1>5, <1>7 DEF HookType, DiskType, ClockType

LEMMA OfRename ==
    ASSUME HookType, NEW h \in Hooks, Rename(h)
    PROVE  /\ HookType' /\ Others(h) /\ hook[h].step = "rename" /\ hook'[h].step = "print"
           /\ Same(h, hook'[h]) /\ hook'[h].at = hook[h].at /\ hook'[h].state = hook[h].state
<1> DEFINE x == [hook[h] EXCEPT !.step = "print"]
<1>1. /\ Moves(h, x) /\ hook[h].step = "rename"
      /\ file' = IF tmp = NoFile THEN file ELSE tmp
      /\ tmp' = NoFile
      /\ UNCHANGED <<content, now, hookFaults, overlap, nudges>>
  BY DEF Rename, Moves, history
<1>2. /\ x \in HookRecord /\ Keyed(x) /\ x.step = "print" /\ Same(h, x) /\ x.at = hook[h].at
      /\ x.state = hook[h].state
  BY <1>1, RecordOf DEF HookSteps, Same
<1> HIDE DEF x
<1>3. /\ hook' \in [Hooks -> HookRecord] /\ (\A g \in Hooks : Keyed(hook'[g])) /\ Others(h) /\ hook'[h] = x
  BY <1>1, <1>2, MovesTo DEF Others
<1> QED
  BY <1>1, <1>2, <1>3 DEF HookType, DiskType, ClockType

LEMMA OfPrintNudge ==
    ASSUME HookType, NEW h \in Hooks, PrintNudge(h)
    PROVE  HookType' /\ Others(h) /\ hook[h].step = "print" /\ hook'[h].step = "idle" /\ hook'[h].state = {}
<1>1. /\ Moves(h, NoHook) /\ hook[h].step = "print" /\ nudges' = nudges \cup {Nudge(h, TRUE)}
      /\ UNCHANGED <<file, tmp, content, now, hookFaults, overlap>>
  BY DEF PrintNudge, Moves, disk
<1>2. NoHook.step = "idle" /\ NoHook.state = {}
  BY DEF NoHook
<1>3. /\ hook' \in [Hooks -> HookRecord] /\ (\A g \in Hooks : Keyed(hook'[g])) /\ Others(h) /\ hook'[h] = NoHook
  BY <1>1, MovesTo, RecordOf DEF Others
<1>4. Nudge(h, TRUE).at \in Nat
  BY DEF Nudge, HookType, HookRecord
<1> QED
  BY <1>1, <1>2, <1>3, <1>4 DEF HookType, DiskType, ClockType

LEMMA OfHookFails ==
    ASSUME HookType, NEW h \in Hooks, HookFails(h)
    PROVE  /\ HookType' /\ Others(h) /\ hook[h].step # "idle" /\ hookFaults' # 0
           /\ UNCHANGED <<file, tmp, content, now, overlap, silenced>>
           /\ \/ /\ hook'[h].step = "idle" /\ hook'[h].state = {}
                 /\ nudges' = IF hook[h].step \in {"check", "record"} THEN nudges
                              ELSE nudges \cup {Nudge(h, FALSE)}
              \/ /\ hook[h].step \in {"open", "write", "rename"} /\ nudges' = nudges
                 /\ hook'[h].step = "print" /\ Same(h, hook'[h]) /\ hook'[h].at = hook[h].at
                 /\ hook'[h].state = hook[h].state
<1> DEFINE x == [hook[h] EXCEPT !.step = "print", !.inode = NoFile]
<1>1. /\ hook[h].step # "idle" /\ hookFaults' = hookFaults + 1
      /\ UNCHANGED <<file, tmp, content, now, overlap, silenced>>
      /\ \/ /\ Moves(h, NoHook)
            /\ nudges' = IF hook[h].step \in {"check", "record"} THEN nudges
                                                                 ELSE nudges \cup {Nudge(h, FALSE)}
         \/ /\ hook[h].step \in {"open", "write", "rename"}
            /\ hook' = [hook EXCEPT ![h].step = "print", ![h].inode = NoFile]
            /\ nudges' = nudges
  BY DEF HookFails, Moves, disk
<1>2. Nudge(h, FALSE).at \in Nat
  BY DEF Nudge, HookType, HookRecord
<1>3. NoHook.step = "idle" /\ NoHook.state = {}
  BY DEF NoHook
<1>4. hookFaults' \in Nat /\ hookFaults' # 0 /\ \A n \in nudges' : n.at \in Nat
  <2>1. hookFaults' \in Nat /\ hookFaults' # 0
    BY <1>1 DEF HookType, ClockType
  <2>2. nudges' \subseteq nudges \cup {Nudge(h, FALSE)}
    BY <1>1
  <2> QED
    BY <1>2, <2>1, <2>2 DEF HookType
<1>5. CASE Moves(h, NoHook)
  <2>1. /\ hook' \in [Hooks -> HookRecord] /\ (\A g \in Hooks : Keyed(hook'[g])) /\ Others(h) /\ hook'[h] = NoHook
    BY <1>5, MovesTo, RecordOf DEF Others
  <2>2. HookType'
    BY <1>1, <1>4, <2>1 DEF HookType, DiskType, ClockType
  <2>3. ~(hook'[h].step = "print")
    BY <1>3, <2>1
  <2>4. CASE nudges' = IF hook[h].step \in {"check", "record"} THEN nudges ELSE nudges \cup {Nudge(h, FALSE)}
    BY <1>1, <1>3, <1>4, <2>1, <2>2, <2>4
  <2>5. CASE hook' = [hook EXCEPT ![h].step = "print", ![h].inode = NoFile]
    <3>1. hook'[h].step = "print"
      BY <2>5 DEF HookType, HookRecord
    <3> QED
      BY <2>3, <3>1
  <2> QED
    BY <1>1, <2>4, <2>5
<1>6. CASE /\ hook[h].step \in {"open", "write", "rename"} /\ nudges' = nudges
           /\ hook' = [hook EXCEPT ![h].step = "print", ![h].inode = NoFile]
  <2>1. Moves(h, x)
    BY <1>6 DEF Moves, HookType, HookRecord
  <2>2. /\ x \in HookRecord /\ Keyed(x) /\ x.step = "print" /\ Same(h, x) /\ x.at = hook[h].at
        /\ x.state = hook[h].state
    BY <1>1 DEF HookType, HookRecord, Keyed, HookSteps, Same
  <2> HIDE DEF x
  <2>3. /\ hook' \in [Hooks -> HookRecord] /\ (\A g \in Hooks : Keyed(hook'[g])) /\ Others(h) /\ hook'[h] = x
    BY <2>1, <2>2, MovesTo DEF Others
  <2>4. HookType'
    BY <1>1, <1>4, <2>3 DEF HookType, DiskType, ClockType
  <2> QED
    BY <1>1, <1>4, <1>6, <2>2, <2>3, <2>4
<1> QED
  BY <1>1, <1>5, <1>6

------------------------------------------------------------------------------
(* Whom a silence is owed to: a nudge, or a hook that is about to print it.*)

Recording == {"open", "write", "rename", "print"}
Owing(n, key, at) == n.session = key.session /\ n.kind = key.kind /\ n.at = at
OwedAt(key, at) ==
    \/ \E n \in nudges : Owing(n, key, at)
    \/ \E h \in Hooks : hook[h].step \in Recording /\ Owing(hook[h], key, at)
EntryOwed(e) == e.at <= now /\ OwedAt(e.key, e.at)

OwesInv ==
    /\ \A i \in Inode : \A e \in content[i].entries : EntryOwed(e)
    /\ \A h \in Hooks : \A e \in hook[h].state : EntryOwed(e)
    /\ \A h \in Hooks : hook[h].step \in Recording => hook[h].at <= now
    /\ \A q \in silenced : \E at \in 0 .. MaxTime :
          at <= q.at /\ q.at < at + Window /\ OwedAt(DedupKey(q.session, q.kind), at)

(* What is owed stays so: who records goes on, or leaves its nudge behind. *)
LEMMA OwedStays ==
    ASSUME HookType, HookType', nudges \subseteq nudges', now <= now', NEW h \in Hooks, Others(h),
           hook[h].step \in Recording =>
              \/ hook'[h].step \in Recording /\ Same(h, hook'[h]) /\ hook'[h].at = hook[h].at
              \/ \E n \in nudges' : n.session = hook[h].session /\ n.kind = hook[h].kind /\ n.at = hook[h].at
    PROVE  /\ \A key, at : OwedAt(key, at) => OwedAt(key, at)'
           /\ \A e \in Entry : EntryOwed(e) => EntryOwed(e)'
<1>1. ASSUME NEW key, NEW at, OwedAt(key, at) PROVE OwedAt(key, at)'
  <2>1. CASE \E n \in nudges : Owing(n, key, at)
    BY <2>1 DEF OwedAt, Owing
  <2>2. ASSUME NEW g \in Hooks, hook[g].step \in Recording, Owing(hook[g], key, at)
        PROVE  OwedAt(key, at)'
    <3>1. CASE g # h
      BY <2>2, <3>1 DEF OwedAt, Owing, Others
    <3>2. CASE g = h
      BY <2>2, <3>2 DEF OwedAt, Owing, Same
    <3> QED
      BY <3>1, <3>2
  <2> QED
    BY <1>1, <2>1, <2>2 DEF OwedAt
<1>2. ASSUME NEW e \in Entry, EntryOwed(e) PROVE EntryOwed(e)'
  <2>1. e.at <= now'
    BY <1>2 DEF EntryOwed, Entry, HookType, ClockType
  <2>2. OwedAt(e.key, e.at)'
    <3>1. PICK key, at : key = e.key /\ at = e.at
      OBVIOUS
    <3> QED
      BY <1>1, <1>2, <3>1 DEF EntryOwed
  <2> QED
    BY <2>1, <2>2 DEF EntryOwed
<1> QED
  BY <1>1, <1>2

(* What is in the files, and what a hook holds, is of the entries that     *)
(* were there, but for the one it records.                                 *)
LEMMA OwesStep ==
    ASSUME HookType, HookType', OwesInv, nudges \subseteq nudges', now <= now', NEW h \in Hooks, Others(h),
           hook[h].step \in Recording =>
              \/ hook'[h].step \in Recording /\ Same(h, hook'[h]) /\ hook'[h].at = hook[h].at
              \/ \E n \in nudges' : n.session = hook[h].session /\ n.kind = hook[h].kind /\ n.at = hook[h].at,
           hook'[h].step \in Recording => hook'[h].at <= now',
           \A i \in Inode : content'[i].entries \subseteq content[i].entries \cup hook[h].state,
           \A e \in hook'[h].state : EntryOwed(e) \/ EntryOwed(e)',
           silenced' = silenced
    PROVE  OwesInv'
<1>1. /\ \A key, at : OwedAt(key, at) => OwedAt(key, at)'
      /\ \A e \in Entry : EntryOwed(e) => EntryOwed(e)'
  BY OwedStays
<1>2. \A i \in Inode : \A e \in content'[i].entries : EntryOwed(e)'
  <2> SUFFICES ASSUME NEW i \in Inode, NEW e \in content'[i].entries PROVE EntryOwed(e)'
    OBVIOUS
  <2>1. e \in Entry
    BY DEF HookType, DiskType, Contents
  <2>2. EntryOwed(e)
    BY DEF OwesInv
  <2> QED
    BY <1>1, <2>1, <2>2
<1>3. \A g \in Hooks : \A e \in hook'[g].state : EntryOwed(e)'
  <2> SUFFICES ASSUME NEW g \in Hooks, NEW e \in hook'[g].state PROVE EntryOwed(e)'
    OBVIOUS
  <2>1. e \in Entry
    BY DEF HookType, HookRecord
  <2>2. EntryOwed(e) \/ EntryOwed(e)'
    BY DEF OwesInv, Others
  <2> QED
    BY <1>1, <2>1, <2>2
<1>4. \A g \in Hooks : hook'[g].step \in Recording => hook'[g].at <= now'
  <2> SUFFICES ASSUME NEW g \in Hooks, hook'[g].step \in Recording PROVE hook'[g].at <= now'
    OBVIOUS
  <2>1. now \in Nat /\ now' \in Nat /\ hook'[g].at \in Nat /\ hook[g].at \in Nat
    BY DEF HookType, ClockType, HookRecord
  <2>2. CASE g # h
    BY <2>1, <2>2 DEF OwesInv, Others
  <2> QED
    BY <2>2
<1>5. \A q \in silenced : \E at \in 0 .. MaxTime :
          at <= q.at /\ q.at < at + Window /\ OwedAt(DedupKey(q.session, q.kind), at)'
  <2> SUFFICES ASSUME NEW q \in silenced
               PROVE  \E at \in 0 .. MaxTime :
                         at <= q.at /\ q.at < at + Window /\ OwedAt(DedupKey(q.session, q.kind), at)'
    OBVIOUS
  <2>1. PICK at \in 0 .. MaxTime : at <= q.at /\ q.at < at + Window /\ OwedAt(DedupKey(q.session, q.kind), at)
    BY DEF OwesInv
  <2>2. PICK key : key = DedupKey(q.session, q.kind)
    OBVIOUS
  <2> QED
    BY <1>1, <2>1, <2>2
<1> QED
  BY <1>2, <1>3, <1>4, <1>5 DEF OwesInv, DedupKey

(* The file holds what its inode does; reading it makes nothing up.        *)
LEMMA ReadIsOwed ==
    ASSUME HookType, OwesInv
    PROVE  ReadState \subseteq Entry /\ \A e \in ReadState : EntryOwed(e)
  BY DEF ReadState, HookType, DiskType, Contents, OwesInv

LEMMA FireOwes ==
    ASSUME HookType, OwesInv, NEW h \in Hooks, NEW s \in HookSessions, NEW tool \in DOMAIN ToolKind, NEW b,
           Fire(h, s, tool, b)
    PROVE  OwesInv'
<1>1. HookType' /\ Others(h) /\ hook[h].step = "idle" /\ hook'[h].step = "check" /\ hook'[h].state = {}
  BY OfFire
<1>2. UNCHANGED <<content, now, nudges, silenced>>
  BY DEF Fire, disk
<1>3. now <= now'
  BY <1>2 DEF HookType, ClockType
<1> QED
  BY <1>1, <1>2, <1>3, OwesStep DEF Recording

LEMMA RecentlyFiredOwes ==
    ASSUME HookType, OwesInv, NEW h \in Hooks, RecentlyFired(h)
    PROVE  OwesInv'
<1> DEFINE fired == \E e \in ReadState : e.key = Holding(h) /\ now < e.at + Window
<1>q. PICK q : q = [session |-> hook[h].session, kind |-> hook[h].kind, at |-> now]
  OBVIOUS
<1>1. /\ HookType' /\ Others(h) /\ hook[h].step = "check"
      /\ hook'[h].step \in {"idle", "record"} /\ hook'[h].state \in {{}, hook[h].state}
  BY OfRecentlyFired
<1>2. /\ UNCHANGED <<content, now, nudges>>
      /\ silenced' = silenced \/ (fired /\ silenced' = silenced \cup {q})
  BY <1>q DEF RecentlyFired, disk
<1>3. now <= now'
  BY <1>2 DEF HookType, ClockType
<1>4. \A e \in hook'[h].state : EntryOwed(e)
  BY <1>1 DEF OwesInv
<1>5. CASE silenced' = silenced
  BY <1>1, <1>2, <1>3, <1>4, <1>5, OwesStep DEF Recording
<1>6. CASE fired /\ silenced' = silenced \cup {q}
  <2>1. PICK e \in ReadState : e.key = Holding(h) /\ now < e.at + Window
    BY <1>6
  <2>2. e \in Entry /\ e.at <= now /\ OwedAt(e.key, e.at)
    BY ReadIsOwed DEF EntryOwed
  <2>3. \A key, at : OwedAt(key, at) => OwedAt(key, at)'
    <3>1. hook[h].step \notin Recording
      BY <1>1 DEF Recording
    <3> QED
      BY <1>1, <1>2, <1>3, <3>1, OwedStays
  <2>4. OwedAt(DedupKey(q.session, q.kind), e.at)'
    <3>1. PICK key, at : key = DedupKey(q.session, q.kind) /\ at = e.at
      OBVIOUS
    <3>2. OwedAt(key, at)
      BY <1>q, <2>1, <2>2, <3>1 DEF Holding
    <3>3. OwedAt(key, at)'
      BY <2>3, <3>2
    <3> QED
      BY <3>1, <3>3 DEF DedupKey
  <2>5. \E at \in 0 .. MaxTime :
           at <= q.at /\ q.at < at + Window /\ OwedAt(DedupKey(q.session, q.kind), at)'
    BY <1>q, <2>1, <2>2, <2>4 DEF Entry
  <2>6. \A p \in silenced : \E at \in 0 .. MaxTime :
           at <= p.at /\ p.at < at + Window /\ OwedAt(DedupKey(p.session, p.kind), at)'
    <3> SUFFICES ASSUME NEW p \in silenced
                 PROVE  \E at \in 0 .. MaxTime :
                           at <= p.at /\ p.at < at + Window /\ OwedAt(DedupKey(p.session, p.kind), at)'
      OBVIOUS
    <3>1. PICK at \in 0 .. MaxTime : at <= p.at /\ p.at < at + Window /\ OwedAt(DedupKey(p.session, p.kind), at)
      BY DEF OwesInv
    <3>2. PICK key : key = DedupKey(p.session, p.kind)
      OBVIOUS
    <3> QED
      BY <2>3, <3>1, <3>2
  <2>7. /\ \A i \in Inode : \A d \in content'[i].entries : EntryOwed(d)'
        /\ \A g \in Hooks : \A d \in hook'[g].state : EntryOwed(d)'
        /\ \A g \in Hooks : hook'[g].step \in Recording => hook'[g].at <= now'
    <3>1. \A d : EntryOwed(d) => EntryOwed(d)'
      <4> SUFFICES ASSUME NEW d, EntryOwed(d) PROVE EntryOwed(d)'
        OBVIOUS
      <4>1. PICK key, at : key = d.key /\ at = d.at
        OBVIOUS
      <4> QED
        BY <1>2, <2>3, <4>1 DEF EntryOwed
    <3>2. \A i \in Inode : \A d \in content'[i].entries : EntryOwed(d)
      BY <1>2 DEF OwesInv
    <3>3. \A g \in Hooks : \A d \in hook'[g].state : EntryOwed(d)
      BY <1>1, <1>4 DEF OwesInv, Others
    <3>4. \A g \in Hooks : hook'[g].step \in Recording => hook'[g].at <= now'
      BY <1>1, <1>2 DEF OwesInv, Others, Recording
    <3> QED
      BY <3>1, <3>2, <3>3, <3>4
  <2> QED
    BY <1>6, <2>5, <2>6, <2>7 DEF OwesInv, DedupKey
<1> QED
  BY <1>2, <1>5, <1>6

LEMMA RecordFireOwes ==
    ASSUME HookType, OwesInv, NEW h \in Hooks, RecordFire(h)
    PROVE  OwesInv'
<1>1. /\ HookType' /\ Others(h) /\ hook[h].step = "record" /\ hook'[h].step = "open"
      /\ Same(h, hook'[h]) /\ hook'[h].at = now
      /\ hook'[h].state \subseteq ReadState \cup {[key |-> Holding(h), at |-> now]}
  BY OfRecordFire DEF Prune
<1>2. UNCHANGED <<content, now, nudges, silenced>>
  BY DEF RecordFire, disk, history
<1>3. now <= now'
  BY <1>2 DEF HookType, ClockType
<1>4. hook[h].step \notin Recording /\ hook'[h].step \in Recording
  BY <1>1 DEF Recording
<1>5. EntryOwed([key |-> Holding(h), at |-> now])'
  <2>1. /\ hook'[h].session = hook[h].session /\ hook'[h].kind = hook[h].kind
        /\ now' = now
    BY <1>1, <1>2 DEF Same
  <2>2. PICK e : e = [key |-> Holding(h), at |-> now]
    OBVIOUS
  <2>3. e.key.session = hook[h].session /\ e.key.kind = hook[h].kind /\ e.at = now
    BY <2>2 DEF Holding, DedupKey
  <2>4. EntryOwed(e)'
    BY <1>1, <1>3, <1>4, <2>1, <2>3 DEF EntryOwed, OwedAt, Owing
  <2> QED
    BY <1>2, <2>1, <2>2, <2>4 DEF Holding, DedupKey
<1>6. \A e \in hook'[h].state : EntryOwed(e) \/ EntryOwed(e)'
  <2> SUFFICES ASSUME NEW e \in hook'[h].state PROVE EntryOwed(e) \/ EntryOwed(e)'
    OBVIOUS
  <2>1. CASE e \in ReadState
    BY <2>1, ReadIsOwed
  <2>2. CASE e = [key |-> Holding(h), at |-> now]
    <3>1. PICK d : d = [key |-> Holding(h), at |-> now]
      OBVIOUS
    <3>2. Holding(h)' = Holding(h) /\ now' = now
      BY <1>1, <1>2 DEF Holding, DedupKey, Same
    <3>3. EntryOwed(d)'
      BY <1>5, <3>1, <3>2
    <3> QED
      BY <2>2, <3>1, <3>3
  <2> QED
    BY <1>1, <2>1, <2>2
<1>7. hook'[h].at <= now'
  BY <1>1, <1>3
<1> HIDE DEF OwesInv
<1> QED
  BY <1>1, <1>2, <1>3, <1>4, <1>6, <1>7, OwesStep

(* The steps of a hook that records, up to its nudge.                      *)
LEMMA RecordingOwes ==
    ASSUME HookType, OwesInv, NEW h \in Hooks,
           OpenTmp(h) \/ (WriteTmp(h) /\ hook[h].inode \in Inode) \/ Rename(h)
    PROVE  OwesInv'
<1>1. /\ HookType' /\ Others(h) /\ hook[h].step \in Recording /\ hook'[h].step \in Recording
      /\ Same(h, hook'[h]) /\ hook'[h].at = hook[h].at /\ hook'[h].state = hook[h].state
  <2>1. CASE OpenTmp(h)
    BY <2>1, OfOpenTmp DEF Recording
  <2>2. CASE WriteTmp(h) /\ hook[h].inode \in Inode
    BY <2>2, OfWriteTmp DEF Recording
  <2>3. CASE Rename(h)
    BY <2>3, OfRename DEF Recording
  <2> QED
    BY <2>1, <2>2, <2>3
<1>2. UNCHANGED <<now, nudges, silenced>>
  BY DEF OpenTmp, WriteTmp, Rename, history
<1>3. now <= now'
  BY <1>2 DEF HookType, ClockType
<1>4. \A i \in Inode : content'[i].entries \subseteq content[i].entries \cup hook[h].state
  <2>1. CASE OpenTmp(h)
    <3>1. content' = [content EXCEPT ![tmp'] = Empty] /\ Empty.entries = {}
      BY <2>1, OfOpenTmp DEF Empty
    <3> QED
      BY <3>1 DEF HookType, DiskType
  <2>2. CASE WriteTmp(h) /\ hook[h].inode \in Inode
    <3>1. PICK c \in {Whole(hook[h].state), Garbled} : content' = [content EXCEPT ![hook[h].inode] = c]
      BY <2>2, OfWriteTmp
    <3>2. c.entries \subseteq hook[h].state
      BY DEF Whole, Garbled
    <3> QED
      BY <3>1, <3>2 DEF HookType, DiskType
  <2>3. CASE Rename(h)
    BY <2>3 DEF Rename
  <2> QED
    BY <2>1, <2>2, <2>3
<1>5. \A e \in hook'[h].state : EntryOwed(e)
  BY <1>1 DEF OwesInv
<1>6. hook'[h].at <= now'
  BY <1>1, <1>2 DEF OwesInv
<1> HIDE DEF OwesInv
<1> QED
  BY <1>1, <1>2, <1>3, <1>4, <1>5, <1>6, OwesStep

LEMMA PrintNudgeOwes ==
    ASSUME HookType, OwesInv, NEW h \in Hooks, PrintNudge(h)
    PROVE  OwesInv'
<1>1. HookType' /\ Others(h) /\ hook'[h].step = "idle" /\ hook'[h].state = {}
  BY OfPrintNudge
<1>2. UNCHANGED <<content, now, silenced>> /\ nudges' = nudges \cup {Nudge(h, TRUE)}
  BY DEF PrintNudge, disk
<1>3. now <= now'
  BY <1>2 DEF HookType, ClockType
<1>4. \E n \in nudges' : n.session = hook[h].session /\ n.kind = hook[h].kind /\ n.at = hook[h].at
  <2>1. Nudge(h, TRUE) \in nudges'
    BY <1>2
  <2> QED
    BY <2>1 DEF Nudge
<1>5. hook'[h].step \notin Recording
  BY <1>1 DEF Recording
<1> HIDE DEF OwesInv
<1> QED
  BY <1>1, <1>2, <1>3, <1>4, <1>5, OwesStep

LEMMA HookFailsOwes ==
    ASSUME HookType, OwesInv, NEW h \in Hooks, HookFails(h)
    PROVE  OwesInv'
<1>1. /\ HookType' /\ Others(h) /\ UNCHANGED <<content, now, silenced>>
      /\ \/ /\ hook'[h].step = "idle" /\ hook'[h].state = {}
            /\ nudges' = IF hook[h].step \in {"check", "record"} THEN nudges
                         ELSE nudges \cup {Nudge(h, FALSE)}
         \/ /\ hook[h].step \in {"open", "write", "rename"} /\ nudges' = nudges
            /\ hook'[h].step = "print" /\ Same(h, hook'[h]) /\ hook'[h].at = hook[h].at
            /\ hook'[h].state = hook[h].state
  BY OfHookFails
<1>2. now <= now' /\ nudges \subseteq nudges'
  <2>1. now <= now'
    BY <1>1 DEF HookType, ClockType
  <2> QED
    BY <1>1, <2>1
<1>3. hook[h].step \in Recording =>
         \/ hook'[h].step \in Recording /\ Same(h, hook'[h]) /\ hook'[h].at = hook[h].at
         \/ \E n \in nudges' : n.session = hook[h].session /\ n.kind = hook[h].kind /\ n.at = hook[h].at
  <2> SUFFICES ASSUME hook[h].step \in Recording, hook'[h].step = "idle"
               PROVE  \E n \in nudges' : n.session = hook[h].session /\ n.kind = hook[h].kind /\ n.at = hook[h].at
    BY <1>1 DEF Recording
  <2>1. Nudge(h, FALSE) \in nudges'
    BY <1>1 DEF Recording
  <2> QED
    BY <2>1 DEF Nudge
<1>4. hook'[h].step \in Recording => hook'[h].at <= now'
  BY <1>1 DEF Recording, OwesInv
<1>5. \A e \in hook'[h].state : EntryOwed(e)
  BY <1>1 DEF OwesInv
<1> HIDE DEF OwesInv
<1> QED
  BY <1>1, <1>2, <1>3, <1>4, <1>5, OwesStep

LEMMA TickOwes ==
    ASSUME HookType, OwesInv, UNCHANGED <<content, hook, nudges, silenced>>, now' \in {now, now + 1}
    PROVE  OwesInv'
<1>1. \A e \in Entry : EntryOwed(e) => EntryOwed(e)'
  BY DEF EntryOwed, OwedAt, Owing, Entry, HookType, ClockType
<1>2. \A i \in Inode : \A e \in content[i].entries : e \in Entry
  BY DEF HookType, DiskType, Contents
<1>3. \A h \in Hooks : hook[h].state \subseteq Entry /\ hook[h].at \in Nat
  BY DEF HookType, HookRecord
<1>4. \A h \in Hooks : hook[h].step \in Recording => hook[h].at <= now'
  BY <1>3 DEF OwesInv, HookType, ClockType
<1> QED
  BY <1>1, <1>2, <1>3, <1>4 DEF OwesInv, OwedAt, Owing, DedupKey

LEMMA OwesIsSilenceOwed == OwesInv => SilenceIsOwed
  BY DEF OwesInv, SilenceIsOwed, OwedAt, Owing, DedupKey, Recording

------------------------------------------------------------------------------
(* One hook at a time: then the temporary file is its own.                 *)

LEMMA WholeIs == ASSUME NEW S PROVE Whole(S).is = "whole" /\ Whole(S).entries = S
  BY DEF Whole

HasOpen == \A h \in Hooks : hook[h].step = "write" => hook[h].inode \in Inode
Alone == \A g, h \in Hooks : hook[g].step # "idle" /\ hook[h].step # "idle" => g = h
FilesAreApart == tmp # NoFile => tmp # file
FileParses == file # NoFile => content[file].is = "whole"
WriterHasTmp ==
    \A h \in Hooks : hook[h].step = "write" =>
        tmp # NoFile /\ hook[h].inode = tmp /\ content[tmp] = Empty
TmpIsWritten ==
    \A h \in Hooks : hook[h].step = "rename" => tmp # NoFile /\ content[tmp] = Whole(hook[h].state)
SoloInv == Alone /\ FilesAreApart /\ FileParses /\ WriterHasTmp /\ TmpIsWritten

LEMMA SoloIsWhole == (~overlap => SoloInv) => FileIsWhole
  BY DEF SoloInv, FileParses, FileIsWhole

LEMMA FireSolo ==
    ASSUME HookType, ~overlap => SoloInv, HasOpen,
           NEW h \in Hooks, NEW s \in HookSessions, NEW tool \in DOMAIN ToolKind, NEW b, Fire(h, s, tool, b)
    PROVE  (~overlap' => SoloInv') /\ HasOpen' /\ (~overlap' => ~overlap /\ \A g \in Hooks : hook[g].step = "idle")
<1>1. HookType' /\ Others(h) /\ hook'[h].step = "check"
  BY OfFire
<1>2. UNCHANGED disk /\ overlap' = (overlap \/ \E g \in Hooks : hook[g].step # "idle")
  BY DEF Fire
<1>3. HasOpen'
  BY <1>1 DEF HasOpen, Others
<1>4. ASSUME ~overlap' PROVE SoloInv' /\ ~overlap /\ \A g \in Hooks : hook[g].step = "idle"
  <2>1. ~overlap /\ \A g \in Hooks : hook[g].step = "idle"
    BY <1>2, <1>4
  <2> QED
    BY <1>1, <1>2, <2>1 DEF SoloInv, Alone, FilesAreApart, FileParses, WriterHasTmp, TmpIsWritten, Others, disk
<1> QED
  BY <1>3, <1>4

(* The hook that runs alone goes on alone.                                 *)
LEMMA StillAlone ==
    ASSUME HookType, HookType', Alone, NEW h \in Hooks, Others(h), hook[h].step # "idle"
    PROVE  Alone' /\ \A g \in Hooks \ {h} : hook[g].step = "idle" /\ hook'[g].step = "idle"
  BY DEF Alone, Others

LEMMA SoloStep ==
    ASSUME HookType, ~overlap => SoloInv, HasOpen, NEW h \in Hooks, HookStep(h)
    PROVE  /\ HookType' /\ HasOpen' /\ overlap' = overlap
           /\ ~overlap' => SoloInv'
<1> SUFFICES /\ HookType' /\ HasOpen' /\ overlap' = overlap
             /\ SoloInv => SoloInv'
  OBVIOUS
<1>1. CASE RecentlyFired(h)
  <2>1. HookType' /\ Others(h) /\ hook[h].step # "idle" /\ hook'[h].step \in {"idle", "record"}
    BY <1>1, OfRecentlyFired
  <2>2. UNCHANGED <<disk, overlap>>
    BY <1>1 DEF RecentlyFired
  <2>3. HasOpen'
    BY <2>1 DEF HasOpen, Others
  <2>4. SoloInv => SoloInv'
    BY <2>1, <2>2, StillAlone DEF SoloInv, FilesAreApart, FileParses, WriterHasTmp, TmpIsWritten, disk
  <2> QED
    BY <2>1, <2>2, <2>3, <2>4
<1>2. CASE RecordFire(h)
  <2>1. HookType' /\ Others(h) /\ hook[h].step # "idle" /\ hook'[h].step = "open"
    BY <1>2, OfRecordFire
  <2>2. UNCHANGED <<disk, overlap>>
    BY <1>2 DEF RecordFire, history
  <2>3. HasOpen'
    BY <2>1 DEF HasOpen, Others
  <2>4. SoloInv => SoloInv'
    BY <2>1, <2>2, StillAlone DEF SoloInv, FilesAreApart, FileParses, WriterHasTmp, TmpIsWritten, disk
  <2> QED
    BY <2>1, <2>2, <2>3, <2>4
<1>3. CASE OpenTmp(h)
  <2>1. /\ HookType' /\ Others(h) /\ hook[h].step # "idle" /\ hook'[h].step = "write"
        /\ hook'[h].inode = tmp' /\ tmp' \in Inode /\ content' = [content EXCEPT ![tmp'] = Empty]
        /\ tmp = NoFile => tmp' # file
        /\ tmp # NoFile => tmp' = tmp
    BY <1>3, OfOpenTmp
  <2>2. UNCHANGED <<file, overlap>>
    BY <1>3 DEF OpenTmp, history
  <2>3. HasOpen'
    BY <2>1 DEF HasOpen, Others
  <2>4. ASSUME SoloInv PROVE SoloInv'
    <3>1. tmp' # file /\ NoFile \notin Inode
      BY <2>1, <2>4, HookAssumption DEF SoloInv, FilesAreApart, Inode
    <3>2. content'[tmp'] = Empty /\ (file # NoFile => content'[file] = content[file])
      BY <2>1, <3>1 DEF HookType, DiskType
    <3>3. Alone' /\ \A g \in Hooks \ {h} : hook'[g].step = "idle"
      BY <2>1, <2>4, StillAlone DEF SoloInv
    <3> QED
      BY <2>1, <2>2, <2>4, <3>1, <3>2, <3>3
      DEF SoloInv, FilesAreApart, FileParses, WriterHasTmp, TmpIsWritten
  <2> QED
    BY <2>1, <2>2, <2>3, <2>4
<1>4. CASE WriteTmp(h)
  <2>1. hook[h].step = "write" /\ hook[h].inode \in Inode
    BY <1>4 DEF WriteTmp, HasOpen
  <2>2. /\ HookType' /\ Others(h) /\ hook'[h].step = "rename" /\ hook'[h].state = hook[h].state
    BY <1>4, <2>1, OfWriteTmp
  <2>3. PICK c \in {Whole(hook[h].state), Garbled} :
           /\ content' = [content EXCEPT ![hook[h].inode] = c]
           /\ content[hook[h].inode] = Empty => c = Whole(hook[h].state)
    BY <1>4, <2>1, OfWriteTmp
  <2>4. UNCHANGED <<file, tmp, overlap>>
    BY <1>4 DEF WriteTmp, history
  <2>5. HasOpen'
    BY <2>2 DEF HasOpen, Others
  <2>6. ASSUME SoloInv PROVE SoloInv'
    <3>1. tmp # NoFile /\ hook[h].inode = tmp /\ content[tmp] = Empty /\ tmp # file
      BY <2>1, <2>6 DEF SoloInv, WriterHasTmp, FilesAreApart
    <3>2. content'[tmp] = Whole(hook[h].state) /\ (file # NoFile => content'[file] = content[file])
      BY <2>1, <2>3, <3>1 DEF HookType, DiskType
    <3>3. Alone' /\ \A g \in Hooks \ {h} : hook'[g].step = "idle"
      BY <2>1, <2>2, <2>6, StillAlone DEF SoloInv
    <3> QED
      BY <2>2, <2>4, <2>6, <3>1, <3>2, <3>3
      DEF SoloInv, FilesAreApart, FileParses, WriterHasTmp, TmpIsWritten
  <2> QED
    BY <2>2, <2>4, <2>5, <2>6
<1>5. CASE Rename(h)
  <2>1. HookType' /\ Others(h) /\ hook[h].step = "rename" /\ hook'[h].step = "print"
    BY <1>5, OfRename
  <2>2. UNCHANGED <<content, overlap>> /\ tmp' = NoFile /\ file' = IF tmp = NoFile THEN file ELSE tmp
    BY <1>5 DEF Rename, history
  <2>3. HasOpen'
    BY <2>1 DEF HasOpen, Others
  <2>4. ASSUME SoloInv PROVE SoloInv'
    <3>1. tmp # NoFile /\ content[tmp] = Whole(hook[h].state)
      BY <2>1, <2>4 DEF SoloInv, TmpIsWritten
    <3>2. content[tmp].is = "whole"
      BY <3>1, WholeIs
    <3>3. FileParses'
      BY <2>2, <3>1, <3>2 DEF FileParses
    <3>4. Alone' /\ \A g \in Hooks \ {h} : hook'[g].step = "idle"
      BY <2>1, <2>4, StillAlone DEF SoloInv
    <3> QED
      BY <2>1, <2>2, <3>3, <3>4 DEF SoloInv, FilesAreApart, WriterHasTmp, TmpIsWritten
  <2> QED
    BY <2>1, <2>2, <2>3, <2>4
<1>6. CASE PrintNudge(h)
  <2>1. HookType' /\ Others(h) /\ hook[h].step # "idle" /\ hook'[h].step = "idle"
    BY <1>6, OfPrintNudge
  <2>2. UNCHANGED <<disk, overlap>>
    BY <1>6 DEF PrintNudge
  <2>3. HasOpen'
    BY <2>1 DEF HasOpen, Others
  <2>4. SoloInv => SoloInv'
    BY <2>1, <2>2, StillAlone DEF SoloInv, FilesAreApart, FileParses, WriterHasTmp, TmpIsWritten, disk
  <2> QED
    BY <2>1, <2>2, <2>3, <2>4
<1>7. CASE HookFails(h)
  <2>1. HookType' /\ Others(h) /\ hook[h].step # "idle" /\ hook'[h].step \in {"idle", "print"}
    BY <1>7, OfHookFails
  <2>2. UNCHANGED <<file, tmp, content, overlap>>
    BY <1>7, OfHookFails
  <2>3. HasOpen'
    BY <2>1 DEF HasOpen, Others
  <2>4. SoloInv => SoloInv'
    BY <2>1, <2>2, StillAlone DEF SoloInv, FilesAreApart, FileParses, WriterHasTmp, TmpIsWritten
  <2> QED
    BY <2>1, <2>2, <2>3, <2>4
<1> QED
  BY <1>1, <1>2, <1>3, <1>4, <1>5, <1>6, <1>7 DEF HookStep

------------------------------------------------------------------------------
(* One hook at a time, and no faults: the file knows every nudge that is   *)
(* still in its window, and so does what a hook is about to write.         *)

SameKey(m, x) == m.session = x.session /\ m.kind = x.kind
EntryOf(m) == [key |-> DedupKey(m.session, m.kind), at |-> m.at]
Fresh(m) == now < m.at + Window
FarApart ==
    \A m, n \in nudges : SameKey(m, n) /\ m.at <= n.at /\ n.at < m.at + Window => m = n
NudgesAreKnown == \A m \in nudges : Fresh(m) => EntryOf(m) \in ReadState
RecorderIsDue ==
    \A h \in Hooks : hook[h].step = "record" =>
        \A m \in nudges : SameKey(m, hook[h]) => m.at + Window <= now
NextIsFar ==
    \A h \in Hooks : hook[h].step \in Recording =>
        \A m \in nudges : SameKey(m, hook[h]) => m.at + Window <= hook[h].at
CarriesKnown ==
    \A h \in Hooks : hook[h].step \in {"open", "write", "rename"} =>
        /\ \A m \in nudges : Fresh(m) => EntryOf(m) \in hook[h].state
        /\ EntryOf(hook[h]) \in hook[h].state
PrinterIsKnown == \A h \in Hooks : hook[h].step = "print" => EntryOf(hook[h]) \in ReadState
SpacedInv == FarApart /\ NudgesAreKnown /\ RecorderIsDue /\ NextIsFar /\ CarriesKnown /\ PrinterIsKnown

LEMMA SpacedIsRare == (~overlap /\ hookFaults = 0 => SpacedInv) => RepeatsAreRaces
  BY DEF SpacedInv, FarApart, SameKey, RepeatsAreRaces

LEMMA SpacedRecentlyFired ==
    ASSUME HookType, SoloInv, SpacedInv, NEW h \in Hooks, RecentlyFired(h)
    PROVE  SpacedInv'
<1>1. /\ HookType' /\ Others(h) /\ hook[h].step = "check"
      /\ \/ hook'[h].step = "idle"
         \/ /\ hook'[h].step = "record" /\ Same(h, hook'[h])
            /\ ~ \E e \in ReadState : e.key = Holding(h) /\ now < e.at + Window
  BY OfRecentlyFired
<1>2. UNCHANGED <<file, content, now, nudges>> /\ ReadState' = ReadState
  BY DEF RecentlyFired, disk, ReadState
<1>3. \A g \in Hooks \ {h} : hook'[g].step = "idle"
  BY <1>1, StillAlone DEF SoloInv
<1>4. hook'[h].step = "record" => \A m \in nudges : SameKey(m, hook'[h]) => m.at + Window <= now
  <2> SUFFICES ASSUME hook'[h].step = "record", NEW m \in nudges, SameKey(m, hook'[h])
               PROVE  m.at + Window <= now
    OBVIOUS
  <2>1. EntryOf(m).key = Holding(h) /\ EntryOf(m).at = m.at
    BY <1>1 DEF EntryOf, SameKey, Same, Holding, DedupKey
  <2>2. ~Fresh(m)
    BY <1>1, <2>1 DEF SpacedInv, NudgesAreKnown, Fresh
  <2> QED
    BY <2>2, HookAssumption DEF Fresh, HookType, ClockType
<1> QED
  BY <1>1, <1>2, <1>3, <1>4
  DEF SpacedInv, FarApart, NudgesAreKnown, RecorderIsDue, NextIsFar, CarriesKnown, PrinterIsKnown, Fresh, Recording

LEMMA SpacedRecordFire ==
    ASSUME HookType, SoloInv, SpacedInv, NEW h \in Hooks, RecordFire(h)
    PROVE  SpacedInv'
<1>1. /\ HookType' /\ Others(h) /\ hook[h].step = "record" /\ hook'[h].step = "open"
      /\ Same(h, hook'[h]) /\ hook'[h].at = now
      /\ hook'[h].state = Prune({e \in ReadState : e.key # Holding(h)} \cup {[key |-> Holding(h), at |-> now]})
  BY OfRecordFire
<1>2. UNCHANGED <<file, content, now, nudges>> /\ ReadState' = ReadState
  BY DEF RecordFire, disk, history, ReadState
<1>3. \A g \in Hooks \ {h} : hook'[g].step = "idle"
  BY <1>1, StillAlone DEF SoloInv
<1>4. \A m \in nudges : SameKey(m, hook'[h]) => m.at + Window <= now
  BY <1>1 DEF SpacedInv, RecorderIsDue, SameKey, Same
<1>5. \A m \in nudges : Fresh(m) => EntryOf(m) \in hook'[h].state
  <2> SUFFICES ASSUME NEW m \in nudges, Fresh(m) PROVE EntryOf(m) \in hook'[h].state
    OBVIOUS
  <2>1. EntryOf(m) \in ReadState /\ EntryOf(m).at = m.at /\ m.at \in Nat /\ now \in Nat
    BY DEF SpacedInv, NudgesAreKnown, EntryOf, HookType, ClockType
  <2>2. EntryOf(m).key # Holding(h)
    <3>1. ~SameKey(m, hook[h])
      BY <1>1, <2>1, HookAssumption DEF SpacedInv, RecorderIsDue, Fresh
    <3> QED
      BY <3>1 DEF EntryOf, SameKey, Holding, DedupKey
  <2>3. now < m.at + 2 * Window
    BY <2>1, HookAssumption DEF Fresh
  <2> QED
    BY <1>1, <2>1, <2>2, <2>3 DEF Prune
<1>6. EntryOf(hook'[h]) \in hook'[h].state
  <2>1. EntryOf(hook'[h]) = [key |-> Holding(h), at |-> now]
    BY <1>1 DEF EntryOf, Same, Holding, DedupKey
  <2>2. now < now + 2 * Window
    BY HookAssumption DEF HookType, ClockType
  <2> QED
    BY <1>1, <2>1, <2>2 DEF Prune
<1> QED
  BY <1>1, <1>2, <1>3, <1>4, <1>5, <1>6
  DEF SpacedInv, FarApart, NudgesAreKnown, RecorderIsDue, NextIsFar, CarriesKnown, PrinterIsKnown, Fresh, Recording

(* The file is left alone until the hook renames what it has written.      *)
LEMMA SpacedWriting ==
    ASSUME HookType, SoloInv, SpacedInv, HasOpen, NEW h \in Hooks, OpenTmp(h) \/ WriteTmp(h)
    PROVE  SpacedInv'
<1>1. WriteTmp(h) => hook[h].step = "write" /\ hook[h].inode \in Inode
  BY DEF WriteTmp, HasOpen
<1>2. /\ HookType' /\ Others(h) /\ hook[h].step \in {"open", "write"} /\ hook'[h].step \in {"write", "rename"}
      /\ Same(h, hook'[h]) /\ hook'[h].at = hook[h].at /\ hook'[h].state = hook[h].state
  <2>1. CASE OpenTmp(h)
    BY <2>1, OfOpenTmp
  <2>2. CASE WriteTmp(h)
    BY <1>1, <2>2, OfWriteTmp
  <2> QED
    BY <2>1, <2>2
<1>3. UNCHANGED <<file, now, nudges>>
  BY DEF OpenTmp, WriteTmp, history
<1>4. \A g \in Hooks \ {h} : hook'[g].step = "idle"
  BY <1>2, StillAlone DEF SoloInv
<1>5. file # NoFile => content'[file] = content[file]
  <2> SUFFICES ASSUME file # NoFile PROVE content'[file] = content[file]
    OBVIOUS
  <2>1. CASE OpenTmp(h)
    <3>1. content' = [content EXCEPT ![tmp'] = Empty] /\ tmp' # file
      BY <2>1, OfOpenTmp DEF SoloInv, FilesAreApart
    <3> QED
      BY <3>1 DEF HookType, DiskType
  <2>2. CASE WriteTmp(h)
    <3>1. PICK c : content' = [content EXCEPT ![hook[h].inode] = c]
      BY <1>1, <2>2, OfWriteTmp
    <3>2. hook[h].inode # file
      BY <1>1, <2>2 DEF SoloInv, FilesAreApart, WriterHasTmp
    <3> QED
      BY <3>1, <3>2 DEF HookType, DiskType
  <2> QED
    BY <2>1, <2>2
<1>6. ReadState' = ReadState
  BY <1>3, <1>5 DEF ReadState
<1>7. EntryOf(hook'[h]) = EntryOf(hook[h]) /\ \A m \in nudges : SameKey(m, hook'[h]) <=> SameKey(m, hook[h])
  BY <1>2 DEF EntryOf, DedupKey, Same, SameKey
<1> QED
  BY <1>2, <1>3, <1>4, <1>6, <1>7
  DEF SpacedInv, FarApart, NudgesAreKnown, RecorderIsDue, NextIsFar, CarriesKnown, PrinterIsKnown, Fresh, Recording

LEMMA SpacedRename ==
    ASSUME HookType, SoloInv, SpacedInv, NEW h \in Hooks, Rename(h)
    PROVE  SpacedInv'
<1>1. /\ HookType' /\ Others(h) /\ hook[h].step = "rename" /\ hook'[h].step = "print"
      /\ Same(h, hook'[h]) /\ hook'[h].at = hook[h].at /\ hook'[h].state = hook[h].state
  BY OfRename
<1>2. UNCHANGED <<content, now, nudges>> /\ file' = IF tmp = NoFile THEN file ELSE tmp
  BY DEF Rename, history
<1>3. \A g \in Hooks \ {h} : hook'[g].step = "idle"
  BY <1>1, StillAlone DEF SoloInv
<1>4. ReadState' = hook[h].state
  <2>1. tmp # NoFile /\ content[tmp] = Whole(hook[h].state)
    BY <1>1 DEF SoloInv, TmpIsWritten
  <2>2. content[tmp].entries = hook[h].state
    BY <2>1, WholeIs
  <2> QED
    BY <1>2, <2>1, <2>2 DEF ReadState
<1>5. EntryOf(hook'[h]) = EntryOf(hook[h]) /\ \A m \in nudges : SameKey(m, hook'[h]) <=> SameKey(m, hook[h])
  BY <1>1 DEF EntryOf, DedupKey, Same, SameKey
<1> QED
  BY <1>1, <1>2, <1>3, <1>4, <1>5
  DEF SpacedInv, FarApart, NudgesAreKnown, RecorderIsDue, NextIsFar, CarriesKnown, PrinterIsKnown, Fresh, Recording

LEMMA SpacedPrint ==
    ASSUME HookType, SoloInv, SpacedInv, NEW h \in Hooks, PrintNudge(h)
    PROVE  SpacedInv'
<1>1. HookType' /\ Others(h) /\ hook[h].step = "print" /\ hook'[h].step = "idle"
  BY OfPrintNudge
<1>2. UNCHANGED <<file, content, now>> /\ ReadState' = ReadState
  BY DEF PrintNudge, disk, ReadState
<1>3. \A g \in Hooks : hook'[g].step = "idle"
  BY <1>1, StillAlone DEF SoloInv
<1>4. PICK new \in nudges' :
         /\ nudges' = nudges \cup {new}
         /\ new.session = hook[h].session /\ new.kind = hook[h].kind /\ new.at = hook[h].at
  <2>1. nudges' = nudges \cup {Nudge(h, TRUE)}
    BY DEF PrintNudge
  <2>2. Nudge(h, TRUE).session = hook[h].session /\ Nudge(h, TRUE).kind = hook[h].kind /\ Nudge(h, TRUE).at = hook[h].at
    BY DEF Nudge
  <2> QED
    BY <2>1, <2>2
<1>5. \A m \in nudges : SameKey(m, new) => m.at + Window <= new.at
  BY <1>1, <1>4 DEF SpacedInv, NextIsFar, SameKey, Recording
<1>6. EntryOf(new) \in ReadState
  BY <1>1, <1>4 DEF SpacedInv, PrinterIsKnown, EntryOf
<1>7. FarApart'
  <2> SUFFICES ASSUME NEW m \in nudges', NEW n \in nudges', SameKey(m, n), m.at <= n.at, n.at < m.at + Window
               PROVE  m = n
    BY DEF FarApart
  <2>1. m.at \in Nat /\ n.at \in Nat /\ new.at \in Nat
    BY <1>1 DEF HookType
  <2>2. CASE m \in nudges /\ n \in nudges
    BY <2>2 DEF SpacedInv, FarApart
  <2>3. CASE m \in nudges /\ n = new
    BY <1>5, <2>1, <2>3, HookAssumption
  <2>4. CASE m = new /\ n \in nudges
    <3>1. n.at + Window <= m.at
      BY <1>5, <2>4 DEF SameKey
    <3> QED
      BY <2>1, <3>1, HookAssumption
  <2> QED
    BY <1>4, <2>2, <2>3, <2>4
<1>8. NudgesAreKnown'
  BY <1>2, <1>4, <1>6 DEF SpacedInv, NudgesAreKnown, Fresh
<1> QED
  BY <1>3, <1>7, <1>8 DEF SpacedInv, RecorderIsDue, NextIsFar, CarriesKnown, PrinterIsKnown, Recording

LEMMA SpacedTick ==
    ASSUME HookType, SpacedInv, UNCHANGED <<file, content, hook, nudges>>, now' \in {now, now + 1}
    PROVE  SpacedInv'
<1>1. \A m \in nudges : Fresh(m)' => Fresh(m)
  BY HookAssumption DEF Fresh, HookType, ClockType
<1>2. \A m \in nudges : m.at + Window <= now => m.at + Window <= now'
  BY HookAssumption DEF HookType, ClockType
<1>3. ReadState' = ReadState
  BY DEF ReadState
<1> QED
  BY <1>1, <1>2, <1>3
  DEF SpacedInv, FarApart, NudgesAreKnown, RecorderIsDue, NextIsFar, CarriesKnown, PrinterIsKnown

(* A hook that comes finds every other one idle.                           *)
LEMMA SpacedFire ==
    ASSUME HookType, SpacedInv, NEW h \in Hooks, NEW s \in HookSessions, NEW tool \in DOMAIN ToolKind, NEW b,
           Fire(h, s, tool, b), \A g \in Hooks : hook[g].step = "idle"
    PROVE  SpacedInv'
<1>1. Others(h) /\ hook'[h].step = "check"
  BY OfFire
<1>2. UNCHANGED <<file, content, now, nudges>> /\ ReadState' = ReadState
  BY DEF Fire, disk, ReadState
<1>3. \A g \in Hooks : hook'[g].step \in {"idle", "check"}
  BY <1>1 DEF Others
<1> QED
  BY <1>2, <1>3
  DEF SpacedInv, FarApart, NudgesAreKnown, RecorderIsDue, NextIsFar, CarriesKnown, PrinterIsKnown, Recording, Fresh

------------------------------------------------------------------------------
(* The hooks' invariant, and the steps of the system of sessions.          *)

HookInv ==
    /\ HookType /\ HasOpen /\ OwesInv
    /\ ~overlap => SoloInv
    /\ ~overlap /\ hookFaults = 0 => SpacedInv

LEMMA HookInitInv == HookInit => HookInv
<1> SUFFICES ASSUME HookInit PROVE HookInv
  OBVIOUS
<1>1. HookType
  <2>1. NoHook \in HookRecord /\ NoHook.step = "idle" /\ Empty \in Contents
    BY HookAssumption DEF NoHook, HookRecord, HookSteps, Empty, Contents
  <2>2. DiskType
    BY <2>1 DEF HookInit, DiskType
  <2>3. ClockType /\ nudges = {}
    <3>1. now = 0 /\ hookFaults = 0 /\ nudges = {}
      BY DEF HookInit
    <3>2. overlap \in BOOLEAN
      BY Zenon DEF HookInit
    <3> QED
      BY <3>1, <3>2, HookAssumption DEF ClockType
  <2>4. \A h \in Hooks : hook[h] = NoHook
    BY DEF HookInit
  <2>5. hook \in [Hooks -> HookRecord]
    BY <2>1 DEF HookInit
  <2> QED
    BY <2>1, <2>2, <2>3, <2>4, <2>5 DEF HookType, Keyed
<1>2. \A h \in Hooks : hook[h].step = "idle" /\ hook[h].state = {}
  BY DEF HookInit, NoHook
<1>3. \A i \in Inode : content[i].entries = {}
  BY DEF HookInit, Empty
<1>4. HasOpen /\ OwesInv
  BY <1>2, <1>3 DEF HasOpen, OwesInv, Recording, HookInit
<1>5. SoloInv
  BY <1>2 DEF SoloInv, Alone, FilesAreApart, FileParses, WriterHasTmp, TmpIsWritten, HookInit
<1>6. SpacedInv
  BY <1>2 DEF SpacedInv, FarApart, NudgesAreKnown, RecorderIsDue, NextIsFar, CarriesKnown, PrinterIsKnown, Recording, HookInit
<1> QED
  BY <1>1, <1>4, <1>5, <1>6 DEF HookInv

LEMMA HookStepInv == ASSUME HookInv, NEW h \in Hooks, HookStep(h) PROVE HookInv'
<1> USE DEF HookInv
<1>1. HookType' /\ HasOpen' /\ overlap' = overlap /\ (~overlap' => SoloInv')
  BY SoloStep
<1>2. OwesInv'
  <2>1. hook[h].step = "write" => hook[h].inode \in Inode
    BY DEF HasOpen
  <2>2. WriteTmp(h) => hook[h].inode \in Inode
    BY <2>1 DEF WriteTmp
  <2> QED
    BY <2>2, RecentlyFiredOwes, RecordFireOwes, RecordingOwes, PrintNudgeOwes, HookFailsOwes DEF HookStep
<1>3. ASSUME ~overlap', hookFaults' = 0 PROVE SpacedInv'
  <2>1. ~HookFails(h)
    BY <1>3, OfHookFails
  <2>2. hookFaults' = hookFaults
    BY <2>1 DEF HookStep, RecentlyFired, RecordFire, OpenTmp, WriteTmp, Rename, PrintNudge
  <2>3. SoloInv /\ SpacedInv
    BY <1>1, <1>3, <2>2
  <2> QED
    BY <2>1, <2>3, SpacedRecentlyFired, SpacedRecordFire, SpacedWriting, SpacedRename, SpacedPrint DEF HookStep
<1> QED
  BY <1>1, <1>2, <1>3

LEMMA HookFireInv ==
    ASSUME HookInv, NEW h \in Hooks, NEW s \in HookSessions, NEW tool \in DOMAIN ToolKind, NEW b,
           Fire(h, s, tool, b)
    PROVE  HookInv'
<1> USE DEF HookInv
<1>1. HookType'
  BY OfFire
<1>2. (~overlap' => SoloInv') /\ HasOpen' /\ (~overlap' => ~overlap /\ \A g \in Hooks : hook[g].step = "idle")
  BY FireSolo
<1>3. OwesInv'
  BY FireOwes
<1>4. ASSUME ~overlap', hookFaults' = 0 PROVE SpacedInv'
  <2>1. hookFaults = 0
    BY <1>4 DEF Fire
  <2> QED
    BY <1>2, <1>4, <2>1, SpacedFire
<1> QED
  BY <1>1, <1>2, <1>3, <1>4

LEMMA HookTickInv ==
    ASSUME HookInv, UNCHANGED <<disk, hook, hookFaults, overlap, nudges, silenced>>,
           now' = now \/ (now < MaxTime /\ now' = now + 1)
    PROVE  HookInv'
<1> USE DEF HookInv
<1>1. HookType'
  BY HookAssumption DEF HookType, DiskType, ClockType, disk
<1>2. HasOpen' /\ (SoloInv => SoloInv')
  BY DEF HasOpen, SoloInv, Alone, FilesAreApart, FileParses, WriterHasTmp, TmpIsWritten, disk
<1>3. OwesInv'
  BY TickOwes DEF disk
<1>4. SpacedInv => SpacedInv'
  BY SpacedTick DEF disk
<1> QED
  BY <1>1, <1>2, <1>3, <1>4

LEMMA SessionHookInv == HookInv /\ setup \in Setups /\ [SessionNext]_sessionVars => HookInv'
<1> SUFFICES ASSUME HookInv, setup \in Setups, [SessionNext]_sessionVars PROVE HookInv'
  OBVIOUS
<1>1. CASE UNCHANGED hookVars
  BY <1>1, HookTickInv DEF hookVars, disk
<1>2. CASE Tick
  BY <1>2, HookTickInv DEF Tick, history
<1>3. ASSUME NEW h \in Hooks, NEW s \in setup.servers, NEW tool \in DOMAIN ToolKind, NEW b, Fire(h, s, tool, b)
      PROVE  HookInv'
  <2>1. s \in HookSessions
    BY ToolsAssumption, SessionAssumption
  <2> QED
    BY <1>3, <2>1, HookFireInv
<1>4. ASSUME NEW s, ToolCalled(s) \notin DOMAIN ToolKind PROVE FALSE
  BY <1>4 DEF ToolCalled, ToolKind
<1>5. ASSUME NEW h \in Hooks, NEW s \in setup.servers,
             HookAfterCall(h, s) \/ \E tool \in DOMAIN ToolKind : HookAfterTool(h, s, tool)
      PROVE  HookInv'
  <2>1. CASE HookAfterCall(h, s)
    <3>1. PICK tool \in DOMAIN ToolKind : tool = ToolCalled(s)
      BY <1>4
    <3> QED
      BY <1>3, <2>1, <3>1 DEF HookAfterCall
  <2>2. CASE \E tool \in DOMAIN ToolKind : HookAfterTool(h, s, tool)
    BY <1>3, <2>2 DEF HookAfterTool
  <2> QED
    BY <1>5, <2>1, <2>2
<1> QED
  BY <1>1, <1>2, <1>5, HookStepInv DEF SessionNext, ToolStep, HookRuns, sessionVars

------------------------------------------------------------------------------
(* The tools' answers. *)

LEMMA CallsAlways == SessionSpec => []CallsInv
  BY CallsInit, CallsStep, PTL DEF SessionSpec

(* Whatever the servers and the dream passes do beside it: a read that     *)
(* answers "nothing" asked for nothing that a ledger it consults held when *)
(* it began, but for learnings that a snapshot of the whole ledger ranked  *)
(* out, handoffs that could not be read, an id that became ambiguous in the*)
(* learning's ledger, and handoffs of one time stamp.                      *)
THEOREM AlwaysNothingIsMissed == SessionSpec => []NothingIsMissed
  BY CallsAlways, CallsAreRight, PTL

(* get_handoff for a session answers with its newest handoff of the ledger *)
(* that answers, as far as it was acknowledged before the call, if no two  *)
(* handoffs were given the same time stamp.                                *)
THEOREM AlwaysSessionFindsItsHandoff == SessionSpec => []SessionFindsItsHandoff
  BY CallsAlways, CallsAreRight, PTL

(* Where both look at one ledger, the id under which a session found a     *)
(* learning reinforces that learning, or is refused for being ambiguous by *)
(* now.                                                                    *)
THEOREM AlwaysReinforcedIsRecalled == SessionSpec => []ReinforcedIsRecalled
  BY CallsAlways, CallsAreRight, PTL

------------------------------------------------------------------------------
(* The hooks' nudges and their file. *)

LEMMA HooksAlways == SessionSpec => []HookInv
<1>1. SessionInit => HookInv
  BY HookInitInv DEF SessionInit
<1>2. HookInv /\ CallsInv /\ [SessionNext]_sessionVars => HookInv'
  BY SessionHookInv DEF CallsInv
<1> QED
  BY <1>1, <1>2, CallsAlways, PTL DEF SessionSpec

(* Whichever hooks run beside each other: a hook that keeps silent owes it *)
(* to a nudge of its own session and kind, within the window, printed or   *)
(* on its way.                                                             *)
THEOREM AlwaysSilenceIsOwed == SessionSpec => []SilenceIsOwed
  BY HooksAlways, OwesIsSilenceOwed, PTL DEF HookInv

(* Until two hooks run at the same time, the dedup file is whole, whichever*)
(* hook died or failed to write.                                           *)
THEOREM AlwaysFileIsWhole == SessionSpec => []FileIsWhole
  BY HooksAlways, SoloIsWhole, PTL DEF HookInv

(* Until two hooks run at the same time or one fails, no session is nudged *)
(* twice for the same kind of tool within the window.                      *)
THEOREM AlwaysRepeatsAreRaces == SessionSpec => []RepeatsAreRaces
  BY HooksAlways, SpacedIsRare, PTL DEF HookInv

=============================================================================
