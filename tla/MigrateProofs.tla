---------------------------- MODULE MigrateProofs ----------------------------
(***************************************************************************)
(* Theorems about Migrate and Keys: for any number of processes, version 2 *)
(* ledgers, blocks, keys, runs and deaths.                                 *)
(***************************************************************************)
EXTENDS Migrate, SequenceTheorems, FiniteSetTheorems, NaturalsInduction,
        WellFoundedInduction, TLAPS

------------------------------------------------------------------------------
(* Positions of a sequence that are kept. *)

(* A set of naturals that is not empty has a least element.                *)
LEMMA LeastElement ==
    ASSUME NEW T, T \subseteq Nat, T # {}
    PROVE  \E n \in T : \A m \in T : n <= m
<1>1. \E n \in T : \A m \in T : ~(<<m, n>> \in OpToRel(<, Nat))
  BY WFMin, NatLessThanWellFounded, Zenon
<1>2. PICK n \in T : \A m \in T : ~(<<m, n>> \in OpToRel(<, Nat))
  BY <1>1
<1>3. ASSUME NEW m \in T PROVE n <= m
  <2>1. m \in Nat /\ n \in Nat /\ <<m, n>> \in Nat \X Nat
    OBVIOUS
  <2>2. ~(m < n)
    BY <1>2, <2>1, Zenon DEF OpToRel
  <2> QED
    BY <2>1, <2>2
<1> QED
  BY <1>3

LEMMA FinitePart ==
    ASSUME NEW N \in Nat, NEW I, I \subseteq 1 .. N
    PROVE  /\ IsFiniteSet(I) /\ Cardinality(I) \in Nat
           /\ \A i \in I : i \in 1 .. N
<1>1. IsFiniteSet(1 .. N)
  BY FS_Interval
<1>2. IsFiniteSet(I)
  BY <1>1, FS_Subset
<1> QED
  BY <1>2, FS_CardinalityType

UpTo(I, n) == {m \in I : m <= n}
Rank(I, i) == Cardinality(UpTo(I, i))

LEMMA RankGrows ==
    ASSUME NEW N \in Nat, NEW I, I \subseteq 1 .. N, NEW n \in 0 .. N
    PROVE  /\ Rank(I, n) \in Nat
           /\ Rank(I, N) = Cardinality(I)
           /\ Rank(I, 0) = 0
           /\ n > 0 /\ n \in I => Rank(I, n) = Rank(I, n - 1) + 1
           /\ n > 0 /\ n \notin I => Rank(I, n) = Rank(I, n - 1)
<1>0. \A i \in I : i \in 1 .. N
  BY FinitePart
<1>1. ASSUME NEW m \in Nat PROVE IsFiniteSet(UpTo(I, m)) /\ Rank(I, m) \in Nat
  <2>1. UpTo(I, m) \subseteq 1 .. N
    BY DEF UpTo
  <2> QED
    BY <2>1, FinitePart DEF Rank
<1>2. UpTo(I, N) = I
  <2>1. ASSUME NEW i \in I PROVE i <= N
    BY <1>0
  <2> QED
    BY <2>1 DEF UpTo
<1>3. UpTo(I, 0) = {}
  <2>1. ASSUME NEW i \in I PROVE ~(i <= 0)
    BY <1>0
  <2> QED
    BY <2>1 DEF UpTo
<1>4. ASSUME n > 0
      PROVE  UpTo(I, n) = IF n \in I THEN UpTo(I, n - 1) \cup {n} ELSE UpTo(I, n - 1)
  <2>1. ASSUME NEW m \in I PROVE m <= n <=> m <= n - 1 \/ m = n
    BY <1>0, <2>1
  <2> QED
    BY <2>1 DEF UpTo
<1>5. n \notin UpTo(I, n - 1)
  BY DEF UpTo
<1>6. ASSUME n > 0, n \in I PROVE Rank(I, n) = Rank(I, n - 1) + 1
  <2>1. n - 1 \in Nat
    BY <1>6
  <2> QED
    BY <1>1, <1>4, <1>5, <1>6, <2>1, FS_AddElement DEF Rank
<1>7. Rank(I, N) = Cardinality(I) /\ Rank(I, 0) = 0
  BY <1>2, <1>3, FS_EmptySet DEF Rank
<1>8. ASSUME n > 0, n \notin I PROVE Rank(I, n) = Rank(I, n - 1)
  BY <1>4, <1>8 DEF Rank
<1> QED
  BY <1>1, <1>6, <1>7, <1>8

(* For each k up to their number, one position has k of them up to it.      *)
LEMMA RankExists ==
    ASSUME NEW N \in Nat, NEW I, I \subseteq 1 .. N, NEW k \in 1 .. Cardinality(I)
    PROVE  \E i \in I : Rank(I, i) = k
<1> DEFINE T == {n \in 0 .. N : Rank(I, n) >= k}
<1>1. Cardinality(I) \in Nat
  BY FinitePart
<1>2. \A n \in 0 .. N :
          /\ Rank(I, n) \in Nat
          /\ n > 0 /\ n \in I => Rank(I, n) = Rank(I, n - 1) + 1
          /\ n > 0 /\ n \notin I => Rank(I, n) = Rank(I, n - 1)
  BY RankGrows
<1>3. Rank(I, N) = Cardinality(I) /\ Rank(I, 0) = 0
  BY RankGrows, 0 \in 0 .. N
<1>4. N \in T /\ T \subseteq Nat
  BY <1>1, <1>3
<1>5. PICK n \in T : \A m \in T : n <= m
  BY <1>4, LeastElement
<1>6. n \in 0 .. N /\ Rank(I, n) >= k
  BY <1>5
<1>7. n > 0
  BY <1>1, <1>3, <1>6
<1>8. n - 1 \in 0 .. N /\ n - 1 \notin T
  BY <1>5, <1>6, <1>7
<1>9. Rank(I, n - 1) < k
  BY <1>1, <1>2, <1>8
<1> QED
  BY <1>1, <1>2, <1>6, <1>7, <1>8, <1>9

LEMMA TranscribedType ==
    ASSUME source \in Sources
    PROVE  Transcribed \in Seq(V2Blocks)
<1>1. source.index \in Seq(V2Blocks)
  BY MigrateAssumption DEF V2Ledger
<1>2. HaveFiles \subseteq 1 .. Len(source.index) /\ Len(source.index) \in Nat
  BY <1>1 DEF HaveFiles
<1>3. Cardinality(HaveFiles) \in Nat
  BY <1>2, FinitePart
<1>4. ASSUME NEW k \in 1 .. Cardinality(HaveFiles)
      PROVE  source.index[CHOOSE i \in HaveFiles : Cardinality({j \in HaveFiles : j <= i}) = k] \in V2Blocks
  <2>1. \E i \in HaveFiles : Rank(HaveFiles, i) = k
    BY <1>2, RankExists
  <2>2. PICK i \in HaveFiles : i = CHOOSE j \in HaveFiles : Rank(HaveFiles, j) = k
    BY <2>1
  <2>3. source.index[i] \in V2Blocks
    BY <1>1, <1>2
  <2> QED
    BY <2>2, <2>3 DEF Rank, UpTo
<1> DEFINE n == Cardinality(HaveFiles)
          e(k) == source.index[CHOOSE i \in HaveFiles : Cardinality({j \in HaveFiles : j <= i}) = k]
<1>5. Transcribed = [k \in 1 .. n |-> e(k)]
  BY DEF Transcribed
<1>6. n \in Nat /\ \A k \in 1 .. n : e(k) \in V2Blocks
  BY <1>3, <1>4
<1> HIDE DEF n, e
<1> QED
  BY <1>5, <1>6

------------------------------------------------------------------------------
(* Types. *)

Sig == [id : KeyPairs, by : KeyPairs]
OpSteps == [none     |-> {"idle"},
            open     |-> {"index", "registered"},
            generate |-> {"identity", "open", "private"},
            trust    |-> {"write"},
            append   |-> {"keyId", "sign", "block", "index", "object", "register"},
            verify   |-> {"block", "own", "public", "trusted"},
            migrate  |-> {"keys", "blocks", "index", "registered", "objects", "audit"}]
Ops == {"none", "open", "generate", "trust", "append", "verify", "migrate"}
StepNames == {"idle", "identity", "open", "private", "write", "keyId", "sign", "block", "index", "object",
              "register", "own", "public", "trusted", "keys", "blocks", "registered", "objects", "audit"}
Faults == {"missing", "mismatch", "signature"}
Work == KeyFiles \cup Blocks \cup Entry \cup {"index", "registered", "audit"}
ProcRecord == [op : Ops, step : StepNames,
               key : {None} \cup KeyPairs \cup KeyFiles \cup Objects, sig : {None} \cup Sig,
               held : Seq(Entry), todo : Seq(Work), left : SUBSET Objects,
               block : {None} \cup NewBlocks, run : 0 .. MaxRuns,
               trust : SUBSET (KeyPairs \cup Blocks), bad : SUBSET Faults]

Has(s, f) == \E i \in 1 .. Len(s) : s[i] = f

(* What a migration may have left to do of the three key files.            *)
Order == [identity |-> 1, private |-> 2, trusted |-> 3]
KeyTodos == {s \in Seq(KeyFiles) : \A i, j \in 1 .. Len(s) : i < j => Order[s[i]] < Order[s[j]]}

(* What a process holds at the step it is about to take.                   *)
Task(x) ==
    /\ x.step \in OpSteps[x.op]
    /\ x.op = "generate" => x.key \in KeyPairs
    /\ x.op = "trust" => x.key \in KeyPairs /\ x.trust \subseteq KeyPairs
    /\ x.op = "append" => /\ x.block \in NewBlocks
                          /\ x.step = "sign" => x.key \in KeyPairs
                          /\ x.step = "register" => x.trust \subseteq Blocks
    /\ x.op = "verify" => /\ x.todo \in Seq(Entry)
                          /\ x.step # "block" => x.todo # <<>> /\ x.sig \in Sig \ {None}
    /\ x.op = "migrate" =>
          /\ x.step = "keys" => /\ x.todo \in KeyTodos
                                /\ \A f \in KeyFiles : Has(x.todo, f) => source.keys[f] # NoFile
                                /\ x.key # None => x.todo # <<>> /\ x.key = Head(x.todo)
          /\ x.step = "blocks" => x.todo \in Seq(V2Blocks)
          /\ x.step = "registered" /\ x.todo # <<>> => source.registered # NoFile
          /\ x.step = "objects" => x.key \in {None} \cup x.left /\ x.left \subseteq source.objects
          /\ x.step \notin {"keys", "objects"} => x.key = None
          /\ x.step # "objects" => x.left = {}

KeysType ==
    /\ keyFile \in [KeyFiles -> {NoFile, Torn} \cup KeyPairs \cup SUBSET KeyPairs]
    /\ keyFile["identity"] \in {NoFile, Torn} \cup KeyPairs
    /\ keyFile["private"] \in {NoFile, Torn} \cup KeyPairs
    /\ keyFile["trusted"] \in {NoFile, Torn} \cup SUBSET KeyPairs
Counts ==
    /\ made \subseteq KeyPairs /\ granted \subseteq KeyPairs
    /\ faults \in Nat /\ runs \in 0 .. MaxRuns
    /\ mixed \in BOOLEAN /\ trustRaced \in BOOLEAN /\ raced \in BOOLEAN
    /\ replaced \in BOOLEAN /\ stale \in BOOLEAN /\ audit \in BOOLEAN
FilesType ==
    /\ index \in {NoFile} \cup Seq(Entry)
    /\ DOMAIN blocks \subseteq Blocks
    /\ blocks \in [DOMAIN blocks -> [hash : Blocks \X (0 .. MaxRuns), sig : {None} \cup Sig]]
    /\ registered \in {NoFile} \cup SUBSET Blocks
    /\ objects \in [Objects -> {NoFile, Torn, "whole"}]
    /\ report \subseteq Faults
Values == source \in Sources /\ KeysType /\ Counts /\ FilesType

(* Who appends, migrates or verifies has opened the ledger, and who        *)
(* migrated it had.                                                        *)
LaidOut ==
    /\ \A p \in Procs : proc[p].op \in {"append", "migrate", "verify"} => HasLayout
    /\ audit => HasLayout

TypeInv == Values /\ proc \in [Procs -> ProcRecord] /\ \A p \in Procs : Task(proc[p])

(* Of the key files to be copied, the first goes when it is done.          *)
LEMMA KeyTodo ==
    ASSUME NEW s \in KeyTodos
    PROVE  /\ s \in Seq(KeyFiles)
           /\ s # <<>> => /\ Head(s) \in KeyFiles /\ Has(s, Head(s)) /\ Tail(s) \in KeyTodos
                          /\ \A f \in KeyFiles : Has(Tail(s), f) <=> Has(s, f) /\ f # Head(s)
                          /\ Head(s) = "private" => ~Has(s, "identity")
                          /\ Head(s) = "trusted" => ~Has(s, "identity") /\ ~Has(s, "private")
           /\ s = <<>> => \A f \in KeyFiles : ~Has(s, f)
<1>1. s \in Seq(KeyFiles) /\ \A i, j \in 1 .. Len(s) : i < j => Order[s[i]] < Order[s[j]]
  BY DEF KeyTodos
<1>2. \A f \in KeyFiles : Order[f] \in Nat
  BY DEF Order, KeyFiles
<1>3. ASSUME s # <<>>
      PROVE  /\ Head(s) \in KeyFiles /\ Has(s, Head(s)) /\ Tail(s) \in KeyTodos
             /\ \A f \in KeyFiles : Has(Tail(s), f) <=> Has(s, f) /\ f # Head(s)
             /\ Head(s) = "private" => ~Has(s, "identity")
             /\ Head(s) = "trusted" => ~Has(s, "identity") /\ ~Has(s, "private")
  <2> DEFINE t == Tail(s)
             n == Len(s)
  <2>1. /\ n \in Nat /\ n > 0 /\ Head(s) = s[1] /\ s[1] \in KeyFiles
        /\ t \in Seq(KeyFiles) /\ Len(t) = n - 1 /\ \A i \in 1 .. n - 1 : t[i] = s[i + 1]
        /\ \A i \in 1 .. n : s[i] \in KeyFiles
    BY <1>1, <1>3
  <2> HIDE DEF t, n
  <2>2. \A i \in 1 .. n : i > 1 => Order[s[1]] < Order[s[i]]
    BY <1>1, <2>1 DEF n
  <2>3. Has(s, Head(s))
    BY <2>1 DEF Has, n
  <2>4. t \in KeyTodos
    <3>1. ASSUME NEW i \in 1 .. Len(t), NEW j \in 1 .. Len(t), i < j
          PROVE  Order[t[i]] < Order[t[j]]
      <4>1. t[i] = s[i + 1] /\ t[j] = s[j + 1] /\ i + 1 \in 1 .. n /\ j + 1 \in 1 .. n
        BY <2>1
      <4> QED
        BY <1>1, <3>1, <4>1 DEF n
    <3> QED
      BY <2>1, <3>1 DEF KeyTodos
  <2>5. ASSUME NEW f \in KeyFiles, Has(t, f) PROVE Has(s, f) /\ f # Head(s)
    <3>1. PICK i \in 1 .. n - 1 : t[i] = f
      BY <2>1, <2>5 DEF Has
    <3>2. s[i + 1] = f /\ i + 1 \in 1 .. n /\ i + 1 > 1
      BY <2>1, <3>1
    <3> QED
      BY <1>2, <2>1, <2>2, <3>2 DEF Has, n
  <2>6. ASSUME NEW f \in KeyFiles, Has(s, f), f # Head(s) PROVE Has(t, f)
    <3>1. PICK i \in 1 .. n : s[i] = f
      BY <2>6 DEF Has, n
    <3>2. i - 1 \in 1 .. n - 1 /\ t[i - 1] = f
      BY <2>1, <2>6, <3>1
    <3> QED
      BY <2>1, <3>2 DEF Has
  <2>7. ASSUME NEW f \in KeyFiles, Order[f] < Order[Head(s)] PROVE ~Has(s, f)
    <3>1. SUFFICES ASSUME NEW i \in 1 .. n, s[i] = f PROVE FALSE
      BY DEF Has, n
    <3>2. Order[f] < Order[s[1]] /\ Order[f] \in Nat /\ Order[s[1]] \in Nat
      BY <1>2, <2>1, <2>7
    <3>3. i = 1 \/ Order[s[1]] < Order[f]
      BY <2>1, <2>2, <3>1
    <3> QED
      BY <3>1, <3>2, <3>3
  <2>8. Order["identity"] < Order["private"] /\ Order["private"] < Order["trusted"]
        /\ Order["identity"] < Order["trusted"] /\ "identity" \in KeyFiles /\ "private" \in KeyFiles
    BY DEF Order, KeyFiles
  <2> QED
    BY <2>1, <2>3, <2>4, <2>5, <2>6, <2>7, <2>8 DEF t
<1> QED
  BY <1>1, <1>3 DEF Has

LEMMA CopiedList ==
    ASSUME source \in Sources
    PROVE  Copied \in KeyTodos /\ \A f \in KeyFiles : Has(Copied, f) <=> source.keys[f] # NoFile
<1> DEFINE There(f) == source.keys[f] # NoFile
           Only(s, f, n) == /\ s \in Seq(KeyFiles) /\ Len(s) = n /\ n \in {0, 1}
                            /\ (n = 1 => s[1] = f) /\ (n = 1 <=> There(f))
           a == IfThere("identity")
           b == IfThere("private")
           d == IfThere("trusted")
           c == Copied
<1>1. ASSUME NEW f \in KeyFiles PROVE Only(IfThere(f), f, Len(IfThere(f)))
  <2>1. CASE There(f)
    <3>1. IfThere(f) = <<f>>
      BY <2>1 DEF IfThere
    <3> QED
      BY <2>1, <3>1
  <2>2. CASE ~There(f)
    <3>1. IfThere(f) = <<>>
      BY <2>2 DEF IfThere
    <3> QED
      BY <2>2, <3>1
  <2> QED
    BY <2>1, <2>2
<1>2. Only(a, "identity", Len(a)) /\ Only(b, "private", Len(b)) /\ Only(d, "trusted", Len(d))
  BY <1>1 DEF KeyFiles
<1>3. c = (a \o b) \o d
  BY DEF Copied
<1> HIDE DEF There, a, b, c, d
<1> DEFINE ab == a \o b
<1>4. /\ ab \in Seq(KeyFiles) /\ Len(ab) = Len(a) + Len(b)
      /\ \A n \in 1 .. Len(a) + Len(b) : ab[n] = IF n <= Len(a) THEN a[n] ELSE b[n - Len(a)]
  BY <1>2, ConcatProperties
<1>5. c = ab \o d
  BY <1>3
<1> HIDE DEF ab
<1>6. /\ c \in Seq(KeyFiles) /\ Len(c) = Len(ab) + Len(d)
      /\ \A n \in 1 .. Len(ab) + Len(d) : c[n] = IF n <= Len(ab) THEN ab[n] ELSE d[n - Len(ab)]
  <2>1. ab \in Seq(KeyFiles) /\ d \in Seq(KeyFiles)
    BY <1>2, <1>4
  <2> QED
    BY ONLY <1>5, <2>1, ConcatProperties
<1> DEFINE x == Len(a)
           y == Len(b)
           z == Len(d)
<1>7. /\ x \in {0, 1} /\ y \in {0, 1} /\ z \in {0, 1} /\ Len(c) = x + y + z
      /\ (x = 1 <=> There("identity")) /\ (y = 1 <=> There("private")) /\ (z = 1 <=> There("trusted"))
      /\ (x = 1 => a[1] = "identity") /\ (y = 1 => b[1] = "private") /\ (z = 1 => d[1] = "trusted")
  BY <1>2, <1>4, <1>6
<1>8. ASSUME NEW n \in 1 .. Len(c)
      PROVE  c[n] = IF n <= x THEN "identity" ELSE IF n <= x + y THEN "private" ELSE "trusted"
  <2>1. CASE n <= x
    BY <1>4, <1>6, <1>7, <2>1
  <2>2. CASE n > x /\ n <= x + y
    BY <1>4, <1>6, <1>7, <2>2
  <2>3. CASE n > x + y
    BY <1>4, <1>6, <1>7, <2>3
  <2> QED
    BY <1>7, <2>1, <2>2, <2>3
<1> HIDE DEF x, y, z
<1>9. c \in KeyTodos
  <2>1. ASSUME NEW i \in 1 .. Len(c), NEW j \in 1 .. Len(c), i < j PROVE Order[c[i]] < Order[c[j]]
    BY <1>7, <1>8, <2>1 DEF Order
  <2> QED
    BY <1>6, <2>1 DEF KeyTodos
<1>10. ASSUME NEW f \in KeyFiles PROVE Has(c, f) <=> There(f)
  <2>1. Has(c, "identity") <=> x = 1
    BY <1>7, <1>8 DEF Has
  <2>2. Has(c, "private") <=> y = 1
    <3>1. ASSUME y = 1 PROVE Has(c, "private")
      <4>1. x + 1 \in 1 .. Len(c) /\ c[x + 1] = "private"
        BY <1>7, <1>8, <3>1
      <4> QED
        BY <4>1 DEF Has
    <3> QED
      BY <1>7, <1>8, <3>1 DEF Has
  <2>3. Has(c, "trusted") <=> z = 1
    <3>1. ASSUME z = 1 PROVE Has(c, "trusted")
      <4>1. x + y + 1 \in 1 .. Len(c) /\ c[x + y + 1] = "trusted"
        BY <1>7, <1>8, <3>1
      <4> QED
        BY <4>1 DEF Has
    <3> QED
      BY <1>7, <1>8, <3>1 DEF Has
  <2> QED
    BY <1>7, <2>1, <2>2, <2>3 DEF KeyFiles
<1> QED
  BY <1>9, <1>10 DEF c, There

(* A process moves on: what the others hold is as it was.                  *)
Moves(p, x) == proc' = [proc EXCEPT ![p] = x]

LEMMA TypeMove ==
    ASSUME TypeInv, NEW p \in Procs, NEW x \in ProcRecord, Task(x), Moves(p, x), source' = source, Values'
    PROVE  TypeInv'
<1>1. proc' \in [Procs -> ProcRecord] /\ \A q \in Procs : proc'[q] = IF q = p THEN x ELSE proc[q]
  BY DEF TypeInv, Moves
<1>2. ASSUME NEW q \in Procs PROVE Task(proc[q])'
  BY <1>1 DEF Task, TypeInv
<1> QED
  BY <1>1, <1>2 DEF TypeInv

(* The types of a file that is written, and of those that are not.         *)
LEMMA KeyWritten ==
    ASSUME KeysType, NEW f \in KeyFiles, NEW v, keyFile' = [keyFile EXCEPT ![f] = v],
           IF f = "trusted" THEN v \in {NoFile, Torn} \cup SUBSET KeyPairs ELSE v \in {NoFile, Torn} \cup KeyPairs
    PROVE  KeysType'
<1>1. v \in {NoFile, Torn} \cup KeyPairs \cup SUBSET KeyPairs
  OBVIOUS
<1>2. keyFile' \in [KeyFiles -> {NoFile, Torn} \cup KeyPairs \cup SUBSET KeyPairs]
  BY <1>1 DEF KeysType
<1>3. \A g \in KeyFiles : keyFile'[g] = IF g = f THEN v ELSE keyFile[g]
  BY DEF KeysType
<1> QED
  BY <1>2, <1>3 DEF KeysType, KeyFiles

LEMMA Kept ==
    /\ KeysType /\ UNCHANGED keyFile => KeysType'
    /\ Counts /\ UNCHANGED <<made, granted, faults, runs, mixed, trustRaced, raced, replaced, stale, audit>> => Counts'
    /\ FilesType /\ UNCHANGED <<index, blocks, registered, objects, report>> => FilesType'
BY DEF KeysType, Counts, FilesType

(* A version 2 ledger.                                                     *)
LEMMA SourceType ==
    ASSUME source \in Sources
    PROVE  /\ source.keys["identity"] \in {NoFile} \cup KeyPairs
           /\ source.keys["private"] \in {NoFile} \cup KeyPairs
           /\ source.keys["trusted"] \in {NoFile} \cup SUBSET KeyPairs
           /\ source.registered \in {NoFile} \cup SUBSET Blocks
           /\ source.undated \subseteq V2Blocks /\ source.objects \subseteq Objects
BY MigrateAssumption DEF V2Ledger, V2Blocks

LEMMA NoTask == NoProc \in ProcRecord /\ Task(NoProc)
<1>1. NoProc \in ProcRecord
  BY MigrateAssumption DEF NoProc, ProcRecord, Ops, StepNames
<1>2. Task(NoProc)
  BY DEF NoProc, Task, OpSteps
<1> QED
  BY <1>1, <1>2

LEMMA WorkSeqs ==
    /\ \A s \in Seq(Entry) : s \in Seq(Work)
    /\ \A s \in Seq(V2Blocks) : s \in Seq(Work)
    /\ \A s \in Seq(KeyFiles) : s \in Seq(Work)
BY DEF Work, V2Blocks
(* The steps of a migration, and what is to be written in them.            *)
LEMMA NextStep ==
    ASSUME source \in Sources, NEW step \in OpSteps["migrate"] \ {"audit"}
    PROVE  /\ AfterStep(step) = CASE step = "keys" -> "blocks"
                                  [] step = "blocks" -> "index"
                                  [] step = "index" -> "registered"
                                  [] step = "registered" -> "objects"
                                  [] step = "objects" -> "audit"
           /\ WorkOf(AfterStep(step)) \in Seq(Work)
           /\ step = "keys" => WorkOf(AfterStep(step)) = Transcribed /\ Transcribed \in Seq(V2Blocks)
           /\ step = "blocks" => WorkOf(AfterStep(step)) = <<"index">>
           /\ step = "index" => WorkOf(AfterStep(step)) = IF source.registered = NoFile THEN <<>> ELSE <<"registered">>
           /\ step = "registered" => WorkOf(AfterStep(step)) = <<>>
           /\ step = "objects" => WorkOf(AfterStep(step)) = <<"audit">>
<1>1. step \in {"keys", "blocks", "index", "registered", "objects"}
  BY DEF OpSteps
<1>2. \A s \in {"keys", "blocks", "index", "registered", "objects"} :
          AfterStep(s) = CASE s = "keys" -> "blocks"
                           [] s = "blocks" -> "index"
                           [] s = "index" -> "registered"
                           [] s = "registered" -> "objects"
                           [] s = "objects" -> "audit"
  <2>1. /\ DOMAIN Steps = 1 .. 6 /\ Steps[1] = "keys" /\ Steps[2] = "blocks" /\ Steps[3] = "index"
        /\ Steps[4] = "registered" /\ Steps[5] = "objects" /\ Steps[6] = "audit"
    BY DEF Steps
  <2> DEFINE at(s) == CHOOSE i \in 1 .. 6 : Steps[i] = s
  <2>2. /\ at("keys") = 1 /\ at("blocks") = 2 /\ at("index") = 3
        /\ at("registered") = 4 /\ at("objects") = 5
    BY <2>1
  <2>3. \A s : AfterStep(s) = Steps[at(s) + 1]
    BY <2>1 DEF AfterStep
  <2> HIDE DEF at
  <2> QED
    BY <2>1, <2>2, <2>3
<1>3. Transcribed \in Seq(V2Blocks) /\ Transcribed \in Seq(Work)
  BY TranscribedType, WorkSeqs
<1>4. /\ WorkOf("blocks") = Transcribed /\ WorkOf("index") = <<"index">>
      /\ WorkOf("registered") = IF source.registered = NoFile THEN <<>> ELSE <<"registered">>
      /\ WorkOf("objects") = <<>> /\ WorkOf("audit") = <<"audit">>
  BY DEF WorkOf
<1>5. <<>> \in Seq(Work) /\ <<"index">> \in Seq(Work) /\ <<"registered">> \in Seq(Work) /\ <<"audit">> \in Seq(Work)
  <2>1. "index" \in Work /\ "registered" \in Work /\ "audit" \in Work
    BY DEF Work
  <2> QED
    BY <2>1
<1> QED
  BY <1>1, <1>2, <1>3, <1>4, <1>5

(* A block file is written.                                                *)
BlockType == [hash : Blocks \X (0 .. MaxRuns), sig : {None} \cup Sig]
LEMMA BlockWritten ==
    ASSUME FilesType, NEW b \in Blocks, NEW v \in BlockType,
           blocks' = [c \in DOMAIN blocks \cup {b} |-> IF c = b THEN v ELSE blocks[c]]
    PROVE  /\ DOMAIN blocks' \subseteq Blocks /\ DOMAIN blocks' = DOMAIN blocks \cup {b}
           /\ blocks' \in [DOMAIN blocks' -> BlockType]
           /\ blocks'[b] = v /\ \A c \in DOMAIN blocks \ {b} : blocks'[c] = blocks[c]
BY DEF FilesType, BlockType

(* The index that a migration writes.                                      *)
LEMMA IndexWritten ==
    ASSUME source \in Sources, NEW run \in 0 .. MaxRuns,
           NEW es, es = [i \in DOMAIN Transcribed |-> [id |-> Transcribed[i], hash |-> HashOf(Transcribed[i], run)]]
    PROVE  /\ es \in Seq(Entry) /\ Len(es) = Len(Transcribed)
           /\ \A i \in 1 .. Len(Transcribed) : es[i].id = Transcribed[i] /\ es[i].hash = HashOf(Transcribed[i], run)
<1> DEFINE t == Transcribed
           e(i) == [id |-> t[i], hash |-> HashOf(t[i], run)]
<1>1. t \in Seq(V2Blocks)
  BY TranscribedType
<1>2. es = [i \in DOMAIN t |-> e(i)]
  OBVIOUS
<1> HIDE DEF t
<1>3. Len(t) \in Nat /\ DOMAIN t = 1 .. Len(t) /\ \A i \in 1 .. Len(t) : t[i] \in Blocks
  BY <1>1 DEF V2Blocks
<1>4. ASSUME NEW i \in 1 .. Len(t) PROVE e(i) \in Entry
  <2>1. HashOf(t[i], run) \in Blocks \X (0 .. MaxRuns)
    BY <1>3, MigrateAssumption DEF HashOf
  <2> QED
    BY <1>3, <2>1 DEF Entry
<1>5. \A i \in 1 .. Len(t) : e(i).id = t[i] /\ e(i).hash = HashOf(t[i], run)
  OBVIOUS
<1> HIDE DEF e
<1>6. es = [i \in 1 .. Len(t) |-> e(i)]
  BY <1>2, <1>3
<1>7. es \in Seq(Entry) /\ Len(es) = Len(t) /\ \A i \in 1 .. Len(t) : es[i] = e(i)
  BY <1>3, <1>4, <1>6
<1> QED
  BY <1>5, <1>7 DEF t

(* A process opens the ledger: it finds a file missing, or writes it empty.*)
Opens(p) == LookForIndex(p) \/ MakeIndex(p) \/ LookForReinforcements(p) \/ MakeReinforcements(p)
Opener(s) == [NoProc EXCEPT !.op = "open", !.step = s]

LEMMA OpenSteps ==
    ASSUME NEW p \in Procs, Opens(p)
    PROVE  /\ UNCHANGED <<keyFile, made, faults, mixed, granted, trustRaced>>
           /\ UNCHANGED <<blocks, objects, audit, runs, appended, raced, replaced, stale, report, source>>
           /\ (index' = index \/ index' = <<>>) /\ (registered' = registered \/ registered' = {})
           /\ \/ /\ Idle(p) /\ ~HasLayout /\ UNCHANGED <<index, registered>>
                 /\ Moves(p, Opener("index")) \/ Moves(p, Opener("registered"))
              \/ proc[p].op = "open" /\ Moves(p, NoProc)
<1>1. CASE LookForIndex(p)
  BY <1>1 DEF LookForIndex, Open, Opener, Moves, keyRest, rest, fileVars, HasLayout
<1>2. CASE MakeIndex(p)
  BY <1>2 DEF MakeIndex, At, Return, Moves, keyRest, rest
<1>3. CASE LookForReinforcements(p)
  BY <1>3 DEF LookForReinforcements, Open, Opener, Moves, keyRest, rest, fileVars, HasLayout
<1>4. CASE MakeReinforcements(p)
  BY <1>4 DEF MakeReinforcements, At, Return, Moves, keyRest, rest
<1> QED
  BY <1>1, <1>2, <1>3, <1>4 DEF Opens

(* What becomes of the processes, of which none is one of those that work. *)
LEMMA OpenMoves ==
    ASSUME proc \in [Procs -> ProcRecord], NEW p \in Procs, Opens(p)
    PROVE  /\ \A q \in Procs \ {p} : proc'[q] = proc[q]
           /\ proc[p].op \in {"none", "open"}
           /\ proc'[p] \in {NoProc, Opener("index"), Opener("registered")}
           /\ proc'[p].op \in {"none", "open"} /\ proc'[p].bad = {}
<1>1. PICK x \in {NoProc, Opener("index"), Opener("registered")} : Moves(p, x)
  BY OpenSteps
<1>2. proc'[p] = x /\ \A q \in Procs \ {p} : proc'[q] = proc[q]
  BY <1>1 DEF Moves
<1>3. proc[p].op \in {"none", "open"}
  BY OpenSteps DEF Idle
<1>4. x.op \in {"none", "open"} /\ x.bad = {}
  <2>1. NoProc.op = "none" /\ NoProc.bad = {}
    BY DEF NoProc
  <2>2. \A s : Opener(s).op = "open" /\ Opener(s).bad = {}
    BY DEF NoProc, Opener
  <2> QED
    BY <1>1, <2>1, <2>2
<1> QED
  BY <1>1, <1>2, <1>3, <1>4

LEMMA TypesStep == TypeInv /\ LaidOut /\ [Next]_vars => TypeInv'
<1> SUFFICES ASSUME TypeInv, LaidOut, [Next]_vars PROVE TypeInv'
  OBVIOUS
<1>0. Values /\ proc \in [Procs -> ProcRecord] /\ \A p \in Procs : proc[p] \in ProcRecord /\ Task(proc[p])
  BY DEF TypeInv
<1>1. CASE UNCHANGED vars
  BY <1>0, <1>1
     DEF vars, keyVars, migrateVars, fileVars, TypeInv, Values, KeysType, Counts, FilesType, Task
<1>2. ASSUME NEW p \in Procs, WriteIdentity(p), UNCHANGED <<migrateVars, source>> PROVE TypeInv'
  <2>1. proc[p] \in ProcRecord /\ Task(proc[p])
    BY <1>0
  <2>3. \E x \in ProcRecord : Task(x) /\ Moves(p, x)
    <3> DEFINE x == [proc[p] EXCEPT !.step = "open"]
    <3>1. x \in ProcRecord
      BY <2>1 DEF ProcRecord, Ops, StepNames
    <3>2. Task(x)
      BY <2>1, <1>2 DEF WriteIdentity, ProcRecord, OpSteps, Task, At
    <3>3. Moves(p, x)
      BY <1>2 DEF WriteIdentity, Moves, Step, Return, Done, At, Lost
    <3> QED
      BY <3>1, <3>2, <3>3
  <2>4. KeysType'
    BY <1>0, <1>2, Kept, <2>1, KeyWritten
       DEF Values, WriteIdentity, keyRest, fileVars, rest, migrateVars, KeyFiles, At, Task
  <2>5. Counts'
    BY <1>0, <1>2, Kept DEF Values, WriteIdentity, keyRest, fileVars, rest, migrateVars
  <2>6. FilesType'
    BY <1>0, <1>2, Kept DEF Values, WriteIdentity, keyRest, fileVars, rest, migrateVars
  <2>7. source' = source
    BY <1>2 DEF WriteIdentity, rest
  <2> QED
    BY <1>0, <2>3, <2>4, <2>5, <2>6, <2>7, TypeMove DEF Values
<1>3. ASSUME NEW p \in Procs, OpenPrivate(p), UNCHANGED <<migrateVars, source>> PROVE TypeInv'
  <2>1. proc[p] \in ProcRecord /\ Task(proc[p])
    BY <1>0
  <2>3. \E x \in ProcRecord : Task(x) /\ Moves(p, x)
    <3> DEFINE x == [proc[p] EXCEPT !.step = "private"]
    <3>1. x \in ProcRecord
      BY <2>1 DEF ProcRecord, Ops, StepNames
    <3>2. Task(x)
      BY <2>1, <1>3 DEF OpenPrivate, ProcRecord, OpSteps, Task, At
    <3>3. Moves(p, x)
      BY <1>3 DEF OpenPrivate, Moves, Step, Return, Done, At, Lost
    <3> QED
      BY <3>1, <3>2, <3>3
  <2>4. KeysType'
    BY <1>0, <1>3, Kept, <2>1, KeyWritten
       DEF Values, OpenPrivate, keyRest, fileVars, rest, migrateVars, KeyFiles, At, Task
  <2>5. Counts'
    BY <1>0, <1>3, Kept DEF Values, OpenPrivate, keyRest, fileVars, rest, migrateVars
  <2>6. FilesType'
    BY <1>0, <1>3, Kept DEF Values, OpenPrivate, keyRest, fileVars, rest, migrateVars
  <2>7. source' = source
    BY <1>3 DEF OpenPrivate, rest
  <2> QED
    BY <1>0, <2>3, <2>4, <2>5, <2>6, <2>7, TypeMove DEF Values
<1>4. ASSUME NEW p \in Procs, WritePrivate(p), UNCHANGED <<migrateVars, source>> PROVE TypeInv'
  <2>1. proc[p] \in ProcRecord /\ Task(proc[p])
    BY <1>0
  <2>3. \E x \in ProcRecord : Task(x) /\ Moves(p, x)
    <3>2. Moves(p, NoProc)
      BY <1>4, KeysAssumption DEF WritePrivate, Moves, Step, Return, Done, At, Lost
    <3> QED
      BY <3>2, NoTask
  <2>4. KeysType'
    BY <1>0, <1>4, Kept, <2>1, KeyWritten
       DEF Values, WritePrivate, keyRest, fileVars, rest, migrateVars, KeyFiles, At, Task
  <2>5. Counts'
    BY <1>0, <1>4, Kept DEF Values, WritePrivate, keyRest, fileVars, rest, migrateVars
  <2>6. FilesType'
    BY <1>0, <1>4, Kept DEF Values, WritePrivate, keyRest, fileVars, rest, migrateVars
  <2>7. source' = source
    BY <1>4 DEF WritePrivate, rest
  <2> QED
    BY <1>0, <2>3, <2>4, <2>5, <2>6, <2>7, TypeMove DEF Values
<1>5. ASSUME NEW p \in Procs, WriteTrusted(p), UNCHANGED <<migrateVars, source>> PROVE TypeInv'
  <2>1. proc[p] \in ProcRecord /\ Task(proc[p])
    BY <1>0
  <2>3. \E x \in ProcRecord : Task(x) /\ Moves(p, x)
    <3>2. Moves(p, NoProc)
      BY <1>5, KeysAssumption DEF WriteTrusted, Moves, Step, Return, Done, At, Lost
    <3> QED
      BY <3>2, NoTask
  <2>4. KeysType'
    BY <1>0, <1>5, Kept, <2>1, KeyWritten
       DEF Values, WriteTrusted, keyRest, fileVars, rest, migrateVars, KeyFiles, At, Task
  <2>5. Counts'
    BY <1>0, <1>5, Kept, <2>1
       DEF Values, WriteTrusted, keyRest, fileVars, rest, migrateVars, Counts, At, Task
  <2>6. FilesType'
    BY <1>0, <1>5, Kept DEF Values, WriteTrusted, keyRest, fileVars, rest, migrateVars
  <2>7. source' = source
    BY <1>5 DEF WriteTrusted, rest
  <2> QED
    BY <1>0, <2>3, <2>4, <2>5, <2>6, <2>7, TypeMove DEF Values
<1>6. ASSUME NEW p \in Procs, SignId(p), UNCHANGED <<migrateVars, source>> PROVE TypeInv'
  <2>1. proc[p] \in ProcRecord /\ Task(proc[p])
    BY <1>0
  <2>2. keyFile["identity"] \in {NoFile, Torn} \cup KeyPairs
    BY <1>0, <2>1, <1>6 DEF SignId, ProcRecord, Task, At, Values, KeysType
  <2>3. \E x \in ProcRecord : Task(x) /\ Moves(p, x)
    <3>1. CASE keyFile["identity"] = NoFile
      <4> DEFINE x == [proc[p] EXCEPT !.step = "block"]
      <4>1. x \in ProcRecord
        BY <2>1, <2>2 DEF ProcRecord, Ops, StepNames
      <4>2. Task(x)
        BY <2>1, <1>6, <2>2, <3>1 DEF SignId, ProcRecord, OpSteps, Task, At
      <4>3. Moves(p, x)
        BY <1>6, <2>2, <3>1, KeysAssumption DEF SignId, Moves, Step, Return, Done, At, Lost
      <4> QED
        BY <4>1, <4>2, <4>3
    <3>2. CASE keyFile["identity"] = Torn
      <4>2. Moves(p, NoProc)
        BY <1>6, <2>2, <3>2, KeysAssumption DEF SignId, Moves, Step, Return, Done, At, Lost
      <4> QED
        BY <4>2, NoTask
    <3>3. CASE keyFile["identity"] \in KeyPairs
      <4> DEFINE x == [proc[p] EXCEPT !.step = "sign", !.key = keyFile["identity"]]
      <4>1. x \in ProcRecord
        BY <2>1, <2>2, <3>3 DEF ProcRecord, Ops, StepNames
      <4>2. Task(x)
        BY <2>1, <1>6, <2>2, <3>3 DEF SignId, ProcRecord, OpSteps, Task, At
      <4>3. Moves(p, x)
        BY <1>6, <2>2, <3>3, KeysAssumption DEF SignId, Moves, Step, Return, Done, At, Lost
      <4> QED
        BY <4>1, <4>2, <4>3
    <3> QED
      BY <3>1, <3>2, <3>3, <2>2, <1>6 DEF SignId, At, Lost
  <2>4. KeysType'
    BY <1>0, <1>6, Kept DEF Values, SignId, keyRest, fileVars, rest, migrateVars
  <2>5. Counts'
    BY <1>0, <1>6, Kept DEF Values, SignId, keyRest, fileVars, rest, migrateVars
  <2>6. FilesType'
    BY <1>0, <1>6, Kept DEF Values, SignId, keyRest, fileVars, rest, migrateVars
  <2>7. source' = source
    BY <1>6 DEF SignId, rest
  <2> QED
    BY <1>0, <2>3, <2>4, <2>5, <2>6, <2>7, TypeMove DEF Values
<1>7. ASSUME NEW p \in Procs, Sign(p), UNCHANGED <<migrateVars, source>> PROVE TypeInv'
  <2>1. proc[p] \in ProcRecord /\ Task(proc[p])
    BY <1>0
  <2>2. keyFile["private"] \in {NoFile, Torn} \cup KeyPairs /\ proc[p].key \in KeyPairs
    BY <1>0, <2>1, <1>7 DEF Sign, ProcRecord, Task, At, Values, KeysType
  <2>3. \E x \in ProcRecord : Task(x) /\ Moves(p, x)
    <3>1. CASE keyFile["private"] = NoFile
      <4> DEFINE x == [proc[p] EXCEPT !.step = "block"]
      <4>1. x \in ProcRecord
        BY <2>1, <2>2 DEF ProcRecord, Ops, StepNames
      <4>2. Task(x)
        BY <2>1, <1>7, <2>2, <3>1 DEF Sign, ProcRecord, OpSteps, Task, At
      <4>3. Moves(p, x)
        BY <1>7, <2>2, <3>1, KeysAssumption DEF Sign, Moves, Step, Return, Done, At, Lost
      <4> QED
        BY <4>1, <4>2, <4>3
    <3>2. CASE keyFile["private"] = Torn
      <4>2. Moves(p, NoProc)
        BY <1>7, <2>2, <3>2, KeysAssumption DEF Sign, Moves, Step, Return, Done, At, Lost
      <4> QED
        BY <4>2, NoTask
    <3>3. CASE keyFile["private"] \in KeyPairs
      <4> DEFINE x == [proc[p] EXCEPT !.step = "block", !.sig = [id |-> proc[p].key, by |-> keyFile["private"]]]
      <4>1. x \in ProcRecord
        BY <2>1, <2>2, <3>3 DEF ProcRecord, Ops, StepNames, Sig
      <4>2. Task(x)
        BY <2>1, <1>7, <2>2, <3>3 DEF Sign, ProcRecord, OpSteps, Task, At
      <4>3. Moves(p, x)
        BY <1>7, <2>2, <3>3, KeysAssumption DEF Sign, Moves, Step, Return, Done, At, Lost
      <4> QED
        BY <4>1, <4>2, <4>3
    <3> QED
      BY <3>1, <3>2, <3>3, <2>2, <1>7 DEF Sign, At, Lost
  <2>4. KeysType'
    BY <1>0, <1>7, Kept DEF Values, Sign, keyRest, fileVars, rest, migrateVars
  <2>5. Counts'
    BY <1>0, <1>7, Kept DEF Values, Sign, keyRest, fileVars, rest, migrateVars
  <2>6. FilesType'
    BY <1>0, <1>7, Kept DEF Values, Sign, keyRest, fileVars, rest, migrateVars
  <2>7. source' = source
    BY <1>7 DEF Sign, rest
  <2> QED
    BY <1>0, <2>3, <2>4, <2>5, <2>6, <2>7, TypeMove DEF Values
<1>8. ASSUME NEW p \in Procs, LookupOwn(p), UNCHANGED <<migrateVars, source>> PROVE TypeInv'
  <2>1. proc[p] \in ProcRecord /\ Task(proc[p])
    BY <1>0
  <2>2. proc[p].sig.id \in KeyPairs
    BY <1>0, <2>1, <1>8 DEF LookupOwn, ProcRecord, Task, At, Sig
  <2>3. \E x \in ProcRecord : Task(x) /\ Moves(p, x)
    <3>1. CASE keyFile["identity"] = Torn
      <4>2. Moves(p, NoProc)
        BY <1>8, <2>2, <3>1, KeysAssumption DEF LookupOwn, Moves, Step, Return, Done, At, Lost
      <4> QED
        BY <4>2, NoTask
    <3>2. CASE keyFile["identity"] = proc[p].sig.id
      <4> DEFINE x == [proc[p] EXCEPT !.step = "public"]
      <4>1. x \in ProcRecord
        BY <2>1, <2>2 DEF ProcRecord, Ops, StepNames
      <4>2. Task(x)
        BY <2>1, <1>8, <2>2, <3>2 DEF LookupOwn, ProcRecord, OpSteps, Task, At
      <4>3. Moves(p, x)
        BY <1>8, <2>2, <3>2, KeysAssumption DEF LookupOwn, Moves, Step, Return, Done, At, Lost
      <4> QED
        BY <4>1, <4>2, <4>3
    <3>3. CASE keyFile["identity"] \notin {Torn, proc[p].sig.id}
      <4> DEFINE x == [proc[p] EXCEPT !.step = "trusted"]
      <4>1. x \in ProcRecord
        BY <2>1, <2>2 DEF ProcRecord, Ops, StepNames
      <4>2. Task(x)
        BY <2>1, <1>8, <2>2, <3>3 DEF LookupOwn, ProcRecord, OpSteps, Task, At
      <4>3. Moves(p, x)
        BY <1>8, <2>2, <3>3, KeysAssumption DEF LookupOwn, Moves, Step, Return, Done, At, Lost
      <4> QED
        BY <4>1, <4>2, <4>3
    <3> QED
      BY <3>1, <3>2, <3>3, <2>2, <1>8 DEF LookupOwn, At, Lost
  <2>4. KeysType'
    BY <1>0, <1>8, Kept DEF Values, LookupOwn, keyRest, fileVars, rest, migrateVars
  <2>5. Counts'
    BY <1>0, <1>8, Kept DEF Values, LookupOwn, keyRest, fileVars, rest, migrateVars
  <2>6. FilesType'
    BY <1>0, <1>8, Kept DEF Values, LookupOwn, keyRest, fileVars, rest, migrateVars
  <2>7. source' = source
    BY <1>8 DEF LookupOwn, rest
  <2> QED
    BY <1>0, <2>3, <2>4, <2>5, <2>6, <2>7, TypeMove DEF Values
<1>9. ASSUME NEW p \in Procs, LookupPublic(p), UNCHANGED <<migrateVars, source>> PROVE TypeInv'
  <2>1. proc[p] \in ProcRecord /\ Task(proc[p])
    BY <1>0
  <2>2. Tail(proc[p].todo) \in Seq(Work) /\ Tail(proc[p].todo) \in Seq(Entry)
    BY <1>0, <2>1, <1>9 DEF LookupPublic, ProcRecord, Task, At
  <2>3. \E x \in ProcRecord : Task(x) /\ Moves(p, x)
    <3>1. CASE keyFile["identity"] = Torn
      <4>2. Moves(p, NoProc)
        BY <1>9, <2>2, <3>1, KeysAssumption DEF LookupPublic, Moves, Step, Return, Done, At, Lost
      <4> QED
        BY <4>2, NoTask
    <3>2. CASE keyFile["identity"] = NoFile
      <4> DEFINE x == [proc[p] EXCEPT !.step = "trusted"]
      <4>1. x \in ProcRecord
        BY <2>1, <2>2 DEF ProcRecord, Ops, StepNames
      <4>2. Task(x)
        BY <2>1, <1>9, <2>2, <3>2 DEF LookupPublic, ProcRecord, OpSteps, Task, At
      <4>3. Moves(p, x)
        BY <1>9, <2>2, <3>2, KeysAssumption DEF LookupPublic, Moves, Step, Return, Done, At, Lost
      <4> QED
        BY <4>1, <4>2, <4>3
    <3>3. CASE keyFile["identity"] \notin Lost
      <4> DEFINE x == [proc[p] EXCEPT !.step = "block", !.sig = None, !.todo = Tail(@),
                                      !.bad = IF keyFile["identity"] = proc[p].sig.by THEN @ ELSE @ \cup {"signature"}]
      <4>1. x \in ProcRecord
        BY <2>1, <2>2 DEF ProcRecord, Ops, StepNames, Faults
      <4>2. Task(x)
        BY <2>1, <1>9, <2>2, <3>3 DEF LookupPublic, ProcRecord, OpSteps, Task, At
      <4>3. Moves(p, x)
        BY <1>9, <2>2, <3>3 DEF LookupPublic, Moves, Step, Return, Done, At, Lost, Judged
      <4> QED
        BY <4>1, <4>2, <4>3
    <3> QED
      BY <3>1, <3>2, <3>3, <2>2, <1>9 DEF LookupPublic, At, Lost
  <2>4. KeysType'
    BY <1>0, <1>9, Kept DEF Values, LookupPublic, keyRest, fileVars, rest, migrateVars
  <2>5. Counts'
    BY <1>0, <1>9, Kept DEF Values, LookupPublic, keyRest, fileVars, rest, migrateVars
  <2>6. FilesType'
    BY <1>0, <1>9, Kept DEF Values, LookupPublic, keyRest, fileVars, rest, migrateVars
  <2>7. source' = source
    BY <1>9 DEF LookupPublic, rest
  <2> QED
    BY <1>0, <2>3, <2>4, <2>5, <2>6, <2>7, TypeMove DEF Values
<1>10. ASSUME NEW p \in Procs, LookupTrusted(p), UNCHANGED <<migrateVars, source>> PROVE TypeInv'
  <2>1. proc[p] \in ProcRecord /\ Task(proc[p])
    BY <1>0
  <2>2. Tail(proc[p].todo) \in Seq(Work) /\ Tail(proc[p].todo) \in Seq(Entry)
    BY <1>0, <2>1, <1>10 DEF LookupTrusted, ProcRecord, Task, At
  <2>3. \E x \in ProcRecord : Task(x) /\ Moves(p, x)
    <3>1. CASE keyFile["trusted"] = Torn
      <4>2. Moves(p, NoProc)
        BY <1>10, <2>2, <3>1, KeysAssumption DEF LookupTrusted, Moves, Step, Return, Done, At, Lost
      <4> QED
        BY <4>2, NoTask
    <3>2. CASE keyFile["trusted"] = NoFile
      <4> DEFINE x == [proc[p] EXCEPT !.step = "block", !.sig = None, !.todo = Tail(@),
                                      !.bad = IF FALSE THEN @ ELSE @ \cup {"signature"}]
      <4>1. x \in ProcRecord
        BY <2>1, <2>2 DEF ProcRecord, Ops, StepNames, Faults
      <4>2. Task(x)
        BY <2>1, <1>10, <2>2, <3>2 DEF LookupTrusted, ProcRecord, OpSteps, Task, At
      <4>3. Moves(p, x)
        BY <1>10, <2>2, <3>2, KeysAssumption
           DEF LookupTrusted, Moves, Step, Return, Done, At, Lost, Judged
      <4> QED
        BY <4>1, <4>2, <4>3
    <3>3. CASE keyFile["trusted"] \notin Lost
      <4> DEFINE x == [proc[p] EXCEPT !.step = "block", !.sig = None, !.todo = Tail(@),
                                      !.bad = IF proc[p].sig.id \in keyFile["trusted"] /\ proc[p].sig.id = proc[p].sig.by THEN @ ELSE @ \cup {"signature"}]
      <4>1. x \in ProcRecord
        BY <2>1, <2>2 DEF ProcRecord, Ops, StepNames, Faults
      <4>2. Task(x)
        BY <2>1, <1>10, <2>2, <3>3 DEF LookupTrusted, ProcRecord, OpSteps, Task, At
      <4>3. Moves(p, x)
        BY <1>10, <2>2, <3>3 DEF LookupTrusted, Moves, Step, Return, Done, At, Lost, Judged
      <4> QED
        BY <4>1, <4>2, <4>3
    <3> QED
      BY <3>1, <3>2, <3>3, <2>2, <1>10 DEF LookupTrusted, At, Lost
  <2>4. KeysType'
    BY <1>0, <1>10, Kept DEF Values, LookupTrusted, keyRest, fileVars, rest, migrateVars
  <2>5. Counts'
    BY <1>0, <1>10, Kept DEF Values, LookupTrusted, keyRest, fileVars, rest, migrateVars
  <2>6. FilesType'
    BY <1>0, <1>10, Kept DEF Values, LookupTrusted, keyRest, fileVars, rest, migrateVars
  <2>7. source' = source
    BY <1>10 DEF LookupTrusted, rest
  <2> QED
    BY <1>0, <2>3, <2>4, <2>5, <2>6, <2>7, TypeMove DEF Values
<1>11. ASSUME NEW p \in Procs, NEW k \in NewKeys, BeginGenerate(p, k), UNCHANGED <<migrateVars, source>>
       PROVE  TypeInv'
  <2>1. proc[p] \in ProcRecord /\ Task(proc[p])
    BY <1>0
  <2>2. k \in KeyPairs
    BY <1>0, <2>1, <1>11, KeysAssumption DEF BeginGenerate, ProcRecord, Task, At
  <2>3. \E x \in ProcRecord : Task(x) /\ Moves(p, x)
    <3> DEFINE x == Generating(p, k)
    <3>1. x \in ProcRecord
      BY <2>1, <2>2, NoTask DEF ProcRecord, Ops, StepNames, Generating
    <3>2. Task(x)
      BY <2>1, <1>11, <2>2 DEF BeginGenerate, ProcRecord, OpSteps, Task, At, Generating, NoProc
    <3>3. Moves(p, x)
      BY <1>11, <2>2 DEF BeginGenerate, Moves, Step, Return, Done, At, Lost
    <3> QED
      BY <3>1, <3>2, <3>3
  <2>4. KeysType'
    BY <1>0, <1>11, Kept DEF Values, BeginGenerate, keyRest, fileVars, rest, migrateVars
  <2>5. Counts'
    BY <1>0, <1>11, Kept, <2>1, <2>2, KeysAssumption
       DEF Values, BeginGenerate, keyRest, fileVars, rest, migrateVars, Counts
  <2>6. FilesType'
    BY <1>0, <1>11, Kept DEF Values, BeginGenerate, keyRest, fileVars, rest, migrateVars
  <2>7. source' = source
    BY <1>11 DEF BeginGenerate, rest
  <2> QED
    BY <1>0, <2>3, <2>4, <2>5, <2>6, <2>7, TypeMove DEF Values
<1>12. ASSUME NEW p \in Procs, NEW k \in NewKeys, BeginTrust(p, k), UNCHANGED <<migrateVars, source>>
       PROVE  TypeInv'
  <2>1. proc[p] \in ProcRecord /\ Task(proc[p])
    BY <1>0
  <2>2. /\ k \in KeyPairs /\ k \in {None} \cup KeyPairs \cup KeyFiles \cup Objects /\ "trust" \in Ops /\ "write" \in StepNames
        /\ (IF keyFile["trusted"] = NoFile THEN {} ELSE keyFile["trusted"]) \in SUBSET KeyPairs
    BY <1>0, <2>1, <1>12, KeysAssumption
       DEF BeginTrust, ProcRecord, Task, At, Values, KeysType, Ops, StepNames
  <2>3. \E x \in ProcRecord : Task(x) /\ Moves(p, x)
    <3>0. PICK t \in SUBSET (KeyPairs \cup Blocks) : t \subseteq KeyPairs /\ t = IF keyFile["trusted"] = NoFile THEN {} ELSE keyFile["trusted"]
      BY <2>2
    <3> DEFINE x == Trusting(k, t)
    <3>1. x \in ProcRecord
      BY <2>1, <2>2, <3>0, NoTask DEF ProcRecord, Trusting
    <3>2. Task(x)
      BY <2>1, <1>12, <2>2, <3>0 DEF BeginTrust, ProcRecord, OpSteps, Task, At, Trusting, NoProc
    <3>3. Moves(p, x)
      BY <1>12, <2>2, <3>0 DEF BeginTrust, Moves, Step, Return, Done, At, Lost
    <3> QED
      BY <3>1, <3>2, <3>3
  <2>4. KeysType'
    BY <1>0, <1>12, Kept DEF Values, BeginTrust, keyRest, fileVars, rest, migrateVars
  <2>5. Counts'
    BY <1>0, <1>12, Kept, <2>1, <2>2
       DEF Values, BeginTrust, keyRest, fileVars, rest, migrateVars, Counts
  <2>6. FilesType'
    BY <1>0, <1>12, Kept DEF Values, BeginTrust, keyRest, fileVars, rest, migrateVars
  <2>7. source' = source
    BY <1>12 DEF BeginTrust, rest
  <2> QED
    BY <1>0, <2>3, <2>4, <2>5, <2>6, <2>7, TypeMove DEF Values
<1>13. ASSUME NEW p \in Procs, NEW force \in BOOLEAN, BeginMigrate(p, force) PROVE TypeInv'
  <2>1. proc[p] \in ProcRecord /\ Task(proc[p])
    BY <1>0
  <2>2. /\ Copied \in KeyTodos /\ Copied \in Seq(Work) /\ runs + 1 \in 0 .. MaxRuns
        /\ \A f \in KeyFiles : Has(Copied, f) <=> source.keys[f] # NoFile
    BY <1>0, <2>1, <1>13, CopiedList, KeyTodo, WorkSeqs, MigrateAssumption
       DEF BeginMigrate, ProcRecord, Task, At, Values, Counts
  <2>3. \E x \in ProcRecord : Task(x) /\ Moves(p, x)
    <3> DEFINE x == [NoProc EXCEPT !.op = "migrate", !.step = "keys", !.todo = Copied, !.run = runs + 1]
    <3>1. x \in ProcRecord
      BY <2>1, <2>2, NoTask DEF ProcRecord, Ops, StepNames
    <3>2. Task(x)
      BY <2>1, <1>13, <2>2 DEF BeginMigrate, ProcRecord, OpSteps, Task, At, NoProc
    <3>3. Moves(p, x)
      BY <1>13, <2>2 DEF BeginMigrate, Moves, Step, Return, Done, At, Lost
    <3> QED
      BY <3>1, <3>2, <3>3
  <2>4. KeysType'
    BY <1>0, <1>13, Kept DEF Values, BeginMigrate, keyRest, fileVars, rest, migrateVars
  <2>5. Counts'
    BY <1>0, <1>13, Kept, <2>1, <2>2
       DEF Values, BeginMigrate, keyRest, fileVars, rest, migrateVars, Counts
  <2>6. FilesType'
    BY <1>0, <1>13, Kept, <2>1, <2>2
       DEF Values, BeginMigrate, keyRest, fileVars, rest, migrateVars
  <2>7. source' = source
    BY <1>13 DEF BeginMigrate, rest
  <2> QED
    BY <1>0, <2>3, <2>4, <2>5, <2>6, <2>7, TypeMove DEF Values
<1>14. ASSUME NEW p \in Procs, Proceed(p) PROVE TypeInv'
  <2>1. proc[p] \in ProcRecord /\ Task(proc[p])
    BY <1>0
  <2>2. /\ AfterStep(proc[p].step) \in {"blocks", "index", "registered", "objects", "audit"} /\ proc[p].key = None
        /\ AfterStep(proc[p].step) \in StepNames /\ WorkOf(AfterStep(proc[p].step)) \in Seq(Work) /\ source.objects \subseteq Objects
        /\ AfterStep(proc[p].step) = "blocks" => WorkOf(AfterStep(proc[p].step)) \in Seq(V2Blocks)
        /\ AfterStep(proc[p].step) = "registered" /\ WorkOf(AfterStep(proc[p].step)) # <<>> => source.registered # NoFile
        /\ (IF AfterStep(proc[p].step) = "objects" THEN source.objects ELSE {}) \in SUBSET Objects
    BY <1>0, <2>1, <1>14, NextStep, SourceType
       DEF Proceed, ProcRecord, Task, At, Values, OpSteps, StepNames
  <2>3. \E x \in ProcRecord : Task(x) /\ Moves(p, x)
    <3>0. PICK l \in SUBSET Objects : l = IF AfterStep(proc[p].step) = "objects" THEN source.objects ELSE {}
      BY <2>2
    <3> DEFINE x == [proc[p] EXCEPT !.step = AfterStep(proc[p].step), !.todo = WorkOf(AfterStep(proc[p].step)),
                                      !.left = l]
    <3>1. x \in ProcRecord
      BY <2>1, <2>2, <3>0 DEF ProcRecord, Ops, StepNames, OpSteps
    <3>2. Task(x)
      BY <2>1, <1>14, <2>2, <3>0 DEF Proceed, ProcRecord, OpSteps, Task, At
    <3>3. Moves(p, x)
      BY <1>14, <2>2, <3>0 DEF Proceed, Moves, Step, Return, Done, At, Lost
    <3> QED
      BY <3>1, <3>2, <3>3
  <2>4. KeysType'
    BY <1>0, <1>14, Kept DEF Values, Proceed, keyRest, fileVars, rest, migrateVars
  <2>5. Counts'
    BY <1>0, <1>14, Kept DEF Values, Proceed, keyRest, fileVars, rest, migrateVars
  <2>6. FilesType'
    BY <1>0, <1>14, Kept DEF Values, Proceed, keyRest, fileVars, rest, migrateVars
  <2>7. source' = source
    BY <1>14 DEF Proceed, rest
  <2> QED
    BY <1>0, <2>3, <2>4, <2>5, <2>6, <2>7, TypeMove DEF Values
<1>15. ASSUME NEW p \in Procs, CopyKey(p) PROVE TypeInv'
  <2>1. proc[p] \in ProcRecord /\ Task(proc[p])
    BY <1>0
  <2>2. /\ Head(proc[p].todo) \in KeyFiles /\ Head(proc[p].todo) # None /\ Has(proc[p].todo, Head(proc[p].todo))
        /\ Tail(proc[p].todo) \in Seq(Work) /\ Tail(proc[p].todo) \in KeyTodos
        /\ \A f \in KeyFiles : Has(Tail(proc[p].todo), f) => source.keys[f] # NoFile
        /\ source.keys[Head(proc[p].todo)] # NoFile
        /\ Head(proc[p].todo) = "trusted" => source.keys["trusted"] \subseteq KeyPairs
        /\ proc[p].todo # <<>> /\ proc[p].key # None => proc[p].key = Head(proc[p].todo)
    BY <1>0, <2>1, <1>15, KeyTodo, WorkSeqs, MigrateAssumption, SourceType
       DEF CopyKey, ProcRecord, Task, At, Values
  <2>3. \E x \in ProcRecord : Task(x) /\ Moves(p, x)
    <3>1. CASE proc[p].key = None
      <4> DEFINE x == [proc[p] EXCEPT !.key = Head(proc[p].todo)]
      <4>1. x \in ProcRecord
        BY <2>1, <2>2 DEF ProcRecord, Ops, StepNames
      <4>2. Task(x)
        BY <2>1, <1>15, <2>2, <3>1 DEF CopyKey, ProcRecord, OpSteps, Task, At
      <4>3. Moves(p, x)
        BY <1>15, <2>2, <3>1 DEF CopyKey, Moves, Step, Return, Done, At, Lost
      <4> QED
        BY <4>1, <4>2, <4>3
    <3>2. CASE proc[p].key # None
      <4> DEFINE x == [proc[p] EXCEPT !.key = None, !.todo = Tail(@)]
      <4>1. x \in ProcRecord
        BY <2>1, <2>2 DEF ProcRecord, Ops, StepNames
      <4>2. Task(x)
        BY <2>1, <1>15, <2>2, <3>2 DEF CopyKey, ProcRecord, OpSteps, Task, At
      <4>3. Moves(p, x)
        BY <1>15, <2>2, <3>2 DEF CopyKey, Moves, Step, Return, Done, At, Lost
      <4> QED
        BY <4>1, <4>2, <4>3
    <3> QED
      BY <3>1, <3>2, <2>2, <1>15 DEF CopyKey, At, Lost
  <2>4. KeysType'
    BY <1>0, <1>15, Kept, <2>1, <2>2, KeyWritten, SourceType
       DEF Values, CopyKey, keyRest, fileVars, rest, migrateVars, KeyFiles, At, Task
  <2>5. Counts'
    BY <1>0, <1>15, Kept, <2>1, <2>2 DEF Values, CopyKey, keyRest, fileVars, rest, migrateVars, Counts
  <2>6. FilesType'
    BY <1>0, <1>15, Kept DEF Values, CopyKey, keyRest, fileVars, rest, migrateVars
  <2>7. source' = source
    BY <1>15 DEF CopyKey, rest
  <2> QED
    BY <1>0, <2>3, <2>4, <2>5, <2>6, <2>7, TypeMove DEF Values
<1>16. ASSUME NEW p \in Procs, TranscribeBlock(p) PROVE TypeInv'
  <2>1. proc[p] \in ProcRecord /\ Task(proc[p])
    BY <1>0
  <2>2. /\ Tail(proc[p].todo) \in Seq(Work) /\ Tail(proc[p].todo) \in Seq(V2Blocks) /\ Head(proc[p].todo) \in Blocks
        /\ HashOf(Head(proc[p].todo), proc[p].run) \in Blocks \X (0 .. MaxRuns)
    BY <1>0, <2>1, <1>16, MigrateAssumption DEF TranscribeBlock, ProcRecord, Task, At, V2Blocks, HashOf
  <2>3. \E x \in ProcRecord : Task(x) /\ Moves(p, x)
    <3> DEFINE x == [proc[p] EXCEPT !.todo = Tail(@)]
    <3>1. x \in ProcRecord
      BY <2>1, <2>2 DEF ProcRecord, Ops, StepNames
    <3>2. Task(x)
      BY <2>1, <1>16, <2>2 DEF TranscribeBlock, ProcRecord, OpSteps, Task, At
    <3>3. Moves(p, x)
      BY <1>16, <2>2 DEF TranscribeBlock, Moves, Step, Return, Done, At, Lost
    <3> QED
      BY <3>1, <3>2, <3>3
  <2>4. KeysType'
    BY <1>0, <1>16, Kept DEF Values, TranscribeBlock, keyRest, fileVars, rest, migrateVars
  <2>5. Counts'
    BY <1>0, <1>16, Kept DEF Values, TranscribeBlock, keyRest, fileVars, rest, migrateVars
  <2>6. FilesType'
    BY <1>0, <1>16, Kept, <2>1, <2>2, BlockWritten
       DEF Values, TranscribeBlock, keyRest, fileVars, rest, migrateVars, FilesType, BlockType
  <2>7. source' = source
    BY <1>16 DEF TranscribeBlock, rest
  <2> QED
    BY <1>0, <2>3, <2>4, <2>5, <2>6, <2>7, TypeMove DEF Values
<1>17. ASSUME NEW p \in Procs, WriteIndex(p) PROVE TypeInv'
  <2>1. proc[p] \in ProcRecord /\ Task(proc[p])
    BY <1>0
  <2>2. Tail(proc[p].todo) \in Seq(Work)
    BY <1>0, <2>1, <1>17 DEF WriteIndex, ProcRecord, Task, At
  <2>3. \E x \in ProcRecord : Task(x) /\ Moves(p, x)
    <3> DEFINE x == [proc[p] EXCEPT !.todo = Tail(@)]
    <3>1. x \in ProcRecord
      BY <2>1, <2>2 DEF ProcRecord, Ops, StepNames
    <3>2. Task(x)
      BY <2>1, <1>17, <2>2 DEF WriteIndex, ProcRecord, OpSteps, Task, At
    <3>3. Moves(p, x)
      BY <1>17, <2>2 DEF WriteIndex, Moves, Step, Return, Done, At, Lost
    <3> QED
      BY <3>1, <3>2, <3>3
  <2>4. KeysType'
    BY <1>0, <1>17, Kept DEF Values, WriteIndex, keyRest, fileVars, rest, migrateVars
  <2>5. Counts'
    BY <1>0, <1>17, Kept DEF Values, WriteIndex, keyRest, fileVars, rest, migrateVars
  <2>6. FilesType'
    BY <1>0, <1>17, Kept, <2>1, <2>2, IndexWritten
       DEF Values, WriteIndex, keyRest, fileVars, rest, migrateVars, FilesType, ProcRecord
  <2>7. source' = source
    BY <1>17 DEF WriteIndex, rest
  <2> QED
    BY <1>0, <2>3, <2>4, <2>5, <2>6, <2>7, TypeMove DEF Values
<1>18. ASSUME NEW p \in Procs, TranscribeReinforcements(p) PROVE TypeInv'
  <2>1. proc[p] \in ProcRecord /\ Task(proc[p])
    BY <1>0
  <2>2. Tail(proc[p].todo) \in Seq(Work)
    BY <1>0, <2>1, <1>18 DEF TranscribeReinforcements, ProcRecord, Task, At
  <2>3. \E x \in ProcRecord : Task(x) /\ Moves(p, x)
    <3> DEFINE x == [proc[p] EXCEPT !.todo = Tail(@)]
    <3>1. x \in ProcRecord
      BY <2>1, <2>2 DEF ProcRecord, Ops, StepNames
    <3>2. Task(x)
      BY <2>1, <1>18, <2>2 DEF TranscribeReinforcements, ProcRecord, OpSteps, Task, At
    <3>3. Moves(p, x)
      BY <1>18, <2>2 DEF TranscribeReinforcements, Moves, Step, Return, Done, At, Lost
    <3> QED
      BY <3>1, <3>2, <3>3
  <2>4. KeysType'
    BY <1>0, <1>18, Kept DEF Values, TranscribeReinforcements, keyRest, fileVars, rest, migrateVars
  <2>5. Counts'
    BY <1>0, <1>18, Kept DEF Values, TranscribeReinforcements, keyRest, fileVars, rest, migrateVars
  <2>6. FilesType'
    BY <1>0, <1>18, Kept, <2>1, <2>2, SourceType
       DEF Values, TranscribeReinforcements, keyRest, fileVars, rest, migrateVars, FilesType
  <2>7. source' = source
    BY <1>18 DEF TranscribeReinforcements, rest
  <2> QED
    BY <1>0, <2>3, <2>4, <2>5, <2>6, <2>7, TypeMove DEF Values
<1>19. ASSUME NEW p \in Procs, TranscribeObject(p) PROVE TypeInv'
  <2>1. proc[p] \in ProcRecord /\ Task(proc[p])
    BY <1>0
  <2>2. NoFile # Torn /\ proc[p].left \subseteq Objects
    BY <1>0, <2>1, <1>19, KeysAssumption DEF TranscribeObject, ProcRecord, Task, At
  <2>3. \E x \in ProcRecord : Task(x) /\ Moves(p, x)
    <3>1. ASSUME proc[p].key = None, NEW o \in proc[p].left, proc' = [proc EXCEPT ![p].key = o]
          PROVE  \E x \in ProcRecord : Task(x) /\ Moves(p, x)
      <4> DEFINE x == [proc[p] EXCEPT !.key = o]
      <4>1. x \in ProcRecord
        BY <2>1, <2>2, <3>1 DEF ProcRecord, Ops, StepNames
      <4>2. Task(x)
        BY <2>1, <1>19, <2>2, <3>1 DEF TranscribeObject, ProcRecord, OpSteps, Task, At
      <4>3. Moves(p, x)
        BY <1>19, <2>2, <3>1 DEF TranscribeObject, Moves, Step, Return, Done, At, Lost
      <4> QED
        BY <4>1, <4>2, <4>3
    <3>2. CASE proc[p].key # None /\ proc' = [proc EXCEPT ![p].key = None, ![p].left = @ \ {proc[p].key}]
      <4> DEFINE x == [proc[p] EXCEPT !.key = None, !.left = @ \ {proc[p].key}]
      <4>1. x \in ProcRecord
        BY <2>1, <2>2 DEF ProcRecord, Ops, StepNames
      <4>2. Task(x)
        BY <2>1, <1>19, <2>2, <3>2 DEF TranscribeObject, ProcRecord, OpSteps, Task, At
      <4>3. Moves(p, x)
        BY <1>19, <2>2, <3>2 DEF TranscribeObject, Moves, Step, Return, Done, At, Lost
      <4> QED
        BY <4>1, <4>2, <4>3
    <3> QED
      BY <3>1, <3>2, <2>2, <1>19 DEF TranscribeObject, At, Lost
  <2>4. KeysType'
    BY <1>0, <1>19, Kept DEF Values, TranscribeObject, keyRest, fileVars, rest, migrateVars
  <2>5. Counts'
    BY <1>0, <1>19, Kept DEF Values, TranscribeObject, keyRest, fileVars, rest, migrateVars
  <2>6. FilesType'
    BY <1>0, <1>19, Kept, <2>1, <2>2
       DEF Values, TranscribeObject, keyRest, fileVars, rest, migrateVars, FilesType, At, Task
  <2>7. source' = source
    BY <1>19 DEF TranscribeObject, rest
  <2> QED
    BY <1>0, <2>3, <2>4, <2>5, <2>6, <2>7, TypeMove DEF Values
<1>20. ASSUME NEW p \in Procs, WriteAudit(p) PROVE TypeInv'
  <2>1. proc[p] \in ProcRecord /\ Task(proc[p])
    BY <1>0
  <2>3. \E x \in ProcRecord : Task(x) /\ Moves(p, x)
    <3>2. Moves(p, NoProc)
      BY <1>20, KeysAssumption DEF WriteAudit, Moves, Step, Return, Done, At, Lost
    <3> QED
      BY <3>2, NoTask
  <2>4. KeysType'
    BY <1>0, <1>20, Kept DEF Values, WriteAudit, keyRest, fileVars, rest, migrateVars
  <2>5. Counts'
    BY <1>0, <1>20, Kept, <2>1 DEF Values, WriteAudit, keyRest, fileVars, rest, migrateVars, Counts
  <2>6. FilesType'
    BY <1>0, <1>20, Kept DEF Values, WriteAudit, keyRest, fileVars, rest, migrateVars
  <2>7. source' = source
    BY <1>20 DEF WriteAudit, rest
  <2> QED
    BY <1>0, <2>3, <2>4, <2>5, <2>6, <2>7, TypeMove DEF Values
<1>21. ASSUME NEW p \in Procs, NEW b \in NewBlocks, NEW sign \in BOOLEAN, BeginAppend(p, b, sign)
       PROVE  TypeInv'
  <2>1. proc[p] \in ProcRecord /\ Task(proc[p])
    BY <1>0
  <2>2. /\ b \in NewBlocks /\ b \in {None} \cup NewBlocks /\ "append" \in Ops /\ index \in Seq(Entry)
        /\ (IF sign THEN "keyId" ELSE "block") \in StepNames \cap {"keyId", "block"}
    BY <1>0, <2>1, <1>21
       DEF BeginAppend, ProcRecord, Task, At, Ops, StepNames, HasLayout, Values, FilesType
  <2>3. \E x \in ProcRecord : Task(x) /\ Moves(p, x)
    <3>0. PICK s \in StepNames : s \in {"keyId", "block"} /\ s = IF sign THEN "keyId" ELSE "block"
      BY <2>2
    <3> DEFINE x == [NoProc EXCEPT !.op = "append", !.block = b, !.held = index,
                                    !.step = s]
    <3>1. x \in ProcRecord
      BY <2>1, <2>2, <3>0, NoTask DEF ProcRecord
    <3>2. Task(x)
      BY <2>1, <1>21, <2>2, <3>0 DEF BeginAppend, ProcRecord, OpSteps, Task, At, NoProc
    <3>3. Moves(p, x)
      BY <1>21, <2>2, <3>0 DEF BeginAppend, Moves, Step, Return, Done, At, Lost
    <3> QED
      BY <3>1, <3>2, <3>3
  <2>4. KeysType'
    BY <1>0, <1>21, Kept DEF Values, BeginAppend, keyRest, fileVars, rest, migrateVars
  <2>5. Counts'
    BY <1>0, <1>21, Kept, <2>1, <2>2
       DEF Values, BeginAppend, keyRest, fileVars, rest, migrateVars, Counts
  <2>6. FilesType'
    BY <1>0, <1>21, Kept, <2>1, <2>2
       DEF Values, BeginAppend, keyRest, fileVars, rest, migrateVars
  <2>7. source' = source
    BY <1>21 DEF BeginAppend, rest
  <2> QED
    BY <1>0, <2>3, <2>4, <2>5, <2>6, <2>7, TypeMove DEF Values
<1>22. ASSUME NEW p \in Procs, AppendBlock(p) PROVE TypeInv'
  <2>1. proc[p] \in ProcRecord /\ Task(proc[p])
    BY <1>0
  <2>2. proc[p].block \in Blocks /\ <<proc[p].block, 0>> \in Blocks \X (0 .. MaxRuns)
    BY <1>0, <2>1, <1>22, MigrateAssumption DEF AppendBlock, ProcRecord, Task, At
  <2>3. \E x \in ProcRecord : Task(x) /\ Moves(p, x)
    <3> DEFINE x == [proc[p] EXCEPT !.step = "index"]
    <3>1. x \in ProcRecord
      BY <2>1, <2>2 DEF ProcRecord, Ops, StepNames
    <3>2. Task(x)
      BY <2>1, <1>22, <2>2 DEF AppendBlock, ProcRecord, OpSteps, Task, At
    <3>3. Moves(p, x)
      BY <1>22, <2>2 DEF AppendBlock, Moves, Step, Return, Done, At, Lost
    <3> QED
      BY <3>1, <3>2, <3>3
  <2>4. KeysType'
    BY <1>0, <1>22, Kept DEF Values, AppendBlock, keyRest, fileVars, rest, migrateVars
  <2>5. Counts'
    BY <1>0, <1>22, Kept DEF Values, AppendBlock, keyRest, fileVars, rest, migrateVars
  <2>6. FilesType'
    BY <1>0, <1>22, Kept, <2>1, <2>2, BlockWritten
       DEF Values, AppendBlock, keyRest, fileVars, rest, migrateVars, FilesType, BlockType, ProcRecord
  <2>7. source' = source
    BY <1>22 DEF AppendBlock, rest
  <2> QED
    BY <1>0, <2>3, <2>4, <2>5, <2>6, <2>7, TypeMove DEF Values
<1>23. ASSUME NEW p \in Procs, AppendIndex(p) PROVE TypeInv'
  <2>1. proc[p] \in ProcRecord /\ Task(proc[p])
    BY <1>0
  <2>2. [id |-> proc[p].block, hash |-> <<proc[p].block, 0>>] \in Entry /\ proc[p].held \in Seq(Entry)
    BY <1>0, <2>1, <1>23, MigrateAssumption DEF AppendIndex, ProcRecord, Task, At, Entry
  <2>3. \E x \in ProcRecord : Task(x) /\ Moves(p, x)
    <3> DEFINE x == [proc[p] EXCEPT !.step = "object"]
    <3>1. x \in ProcRecord
      BY <2>1, <2>2 DEF ProcRecord, Ops, StepNames
    <3>2. Task(x)
      BY <2>1, <1>23, <2>2 DEF AppendIndex, ProcRecord, OpSteps, Task, At
    <3>3. Moves(p, x)
      BY <1>23, <2>2 DEF AppendIndex, Moves, Step, Return, Done, At, Lost
    <3> QED
      BY <3>1, <3>2, <3>3
  <2>4. KeysType'
    BY <1>0, <1>23, Kept DEF Values, AppendIndex, keyRest, fileVars, rest, migrateVars
  <2>5. Counts'
    BY <1>0, <1>23, Kept DEF Values, AppendIndex, keyRest, fileVars, rest, migrateVars
  <2>6. FilesType'
    BY <1>0, <1>23, Kept, <2>1, <2>2
       DEF Values, AppendIndex, keyRest, fileVars, rest, migrateVars, FilesType
  <2>7. source' = source
    BY <1>23 DEF AppendIndex, rest
  <2> QED
    BY <1>0, <2>3, <2>4, <2>5, <2>6, <2>7, TypeMove DEF Values
<1>24. ASSUME NEW p \in Procs, StoreLearning(p) PROVE TypeInv'
  <2>1. proc[p] \in ProcRecord /\ Task(proc[p])
    BY <1>0
  <2>2. registered \subseteq Blocks /\ ObjectOf[proc[p].block] \in Objects
    BY <1>0, <2>1, <1>24, MigrateAssumption
       DEF StoreLearning, ProcRecord, Task, At, LaidOut, HasLayout, Values, FilesType
  <2>3. \E x \in ProcRecord : Task(x) /\ Moves(p, x)
    <3> DEFINE x == [proc[p] EXCEPT !.step = "register", !.trust = registered]
    <3>1. x \in ProcRecord
      BY <2>1, <2>2 DEF ProcRecord, Ops, StepNames
    <3>2. Task(x)
      BY <2>1, <1>24, <2>2 DEF StoreLearning, ProcRecord, OpSteps, Task, At
    <3>3. Moves(p, x)
      BY <1>24, <2>2 DEF StoreLearning, Moves, Step, Return, Done, At, Lost
    <3> QED
      BY <3>1, <3>2, <3>3
  <2>4. KeysType'
    BY <1>0, <1>24, Kept DEF Values, StoreLearning, keyRest, fileVars, rest, migrateVars
  <2>5. Counts'
    BY <1>0, <1>24, Kept DEF Values, StoreLearning, keyRest, fileVars, rest, migrateVars
  <2>6. FilesType'
    BY <1>0, <1>24, Kept, <2>1, <2>2
       DEF Values, StoreLearning, keyRest, fileVars, rest, migrateVars, FilesType
  <2>7. source' = source
    BY <1>24 DEF StoreLearning, rest
  <2> QED
    BY <1>0, <2>3, <2>4, <2>5, <2>6, <2>7, TypeMove DEF Values
<1>25. ASSUME NEW p \in Procs, Register(p) PROVE TypeInv'
  <2>1. proc[p] \in ProcRecord /\ Task(proc[p])
    BY <1>0
  <2>3. \E x \in ProcRecord : Task(x) /\ Moves(p, x)
    <3>2. Moves(p, NoProc)
      BY <1>25, KeysAssumption DEF Register, Moves, Step, Return, Done, At, Lost
    <3> QED
      BY <3>2, NoTask
  <2>4. KeysType'
    BY <1>0, <1>25, Kept DEF Values, Register, keyRest, fileVars, rest, migrateVars
  <2>5. Counts'
    BY <1>0, <1>25, Kept DEF Values, Register, keyRest, fileVars, rest, migrateVars
  <2>6. FilesType'
    BY <1>0, <1>25, Kept, <2>1, MigrateAssumption
       DEF Values, Register, keyRest, fileVars, rest, migrateVars, FilesType, Task, At
  <2>7. source' = source
    BY <1>25 DEF Register, rest
  <2> QED
    BY <1>0, <2>3, <2>4, <2>5, <2>6, <2>7, TypeMove DEF Values
<1>26. ASSUME NEW p \in Procs, BeginVerify(p) PROVE TypeInv'
  <2>1. proc[p] \in ProcRecord /\ Task(proc[p])
    BY <1>0
  <2>2. index \in Seq(Entry)
    BY <1>0, <2>1, <1>26 DEF BeginVerify, ProcRecord, Task, At, HasLayout, Values, FilesType
  <2>3. \E x \in ProcRecord : Task(x) /\ Moves(p, x)
    <3> DEFINE x == [NoProc EXCEPT !.op = "verify", !.step = "block", !.todo = index]
    <3>1. x \in ProcRecord
      BY <2>1, <2>2, NoTask, WorkSeqs DEF ProcRecord, Ops, StepNames
    <3>2. Task(x)
      BY <2>1, <1>26, <2>2 DEF BeginVerify, ProcRecord, OpSteps, Task, At, NoProc
    <3>3. Moves(p, x)
      BY <1>26, <2>2 DEF BeginVerify, Moves, Step, Return, Done, At, Lost
    <3> QED
      BY <3>1, <3>2, <3>3
  <2>4. KeysType'
    BY <1>0, <1>26, Kept DEF Values, BeginVerify, keyRest, fileVars, rest, migrateVars
  <2>5. Counts'
    BY <1>0, <1>26, Kept DEF Values, BeginVerify, keyRest, fileVars, rest, migrateVars
  <2>6. FilesType'
    BY <1>0, <1>26, Kept, <2>1, <2>2
       DEF Values, BeginVerify, keyRest, fileVars, rest, migrateVars
  <2>7. source' = source
    BY <1>26 DEF BeginVerify, rest
  <2> QED
    BY <1>0, <2>3, <2>4, <2>5, <2>6, <2>7, TypeMove DEF Values
<1>27. ASSUME NEW p \in Procs, VerifyBlock(p) PROVE TypeInv'
  <2>1. proc[p] \in ProcRecord /\ Task(proc[p])
    BY <1>0
  <2>2. /\ Tail(proc[p].todo) \in Seq(Work) /\ Tail(proc[p].todo) \in Seq(Entry) /\ proc[p].todo # <<>>
        /\ Head(proc[p].todo).id \in DOMAIN blocks => blocks[Head(proc[p].todo).id].sig \in {None} \cup Sig
    BY <1>0, <2>1, <1>27 DEF VerifyBlock, ProcRecord, Task, At, Values, FilesType
  <2>3. \E x \in ProcRecord : Task(x) /\ Moves(p, x)
    <3>1. ASSUME NEW what \in SUBSET {"missing", "mismatch"}, proc' = [proc EXCEPT ![p].todo = Tail(@), ![p].bad = @ \cup what]
          PROVE  \E x \in ProcRecord : Task(x) /\ Moves(p, x)
      <4> DEFINE x == [proc[p] EXCEPT !.todo = Tail(@), !.bad = @ \cup what]
      <4>1. x \in ProcRecord
        BY <2>1, <2>2, <3>1 DEF ProcRecord, Ops, StepNames, Faults
      <4>2. Task(x)
        BY <2>1, <1>27, <2>2, <3>1 DEF VerifyBlock, ProcRecord, OpSteps, Task, At
      <4>3. Moves(p, x)
        BY <1>27, <2>2, <3>1 DEF VerifyBlock, Moves, Step, Return, Done, At, Lost
      <4> QED
        BY <4>1, <4>2, <4>3
    <3>2. CASE /\ proc' = [proc EXCEPT ![p].step = "own", ![p].sig = blocks[Head(proc[p].todo).id].sig]
            /\ blocks[Head(proc[p].todo).id].sig \in Sig \ {None}
      <4> DEFINE x == [proc[p] EXCEPT !.step = "own", !.sig = blocks[Head(proc[p].todo).id].sig]
      <4>1. x \in ProcRecord
        BY <2>1, <2>2, <3>2 DEF ProcRecord, Ops, StepNames
      <4>2. Task(x)
        BY <2>1, <1>27, <2>2, <3>2 DEF VerifyBlock, ProcRecord, OpSteps, Task, At
      <4>3. Moves(p, x)
        BY <1>27, <2>2, <3>2 DEF VerifyBlock, Moves, Step, Return, Done, At, Lost
      <4> QED
        BY <4>1, <4>2, <4>3
    <3> DEFINE block == blocks[Head(proc[p].todo).id]
               Noted(what) == proc' = [proc EXCEPT ![p].todo = Tail(@), ![p].bad = @ \cup what]
               ToKeys == proc' = [proc EXCEPT ![p].step = "own", ![p].sig = block.sig]
    <3>3. \/ Noted({"missing"}) \/ Noted({"mismatch"}) \/ Noted({})
          \/ Head(proc[p].todo).id \in DOMAIN blocks /\ block.sig # None /\ ToKeys
      <4> HIDE DEF Noted, ToKeys
      <4> QED
        BY <1>27 DEF VerifyBlock, Noted, ToKeys
    <3>4. {} \in SUBSET {"missing", "mismatch"} /\ {"missing"} \in SUBSET {"missing", "mismatch"}
          /\ {"mismatch"} \in SUBSET {"missing", "mismatch"}
      OBVIOUS
    <3>9. (\E what \in SUBSET {"missing", "mismatch"} : Noted(what)) \/ (ToKeys /\ block.sig \in Sig \ {None})
      <4> HIDE DEF Noted, ToKeys
      <4> QED
        BY <2>2, <3>3, <3>4
    <3> QED
      BY <3>1, <3>2, <3>9, <1>27 DEF VerifyBlock, At, Lost
  <2>4. KeysType'
    BY <1>0, <1>27, Kept DEF Values, VerifyBlock, keyRest, fileVars, rest, migrateVars
  <2>5. Counts'
    BY <1>0, <1>27, Kept DEF Values, VerifyBlock, keyRest, fileVars, rest, migrateVars
  <2>6. FilesType'
    BY <1>0, <1>27, Kept DEF Values, VerifyBlock, keyRest, fileVars, rest, migrateVars
  <2>7. source' = source
    BY <1>27 DEF VerifyBlock, rest
  <2> QED
    BY <1>0, <2>3, <2>4, <2>5, <2>6, <2>7, TypeMove DEF Values
<1>28. ASSUME NEW p \in Procs, VerifyEnds(p) PROVE TypeInv'
  <2>1. proc[p] \in ProcRecord /\ Task(proc[p])
    BY <1>0
  <2>3. \E x \in ProcRecord : Task(x) /\ Moves(p, x)
    <3>2. Moves(p, NoProc)
      BY <1>28, KeysAssumption DEF VerifyEnds, Moves, Step, Return, Done, At, Lost
    <3> QED
      BY <3>2, NoTask
  <2>4. KeysType'
    BY <1>0, <1>28, Kept DEF Values, VerifyEnds, keyRest, fileVars, rest, migrateVars
  <2>5. Counts'
    BY <1>0, <1>28, Kept DEF Values, VerifyEnds, keyRest, fileVars, rest, migrateVars
  <2>6. FilesType'
    BY <1>0, <1>28, Kept, <2>1
       DEF Values, VerifyEnds, keyRest, fileVars, rest, migrateVars, FilesType, ProcRecord
  <2>7. source' = source
    BY <1>28 DEF VerifyEnds, rest
  <2> QED
    BY <1>0, <2>3, <2>4, <2>5, <2>6, <2>7, TypeMove DEF Values
<1>29. ASSUME NEW p \in Procs, Die(p) PROVE TypeInv'
  <2>1. proc[p] \in ProcRecord /\ Task(proc[p])
    BY <1>0
  <2>3. \E x \in ProcRecord : Task(x) /\ Moves(p, x)
    <3>2. Moves(p, NoProc)
      BY <1>29, KeysAssumption DEF Die, Moves, Step, Return, Done, At, Lost
    <3> QED
      BY <3>2, NoTask
  <2>4. KeysType'
    BY <1>0, <1>29, Kept DEF Values, Die, keyRest, fileVars, rest, migrateVars
  <2>5. Counts'
    BY <1>0, <1>29, Kept, <2>1 DEF Values, Die, keyRest, fileVars, rest, migrateVars, Counts
  <2>6. FilesType'
    BY <1>0, <1>29, Kept DEF Values, Die, keyRest, fileVars, rest, migrateVars
  <2>7. source' = source
    BY <1>29 DEF Die, rest
  <2> QED
    BY <1>0, <2>3, <2>4, <2>5, <2>6, <2>7, TypeMove DEF Values
<1>30. ASSUME NEW p \in Procs, Opens(p) PROVE TypeInv'
  <2>1. \E x \in ProcRecord : Task(x) /\ Moves(p, x)
    <3>1. ASSUME NEW s \in {"index", "registered"} PROVE Opener(s) \in ProcRecord /\ Task(Opener(s))
      <4>1. Opener(s) \in ProcRecord
        BY NoTask DEF Opener, ProcRecord, Ops, StepNames
      <4>2. Opener(s).op = "open" /\ Opener(s).step = s
        BY DEF Opener, NoProc
      <4> QED
        BY <4>1, <4>2 DEF Task, OpSteps
    <3> QED
      BY <1>30, <3>1, NoTask, OpenSteps
  <2>2. KeysType' /\ Counts'
    BY <1>0, <1>30, Kept, OpenSteps DEF Values
  <2>3. FilesType'
    <3>1. <<>> \in Seq(Entry) /\ {} \in SUBSET Blocks
      OBVIOUS
    <3>2. /\ index' = index \/ index' = <<>>
          /\ registered' = registered \/ registered' = {}
          /\ UNCHANGED <<blocks, objects, report>>
      BY <1>30, OpenSteps
    <3> QED
      BY <1>0, <3>1, <3>2 DEF Values, FilesType
  <2>4. source' = source
    BY <1>30, OpenSteps
  <2> QED
    BY <1>0, <2>1, <2>2, <2>3, <2>4, TypeMove DEF Values
<1> QED
  BY <1>1, <1>2, <1>3, <1>4, <1>5, <1>6, <1>7, <1>8, <1>9, <1>10, <1>11, <1>12, <1>13, <1>14, <1>15,
     <1>16, <1>17, <1>18, <1>19, <1>20, <1>21, <1>22, <1>23, <1>24, <1>25, <1>26, <1>27, <1>28, <1>29,
     <1>30
     DEF Next, KeysStep, Opens

(* What a step changes of the processes.                                   *)
Only(p, x) == proc'[p] = x /\ \A q \in Procs : q # p => proc'[q] = proc[q]

(* Nobody finds the ledger not laid out.                                   *)
LEMMA LaidOutStep == TypeInv /\ LaidOut /\ [Next]_vars => LaidOut' /\ source' = source
<1> SUFFICES ASSUME TypeInv, LaidOut, [Next]_vars PROVE LaidOut' /\ source' = source
  OBVIOUS
<1> DEFINE Laid == HasLayout
           Ops3 == {"append", "migrate", "verify"}
<1>0. Values /\ proc \in [Procs -> ProcRecord] /\ \A p \in Procs : proc[p] \in ProcRecord /\ Task(proc[p])
  BY DEF TypeInv
<1>1. CASE UNCHANGED vars
  BY <1>1 DEF vars, migrateVars, fileVars, keyVars, LaidOut, HasLayout
<1>2. ASSUME NEW p \in Procs, KeysStep(p), UNCHANGED <<migrateVars, source>>
      PROVE  \A q \in Procs : proc'[q].op \in Ops3 => proc[q].op \in Ops3
  <2>1. proc[p] \in ProcRecord
    BY <1>0
  <2>2. NoProc.op = "none"
    BY DEF NoProc
  <2>3. \A k, t : Generating(p, k).op = "generate" /\ Trusting(k, t).op = "trust"
    BY DEF Generating, Trusting, NoProc
  <2>4. proc'[p].op \in {proc[p].op, "none", "generate", "trust"} /\ \A q \in Procs \ {p} : proc'[q] = proc[q]
    <3>1. CASE WriteIdentity(p) \/ OpenPrivate(p) \/ WritePrivate(p) \/ WriteTrusted(p) \/ SignId(p) \/ Sign(p)
      BY <1>0, <2>1, <2>2, <3>1
         DEF WriteIdentity, OpenPrivate, WritePrivate, WriteTrusted, SignId, Sign, Step, Return,
             ProcRecord
    <3>2. CASE LookupOwn(p) \/ LookupPublic(p) \/ LookupTrusted(p)
      BY <1>0, <2>1, <2>2, <3>2
         DEF LookupOwn, LookupPublic, LookupTrusted, Judged, Step, Return, ProcRecord
    <3>3. CASE \E k \in NewKeys : BeginGenerate(p, k) \/ BeginTrust(p, k)
      BY <1>0, <2>3, <3>3 DEF BeginGenerate, BeginTrust
    <3> QED
      BY <1>2, <3>1, <3>2, <3>3 DEF KeysStep
  <2> QED
    BY <2>4
<1>3. LaidOut /\ UNCHANGED <<index, registered, audit>> /\ (\A q \in Procs : proc'[q].op \in Ops3 => proc[q].op \in Ops3) => LaidOut'
  BY DEF LaidOut, HasLayout
<1>4. ASSUME Laid' PROVE LaidOut'
  BY <1>4 DEF LaidOut
<1>7. ASSUME NEW p \in Procs, \E force \in BOOLEAN : BeginMigrate(p, force)
      PROVE  Laid' /\ source' = source
  BY <1>7 DEF BeginMigrate, HasLayout, fileVars
<1>8. ASSUME NEW p \in Procs, \E b \in NewBlocks, sign \in BOOLEAN : BeginAppend(p, b, sign)
      PROVE  Laid' /\ source' = source
  BY <1>8 DEF BeginAppend, HasLayout, fileVars
<1>9. ASSUME NEW p \in Procs, BeginVerify(p) PROVE Laid' /\ source' = source
  BY <1>9 DEF BeginVerify, HasLayout, fileVars, rest
<1>10. ASSUME NEW p \in Procs, proc[p].op \in Ops3 PROVE Laid
  BY <1>10 DEF LaidOut
<1>11. ASSUME NEW p \in Procs, WriteIndex(p) PROVE Laid' /\ source' = source
  <2>1. Laid /\ proc[p].run \in 0 .. MaxRuns /\ source \in Sources
    BY <1>0, <1>10, <1>11 DEF WriteIndex, At, Values, ProcRecord
  <2>2. index' \in Seq(Entry) /\ registered' = registered
    BY <1>11, <2>1, IndexWritten DEF WriteIndex
  <2> QED
    BY <1>11, <2>1, <2>2, MigrateAssumption DEF WriteIndex, rest, HasLayout
<1>12. ASSUME NEW p \in Procs, TranscribeReinforcements(p) PROVE Laid' /\ source' = source
  BY <1>0, <1>10, <1>12 DEF TranscribeReinforcements, At, Task, rest, HasLayout
<1>13. ASSUME NEW p \in Procs, AppendIndex(p) PROVE Laid' /\ source' = source
  <2>1. Laid /\ proc[p].held \in Seq(Entry) /\ proc[p].block \in Blocks
    BY <1>0, <1>10, <1>13, MigrateAssumption DEF AppendIndex, At, Task, ProcRecord
  <2>2. index' \in Seq(Entry) /\ registered' = registered
    BY <1>13, <2>1, MigrateAssumption DEF AppendIndex, Entry
  <2> QED
    BY <1>13, <2>1, <2>2, MigrateAssumption DEF AppendIndex, rest, HasLayout
<1>14. ASSUME NEW p \in Procs, Register(p) PROVE Laid' /\ source' = source
  <2>1. Laid /\ registered' \in SUBSET Blocks /\ index' = index
    BY <1>0, <1>10, <1>14, MigrateAssumption DEF Register, At, Task
  <2> QED
    BY <1>14, <2>1, MigrateAssumption DEF Register, HasLayout
<1>15. ASSUME NEW p \in Procs, Proceed(p) \/ CopyKey(p) \/ TranscribeBlock(p) \/ TranscribeObject(p) \/ WriteAudit(p)
                               \/ AppendBlock(p) \/ StoreLearning(p)
       PROVE  Laid' /\ source' = source
  <2>1. proc[p].op \in {"append", "migrate"}
    BY <1>15
       DEF Proceed, CopyKey, TranscribeBlock, TranscribeObject, WriteAudit, AppendBlock,
           StoreLearning, At
  <2> QED
    BY <1>10, <1>15, <2>1
       DEF Proceed, CopyKey, TranscribeBlock, TranscribeObject, WriteAudit, AppendBlock,
           StoreLearning, fileVars, rest, HasLayout
<1>16. ASSUME NEW p \in Procs, VerifyBlock(p) \/ VerifyEnds(p)
       PROVE  Laid' /\ source' = source
  BY <1>10, <1>16 DEF VerifyBlock, VerifyEnds, fileVars, rest, At, HasLayout
<1>17. ASSUME NEW p \in Procs, Die(p)
       PROVE  UNCHANGED <<index, registered, audit, source>> /\ (\A q \in Procs : proc'[q].op \in Ops3 => proc[q].op \in Ops3)
  BY <1>0, <1>17 DEF Die, Return, NoProc, migrateVars, fileVars
<1>18. ASSUME NEW p \in Procs, Opens(p) PROVE LaidOut' /\ source' = source
  <2>1. /\ index' = index \/ index' = <<>>
        /\ registered' = registered \/ registered' = {}
        /\ UNCHANGED <<audit, source>>
    BY <1>18, OpenSteps
  <2>2. NoFile # <<>> /\ NoFile # {}
    <3>1. <<>> \in Seq(Entry) /\ {} \in SUBSET Blocks
      OBVIOUS
    <3> QED
      BY <3>1, MigrateAssumption
  <2>3. Laid => Laid'
    BY <2>1, <2>2 DEF HasLayout
  <2>4. \A q \in Procs : proc'[q].op \in Ops3 => proc[q].op \in Ops3
    BY <1>0, <1>18, OpenMoves
  <2> QED
    BY <2>1, <2>3, <2>4 DEF LaidOut
<1> QED
  BY <1>1, <1>2, <1>3, <1>4, <1>7, <1>8, <1>9, <1>11, <1>12, <1>13, <1>14, <1>15, <1>16, <1>17, <1>18
     DEF Next, migrateVars, fileVars, Opens

------------------------------------------------------------------------------
(* The trusted keys. *)

TrustInv == ~trustRaced =>
    /\ \A p, q \in TrustWriters : p = q
    /\ granted = {} \/ keyFile["trusted"] = Torn \/ (keyFile["trusted"] # NoFile /\ granted \subseteq keyFile["trusted"])
    /\ \A p \in Procs : proc[p].op = "trust" => granted \subseteq proc[p].trust
    /\ \A p \in Procs : At(p, "migrate", "keys") /\ source.keys["trusted"] # NoFile
                           => granted \subseteq source.keys["trusted"]

(* A step that leaves the trusted keys alone.                              *)
TrustFrame(p) ==
    /\ keyFile'["trusted"] = keyFile["trusted"]
    /\ UNCHANGED <<granted, trustRaced, source>>
    /\ \A q \in Procs \ {p} : proc'[q] = proc[q]
    /\ proc'[p].op # "trust"
    /\ ~(proc'[p].op = "migrate" /\ proc'[p].step = "keys")

(* A step of an operation under way: it goes on, or ends.                  *)
GoesOn(p) == proc'[p].op \in {proc[p].op, "none"} /\ \A q \in Procs \ {p} : proc'[q] = proc[q]

LEMMA KeyStepGoesOn ==
    ASSUME TypeInv, NEW p \in Procs
    PROVE  /\ WriteIdentity(p) \/ OpenPrivate(p) \/ WritePrivate(p) => GoesOn(p) /\ proc[p].op = "generate"
           /\ WriteTrusted(p) => GoesOn(p) /\ proc[p].op = "trust"
           /\ SignId(p) \/ Sign(p) => GoesOn(p) /\ proc[p].op = "append"
           /\ LookupOwn(p) \/ LookupPublic(p) \/ LookupTrusted(p) => GoesOn(p) /\ proc[p].op = "verify"
<1>1. proc \in [Procs -> ProcRecord] /\ proc[p] \in ProcRecord
  BY DEF TypeInv
<1>2. NoProc.op = "none"
  BY DEF NoProc
<1>3. WriteIdentity(p) \/ OpenPrivate(p) \/ WritePrivate(p) \/ WriteTrusted(p) \/ SignId(p) \/ Sign(p) => GoesOn(p)
  BY <1>1, <1>2
     DEF GoesOn, WriteIdentity, OpenPrivate, WritePrivate, WriteTrusted, SignId, Sign, Step, Return,
         ProcRecord
<1>4. LookupOwn(p) \/ LookupPublic(p) \/ LookupTrusted(p) => GoesOn(p)
  BY <1>1, <1>2 DEF GoesOn, LookupOwn, LookupPublic, LookupTrusted, Judged, Step, Return, ProcRecord
<1>5. /\ WriteIdentity(p) \/ OpenPrivate(p) \/ WritePrivate(p) => proc[p].op = "generate"
      /\ WriteTrusted(p) => proc[p].op = "trust"
      /\ SignId(p) \/ Sign(p) => proc[p].op = "append"
      /\ LookupOwn(p) \/ LookupPublic(p) \/ LookupTrusted(p) => proc[p].op = "verify"
  BY
     DEF WriteIdentity, OpenPrivate, WritePrivate, WriteTrusted, SignId, Sign, LookupOwn,
         LookupPublic, LookupTrusted, At
<1> QED
  BY <1>3, <1>4, <1>5

LEMMA FileStepGoesOn ==
    ASSUME TypeInv, NEW p \in Procs
    PROVE  /\ \/ Proceed(p) \/ CopyKey(p) \/ TranscribeBlock(p) \/ WriteIndex(p)
              \/ TranscribeReinforcements(p) \/ TranscribeObject(p) \/ WriteAudit(p)
              => GoesOn(p) /\ proc[p].op = "migrate"
           /\ AppendBlock(p) \/ AppendIndex(p) \/ StoreLearning(p) \/ Register(p) => GoesOn(p) /\ proc[p].op = "append"
           /\ VerifyBlock(p) \/ VerifyEnds(p) => GoesOn(p) /\ proc[p].op = "verify"
           /\ Die(p) => GoesOn(p)
<1>1. proc \in [Procs -> ProcRecord] /\ proc[p] \in ProcRecord
  BY DEF TypeInv
<1>2. NoProc.op = "none"
  BY DEF NoProc
<1>3. TranscribeBlock(p) \/ WriteIndex(p) \/ TranscribeReinforcements(p) => GoesOn(p)
  BY <1>1 DEF GoesOn, TranscribeBlock, WriteIndex, TranscribeReinforcements, Done, ProcRecord
<1>4. Proceed(p) \/ CopyKey(p) => GoesOn(p)
  BY <1>1 DEF GoesOn, Proceed, CopyKey, ProcRecord
<1>5. TranscribeObject(p) \/ WriteAudit(p) => GoesOn(p)
  BY <1>1, <1>2 DEF GoesOn, TranscribeObject, WriteAudit, Return, ProcRecord
<1>6. AppendBlock(p) \/ AppendIndex(p) \/ StoreLearning(p) \/ Register(p) => GoesOn(p)
  BY <1>1, <1>2 DEF GoesOn, AppendBlock, AppendIndex, StoreLearning, Register, Step, Return, ProcRecord
<1>7. VerifyBlock(p) \/ VerifyEnds(p) \/ Die(p) => GoesOn(p)
  BY <1>1, <1>2 DEF GoesOn, VerifyBlock, VerifyEnds, Die, Return, ProcRecord
<1>8. /\ Proceed(p) \/ CopyKey(p) \/ TranscribeBlock(p) \/ WriteIndex(p) \/ TranscribeReinforcements(p)
                 \/ TranscribeObject(p) \/ WriteAudit(p) => proc[p].op = "migrate"
      /\ AppendBlock(p) \/ AppendIndex(p) \/ StoreLearning(p) \/ Register(p) => proc[p].op = "append"
      /\ VerifyBlock(p) \/ VerifyEnds(p) => proc[p].op = "verify"
  BY
     DEF Proceed, CopyKey, TranscribeBlock, WriteIndex, TranscribeReinforcements, TranscribeObject,
         WriteAudit,
         AppendBlock, AppendIndex, StoreLearning, Register, VerifyBlock, VerifyEnds, At
<1> QED
  BY <1>3, <1>4, <1>5, <1>6, <1>7, <1>8

LEMMA TrustStep == TypeInv /\ LaidOut /\ TrustInv /\ [Next]_vars => TrustInv'
<1> SUFFICES ASSUME TypeInv, LaidOut, TrustInv, [Next]_vars PROVE TrustInv'
  OBVIOUS
<1>0. Values /\ KeysType /\ proc \in [Procs -> ProcRecord] /\ \A p \in Procs : proc[p] \in ProcRecord /\ Task(proc[p])
  BY DEF TypeInv, Values
<1>00. \A f \in {"identity", "private", "trusted"} : \A v :
           [keyFile EXCEPT ![f] = v]["trusted"] = IF f = "trusted" THEN v ELSE keyFile["trusted"]
  BY <1>0 DEF KeysType, KeyFiles
<1>1. CASE UNCHANGED vars
  BY <1>1 DEF vars, keyVars, TrustInv, TrustWriters, At
<1>2. ASSUME NEW p \in Procs, TrustFrame(p) PROVE TrustInv'
  <2>1. \A q \in TrustWriters' : q \in TrustWriters /\ q # p
    BY <1>2 DEF TrustFrame, TrustWriters, At
  <2> QED
    BY <1>2, <2>1 DEF TrustFrame, TrustInv, TrustWriters, At
<1>3. ASSUME NEW p \in Procs, UNCHANGED source, WriteIdentity(p) \/ OpenPrivate(p) \/ WritePrivate(p)
      PROVE  TrustFrame(p)
  <2>1. keyFile'["trusted"] = keyFile["trusted"] /\ UNCHANGED <<granted, trustRaced, source>>
    BY <1>00, <1>3 DEF WriteIdentity, OpenPrivate, WritePrivate
  <2> QED
    BY <1>3, <2>1, KeyStepGoesOn DEF GoesOn, TrustFrame
<1>4. ASSUME NEW p \in Procs, UNCHANGED source, SignId(p) \/ Sign(p) \/ LookupOwn(p) \/ LookupPublic(p) \/ LookupTrusted(p)
      PROVE TrustFrame(p)
  <2>1. keyFile' = keyFile /\ UNCHANGED <<granted, trustRaced, source>>
    BY <1>4 DEF SignId, Sign, LookupOwn, LookupPublic, LookupTrusted
  <2> QED
    BY <1>4, <2>1, KeyStepGoesOn DEF GoesOn, TrustFrame
<1>5. ASSUME NEW p \in Procs, UNCHANGED source, NEW k \in NewKeys, BeginGenerate(p, k)
      PROVE  TrustFrame(p)
  BY <1>0, <1>5 DEF TrustFrame, BeginGenerate, Generating, NoProc
<1>6. ASSUME NEW p \in Procs, Proceed(p) PROVE TrustFrame(p)
  <2>1. proc[p].step \in OpSteps["migrate"] \ {"audit"} /\ source \in Sources
    BY <1>0, <1>6 DEF Proceed, Task, Values, OpSteps
  <2>2. AfterStep(proc[p].step) # "keys"
    BY <2>1, NextStep DEF OpSteps
  <2> QED
    BY <1>0, <1>6, <2>2 DEF TrustFrame, Proceed, keyRest, rest, ProcRecord
<1>7. ASSUME NEW p \in Procs,
             TranscribeBlock(p) \/ WriteIndex(p) \/ TranscribeReinforcements(p) \/ TranscribeObject(p) \/ WriteAudit(p)
      PROVE TrustFrame(p)
  <2>1. keyFile' = keyFile /\ UNCHANGED <<granted, trustRaced, source>>
    BY <1>7
       DEF TranscribeBlock, WriteIndex, TranscribeReinforcements, TranscribeObject, WriteAudit,
           keyRest, rest
  <2>2. ~WriteAudit(p) => proc'[p].step = proc[p].step
    BY <1>0, <1>7
       DEF TranscribeBlock, WriteIndex, TranscribeReinforcements, TranscribeObject, Done, ProcRecord
  <2>3. WriteAudit(p) => proc'[p].op = "none"
    BY <1>0 DEF WriteAudit, Return, NoProc
  <2>4. proc[p].step # "keys"
    BY <1>7 DEF TranscribeBlock, WriteIndex, TranscribeReinforcements, TranscribeObject, WriteAudit, At
  <2> QED
    BY <1>7, <2>1, <2>2, <2>3, <2>4, FileStepGoesOn DEF GoesOn, TrustFrame
<1>8. ASSUME NEW p \in Procs, AppendBlock(p) \/ AppendIndex(p) \/ StoreLearning(p) \/ Register(p) \/ VerifyBlock(p) \/ VerifyEnds(p)
      PROVE TrustFrame(p)
  <2>1. keyFile' = keyFile /\ UNCHANGED <<granted, trustRaced, source>>
    BY <1>8
       DEF AppendBlock, AppendIndex, StoreLearning, Register, VerifyBlock, VerifyEnds, keyRest, rest
  <2> QED
    BY <1>8, <2>1, FileStepGoesOn DEF GoesOn, TrustFrame
<1>9. ASSUME NEW p \in Procs, (\E b \in NewBlocks, sign \in BOOLEAN : BeginAppend(p, b, sign)) \/ BeginVerify(p)
      PROVE TrustFrame(p)
  <2>1. keyFile' = keyFile /\ UNCHANGED <<granted, trustRaced, source>>
    BY <1>9 DEF BeginAppend, BeginVerify, keyRest, rest
  <2>2. proc'[p].op \in {"append", "verify"} /\ \A q \in Procs \ {p} : proc'[q] = proc[q]
    BY <1>0, <1>9 DEF BeginAppend, BeginVerify, NoProc
  <2> QED
    BY <2>1, <2>2 DEF TrustFrame
<1>10. ASSUME NEW p \in Procs, Die(p) PROVE TrustFrame(p)
  BY <1>0, <1>10 DEF TrustFrame, Die, Return, NoProc
<1>11. ASSUME NEW p \in Procs, WriteTrusted(p), UNCHANGED source PROVE TrustInv'
  <2>1. /\ keyFile'["trusted"] = proc[p].trust \cup {proc[p].key} /\ granted' = granted \cup {proc[p].key}
        /\ trustRaced' = trustRaced /\ proc[p].op = "trust" /\ proc[p].trust \subseteq KeyPairs /\ proc[p].key \in KeyPairs
        /\ proc'[p].op = "none" /\ \A q \in Procs \ {p} : proc'[q] = proc[q]
    BY <1>0, <1>00, <1>11 DEF WriteTrusted, At, Return, NoProc, Task, KeysType
  <2>2. ASSUME ~trustRaced PROVE TrustWriters' = {} /\ granted \subseteq proc[p].trust
    BY <2>1, <2>2 DEF TrustInv, TrustWriters, At
  <2>3. keyFile'["trusted"] # NoFile
    BY <2>1, KeysAssumption
  <2> QED
    BY <2>1, <2>2, <2>3 DEF TrustInv, TrustWriters, At
<1>12. ASSUME NEW p \in Procs, NEW k \in NewKeys, BeginTrust(p, k), UNCHANGED source PROVE TrustInv'
  <2>1. /\ keyFile' = keyFile /\ granted' = granted /\ keyFile["trusted"] # Torn
        /\ proc'[p].op = "trust" /\ \A q \in Procs \ {p} : proc'[q] = proc[q]
        /\ proc'[p].trust = IF keyFile["trusted"] = NoFile THEN {} ELSE keyFile["trusted"]
    BY <1>0, <1>12 DEF BeginTrust, Trusting, NoProc
  <2>2. ~trustRaced' => ~trustRaced /\ TrustWriters = {}
    BY <1>12 DEF BeginTrust
  <2> QED
    BY <1>12, <2>1, <2>2 DEF TrustInv, TrustWriters, At
<1>13. ASSUME NEW p \in Procs, \E force \in BOOLEAN : BeginMigrate(p, force) PROVE TrustInv'
  <2>1. /\ keyFile' = keyFile /\ granted' = granted /\ source' = source
        /\ proc'[p].op = "migrate" /\ \A q \in Procs \ {p} : proc'[q] = proc[q]
    BY <1>0, <1>13 DEF BeginMigrate, keyRest, NoProc
  <2>2. ~trustRaced' => ~trustRaced /\ TrustWriters = {} /\ (source.keys["trusted"] # NoFile => granted \subseteq source.keys["trusted"])
    BY <1>13 DEF BeginMigrate
  <2> QED
    BY <2>1, <2>2 DEF TrustInv, TrustWriters, At
<1>14. ASSUME NEW p \in Procs, CopyKey(p) PROVE TrustInv'
  <2> DEFINE f == Head(proc[p].todo)
  <2>1. f \in {"identity", "private", "trusted"} /\ source.keys[f] # NoFile
    BY <1>0, <1>14, KeyTodo DEF CopyKey, At, Task, KeyFiles
  <2> HIDE DEF f
  <2>2. /\ proc[p].op = "migrate" /\ proc[p].step = "keys" /\ proc'[p].op = "migrate" /\ proc'[p].step = "keys"
        /\ \A q \in Procs \ {p} : proc'[q] = proc[q]
        /\ UNCHANGED <<trustRaced, source>>
    <3>1. CASE proc[p].key = None
      BY <1>0, <1>14, <3>1 DEF CopyKey, At, ProcRecord
    <3>2. CASE proc[p].key # None
      BY <1>0, <1>14, <3>2 DEF CopyKey, At, ProcRecord
    <3> QED
      BY <3>1, <3>2
  <2>3. \/ f # "trusted" /\ keyFile'["trusted"] = keyFile["trusted"] /\ granted' = granted
        \/ f = "trusted" /\ keyFile'["trusted"] = Torn /\ granted' = granted
        \/ f = "trusted" /\ keyFile'["trusted"] = source.keys["trusted"] /\ granted' = granted \cup source.keys["trusted"]
    <3>1. \/ keyFile' = [keyFile EXCEPT ![f] = Torn] /\ granted' = granted
          \/ keyFile' = [keyFile EXCEPT ![f] = source.keys[f]]
             /\ granted' = IF f = "trusted" THEN granted \cup source.keys[f] ELSE granted
      BY <1>14 DEF CopyKey, f
    <3> QED
      BY <1>00, <2>1, <3>1
  <2>4. TrustWriters' = TrustWriters /\ p \in TrustWriters
    BY <2>2 DEF TrustWriters, At
  <2>5. ASSUME ~trustRaced, f = "trusted"
        PROVE  granted \subseteq source.keys["trusted"] /\ TrustWriters = {p}
    BY <2>1, <2>2, <2>4, <2>5 DEF TrustInv, At
  <2>6. ASSUME ~trustRaced PROVE \A q \in Procs : q \in TrustWriters => q = p
    BY <2>4, <2>6 DEF TrustInv
  <2>7. CASE f # "trusted"
    BY <2>2, <2>3, <2>4, <2>7 DEF TrustInv, At
  <2>8. CASE f = "trusted"
    BY <2>1, <2>2, <2>3, <2>4, <2>5, <2>8 DEF TrustInv, TrustWriters, At
  <2> QED
    BY <2>7, <2>8
<1>15. ASSUME NEW p \in Procs, Opens(p) PROVE TrustFrame(p)
  BY <1>15, OpenSteps, OpenMoves, <1>0 DEF TrustFrame
<1> QED
  BY <1>1, <1>2, <1>3, <1>4, <1>5, <1>6, <1>7, <1>8, <1>9, <1>10, <1>11, <1>12, <1>13, <1>14, <1>15
     DEF Next, KeysStep, Opens

------------------------------------------------------------------------------
(* The key pair. *)

(* How far a process is in writing the pair, by what the two files hold.   *)
Generated(x) ==
    /\ x.step = "identity" => keyFile["identity"] = NoFile /\ keyFile["private"] = NoFile
    /\ x.step = "open" => keyFile["identity"] = x.key /\ keyFile["private"] = NoFile
    /\ x.step = "private" => keyFile["identity"] = x.key /\ keyFile["private"] = Torn
CopiedPair(x) ==
    LET pair == source.keys["identity"]
    IN  /\ source.keys["private"] = pair
        /\ Has(x.todo, "identity") => Has(x.todo, "private")
        /\ pair = NoFile \/ (Has(x.todo, "identity") /\ x.key # "identity")
              => keyFile["identity"] = keyFile["private"] /\ keyFile["private"] # Torn
        /\ pair # NoFile /\ x.key = "identity" => keyFile["identity"] = Torn /\ keyFile["private"] \in {NoFile, pair}
        /\ pair # NoFile /\ ~Has(x.todo, "identity")
              => /\ keyFile["identity"] = pair
                 /\ x.key = "private" => keyFile["private"] = Torn
                 /\ Has(x.todo, "private") /\ x.key # "private" => keyFile["private"] \in {NoFile, pair}
                 /\ ~Has(x.todo, "private") => keyFile["private"] = pair

(* A key that was read from the identity file is the only one there is.    *)
InPlace(k) == k \in KeyPairs /\ (keyFile["identity"] = k \/ (keyFile["identity"] = Torn /\ source.keys["identity"] = k))
SigGood(g) == g # None => g.id = g.by /\ InPlace(g.id)

(* What a process has read of keys and signatures.                         *)
Uses(x) ==
    /\ x.op = "append" /\ x.step = "sign" => InPlace(x.key)
    /\ x.op \in {"append", "verify"} => SigGood(x.sig)
    /\ ~(x.op = "verify" /\ x.step = "trusted")
    /\ "signature" \notin x.bad

Settled == keyFile["identity"] = keyFile["private"] /\ keyFile["private"] # Torn
WritesPair(x) ==
    /\ x.op = "generate" => Generated(x)
    /\ x.op = "migrate" /\ x.step = "keys" => CopiedPair(x)
AllGood == \A b \in DOMAIN blocks : SigGood(blocks[b].sig)

PairInv == ~mixed /\ ~replaced =>
    /\ \A p, q \in KeyWriters : p = q
    /\ KeyWriters = {} => Settled
    /\ \A p \in Procs : WritesPair(proc[p]) /\ Uses(proc[p])
    /\ AllGood
    /\ "signature" \notin report

LEMMA OneKey ==
    ASSUME TypeInv, PairInv, ~mixed, ~replaced, NEW k, InPlace(k), keyFile["private"] \in KeyPairs
    PROVE  keyFile["private"] = k
<1>1. NoFile \notin KeyPairs /\ Torn \notin KeyPairs /\ k \in KeyPairs
  BY KeysAssumption DEF InPlace
<1>2. CASE Settled
  BY <1>1, <1>2 DEF Settled, InPlace
<1>3. ASSUME NEW p \in KeyWriters PROVE keyFile["private"] = k
  <2>1. p \in Procs /\ WritesPair(proc[p]) /\ Task(proc[p])
    BY DEF PairInv, KeyWriters, TypeInv
  <2>2. CASE proc[p].op = "generate"
    <3>1. proc[p].step \in {"identity", "open", "private"}
      BY <2>1, <2>2 DEF Task, OpSteps
    <3> QED
      BY <1>1, <2>1, <2>2, <3>1 DEF WritesPair, Generated
  <2>3. CASE proc[p].op = "migrate" /\ proc[p].step = "keys"
    <3>1. CopiedPair(proc[p])
      BY <2>1, <2>3 DEF WritesPair
    <3>2. CASE source.keys["identity"] = NoFile \/ (Has(proc[p].todo, "identity") /\ proc[p].key # "identity")
      BY <1>2, <3>1, <3>2 DEF CopiedPair, Settled
    <3>3. CASE source.keys["identity"] # NoFile /\ proc[p].key = "identity"
      BY <1>1, <3>1, <3>3 DEF CopiedPair, InPlace
    <3>4. CASE source.keys["identity"] # NoFile /\ ~Has(proc[p].todo, "identity")
      BY <1>1, <3>1, <3>4 DEF CopiedPair, InPlace
    <3> QED
      BY <3>2, <3>3, <3>4
  <2> QED
    BY <2>2, <2>3 DEF KeyWriters, At
<1> QED
  BY <1>2, <1>3 DEF PairInv

(* A step that leaves the key pair alone.                                  *)
PairFrame(p) ==
    /\ keyFile'["identity"] = keyFile["identity"] /\ keyFile'["private"] = keyFile["private"]
    /\ UNCHANGED <<mixed, replaced, source>>
    /\ \A q \in Procs \ {p} : proc'[q] = proc[q]
    /\ p \notin KeyWriters /\ p \notin KeyWriters'
    /\ ~mixed /\ ~replaced => Uses(proc'[p]) /\ AllGood' /\ "signature" \notin report'

(* A step that writes the key pair.                                        *)
PairStay(p) ==
    /\ UNCHANGED <<blocks, report, source>>
    /\ \A q \in Procs \ {p} : proc'[q] = proc[q]
    /\ proc'[p].op \notin {"append", "verify"} /\ proc'[p].bad \subseteq proc[p].bad

LEMMA PairWritten ==
    ASSUME TypeInv, PairInv, ~mixed, ~replaced, NEW p \in Procs, p \in KeyWriters, PairStay(p),
           \A k : InPlace(k) => InPlace(k)',
           mixed' = mixed,
           p \in KeyWriters' => WritesPair(proc[p])',
           p \notin KeyWriters' => Settled'
    PROVE  PairInv'
<1>1. \A q \in Procs \ {p} : q \notin KeyWriters
  BY DEF PairInv
<1>2. \A q \in Procs \ {p} : q \notin KeyWriters'
  BY <1>1 DEF PairStay, KeyWriters, At
<1>3. \A g : SigGood(g) => SigGood(g)'
  BY DEF SigGood
<1>4. AllGood' /\ "signature" \notin report'
  BY <1>3 DEF PairInv, PairStay, AllGood
<1>5. ASSUME NEW q \in Procs \ {p} PROVE WritesPair(proc[q])' /\ Uses(proc[q])'
  <2>1. Uses(proc[q]) /\ proc'[q] = proc[q]
    BY DEF PairInv, PairStay
  <2>2. Uses(proc[q])'
    BY <1>3, <2>1 DEF Uses
  <2>3. WritesPair(proc[q])'
    BY <1>2 DEF WritesPair, KeyWriters, At
  <2> QED
    BY <2>2, <2>3
<1>6. Uses(proc[p])'
  BY DEF PairInv, PairStay, Uses
<1>7. WritesPair(proc[p])'
  BY DEF WritesPair, KeyWriters, At
<1>8. (\A q, r \in KeyWriters' : q = r) /\ (KeyWriters' = {} => p \notin KeyWriters')
  BY <1>2 DEF KeyWriters
<1>9. \A q \in Procs : WritesPair(proc[q])' /\ Uses(proc[q])'
  BY <1>5, <1>6, <1>7
<1> QED
  BY <1>4, <1>8, <1>9 DEF PairInv

LEMMA PairUntouched ==
    ASSUME TypeInv, PairInv, NEW p \in Procs, PairFrame(p)
    PROVE  PairInv'
<1> SUFFICES ASSUME ~mixed, ~replaced PROVE PairInv'
  BY DEF PairInv, PairFrame
<1>1. \A k : InPlace(k)' <=> InPlace(k)
  BY DEF PairFrame, InPlace
<1>2. \A q \in Procs \ {p} : WritesPair(proc[q])' /\ Uses(proc[q])'
  <2>1. ASSUME NEW q \in Procs \ {p} PROVE WritesPair(proc[q])' /\ Uses(proc[q])'
    <3>1. WritesPair(proc[q]) /\ Uses(proc[q]) /\ proc'[q] = proc[q]
      BY DEF PairInv, PairFrame
    <3>2. Uses(proc[q])'
      BY <1>1, <3>1 DEF Uses, SigGood
    <3>3. WritesPair(proc[q])'
      BY <3>1 DEF WritesPair, Generated, CopiedPair, PairFrame
    <3> QED
      BY <3>2, <3>3
  <2> QED
    BY <2>1
<1>3. KeyWriters' = KeyWriters
  BY DEF PairFrame, KeyWriters, At
<1>4. WritesPair(proc[p])'
  BY DEF PairFrame, KeyWriters, At, WritesPair
<1>5. Uses(proc[p])' /\ AllGood' /\ "signature" \notin report'
  <2>1. Uses(proc'[p]) <=> Uses(proc[p])'
    BY <1>1 DEF Uses, SigGood
  <2> QED
    BY <2>1 DEF PairFrame
<1>6. Settled' <=> Settled
  BY DEF Settled, PairFrame
<1> QED
  BY <1>2, <1>3, <1>4, <1>5, <1>6 DEF PairInv

LEMMA NewUses == ASSUME NEW p PROVE Uses(NoProc) /\ \A k, t : Uses(Generating(p, k)) /\ Uses(Trusting(k, t))
BY DEF Uses, NoProc, Generating, Trusting

(* Steps that read the keys, or no keys at all. *)
LEMMA ReadingFrames ==
    ASSUME TypeInv, PairInv, NEW p \in Procs, UNCHANGED <<migrateVars, source>>
    PROVE  /\ WriteTrusted(p) => PairFrame(p)
           /\ (\E k \in NewKeys : BeginTrust(p, k)) => PairFrame(p)
           /\ SignId(p) => PairFrame(p)
           /\ Sign(p) => PairFrame(p)
           /\ LookupOwn(p) => PairFrame(p)
           /\ LookupPublic(p) => PairFrame(p)
           /\ LookupTrusted(p) => PairFrame(p)
<1>0. Values /\ KeysType /\ proc \in [Procs -> ProcRecord] /\ proc[p] \in ProcRecord /\ Task(proc[p])
  BY DEF TypeInv, Values
<1>1. ASSUME UNCHANGED keyFile
      PROVE  keyFile'["identity"] = keyFile["identity"] /\ keyFile'["private"] = keyFile["private"] /\ (AllGood => AllGood')
  BY <1>1 DEF AllGood, SigGood, InPlace, migrateVars, fileVars
<1>2. ASSUME ~mixed, ~replaced PROVE Uses(proc[p]) /\ AllGood /\ "signature" \notin report
  BY <1>2 DEF PairInv
<1>3. replaced' = replaced /\ report' = report /\ blocks' = blocks /\ source' = source
  BY DEF migrateVars, fileVars
<1>4. \A x : x.op \notin {"generate", "migrate"} /\ Only(p, x) => p \notin KeyWriters'
  BY DEF Only, KeyWriters, At
<1>5. proc[p].op \notin {"generate", "migrate"} => p \notin KeyWriters
  BY DEF KeyWriters, At
<1>6. NoProc.op = "none" /\ \A k, t : Trusting(k, t).op = "trust"
  BY DEF NoProc, Trusting
<1>7. ASSUME NEW x, Moves(p, x) PROVE Only(p, x)
  BY <1>0, <1>7 DEF Moves, Only
<1>8. ASSUME NEW x, Moves(p, x), keyFile' = keyFile, mixed' = mixed, x.op \notin {"generate", "migrate"},
             proc[p].op \notin {"generate", "migrate"}, ~mixed /\ ~replaced => Uses(x)
      PROVE  PairFrame(p)
  BY <1>1, <1>2, <1>3, <1>4, <1>5, <1>7, <1>8 DEF PairFrame, Only
<1>9. ASSUME WriteTrusted(p) PROVE PairFrame(p)
  <2>1. keyFile'["identity"] = keyFile["identity"] /\ keyFile'["private"] = keyFile["private"]
    BY <1>0, <1>9 DEF WriteTrusted, KeysType, KeyFiles
  <2>2. AllGood => AllGood'
    BY <1>3, <2>1 DEF AllGood, SigGood, InPlace
  <2>3. Moves(p, NoProc) /\ proc[p].op = "trust" /\ mixed' = mixed
    BY <1>9 DEF WriteTrusted, Return, Moves, At
  <2> QED
    BY <1>2, <1>3, <1>4, <1>5, <1>6, <1>7, <2>1, <2>2, <2>3, NewUses DEF PairFrame, Only
<1>10. ASSUME NEW k \in NewKeys, BeginTrust(p, k) PROVE PairFrame(p)
  <2>1. PICK t : Moves(p, Trusting(k, t))
    BY <1>10 DEF BeginTrust, Moves
  <2> QED
    BY <1>6, <1>8, <1>10, <2>1, NewUses DEF BeginTrust, Idle
<1>11. ASSUME Return(p), keyFile' = keyFile, mixed' = mixed, proc[p].op \in {"append", "verify"}
       PROVE  PairFrame(p)
  BY <1>6, <1>8, <1>11, NewUses DEF Return, Moves
<1>12. ASSUME NEW s, Step(p, s), s \notin {"sign", "trusted"}, keyFile' = keyFile, mixed' = mixed, proc[p].op \in {"append", "verify"}
       PROVE  PairFrame(p)
  <2> DEFINE x == [proc[p] EXCEPT !.step = s]
  <2>1. Moves(p, x) /\ x.op = proc[p].op
    BY <1>0, <1>12 DEF Step, Moves, ProcRecord
  <2>2. Uses(proc[p]) => Uses(x)
    BY <1>0, <1>12 DEF Uses, ProcRecord
  <2> HIDE DEF x
  <2> QED
    BY <1>2, <1>8, <1>12, <2>1, <2>2
<1>13. KeyPairs \cap Lost = {}
  BY KeysAssumption DEF Lost
<1>14. ASSUME SignId(p) PROVE PairFrame(p)
  <2>1. keyFile' = keyFile /\ mixed' = mixed /\ proc[p].op = "append" /\ keyFile["identity"] \in Lost \cup KeyPairs
    BY <1>0, <1>14 DEF SignId, At, KeysType, Lost
  <2>2. CASE keyFile["identity"] \in Lost
    BY <1>11, <1>12, <1>14, <2>1, <2>2 DEF SignId
  <2>3. CASE keyFile["identity"] \notin Lost
    <3> DEFINE x == [proc[p] EXCEPT !.step = "sign", !.key = keyFile["identity"]]
    <3>1. Moves(p, x) /\ x.op = proc[p].op
      BY <1>0, <1>14, <2>3 DEF SignId, Moves, ProcRecord, Lost
    <3>2. Uses(proc[p]) => Uses(x)
      BY <1>0, <2>1, <2>3 DEF Uses, ProcRecord, InPlace
    <3> HIDE DEF x
    <3> QED
      BY <1>2, <1>8, <2>1, <3>1, <3>2
  <2> QED
    BY <2>2, <2>3
<1>15. ASSUME Sign(p) PROVE PairFrame(p)
  <2>1. keyFile' = keyFile /\ mixed' = mixed /\ proc[p].op = "append" /\ proc[p].step = "sign" /\ keyFile["private"] \in Lost \cup KeyPairs
    BY <1>0, <1>15 DEF Sign, At, KeysType, Lost
  <2>2. CASE keyFile["private"] \in Lost
    BY <1>11, <1>12, <1>15, <2>1, <2>2 DEF Sign
  <2>3. CASE keyFile["private"] \notin Lost
    <3> DEFINE g == [id |-> proc[p].key, by |-> keyFile["private"]]
               x == [proc[p] EXCEPT !.step = "block", !.sig = g]
    <3>1. Moves(p, x) /\ x.op = proc[p].op
      BY <1>0, <1>15, <2>3 DEF Sign, Moves, ProcRecord, Lost
    <3>2. ASSUME ~mixed, ~replaced PROVE SigGood(g)
      <4>1. InPlace(proc[p].key)
        BY <1>2, <2>1, <3>2 DEF Uses
      <4> QED
        BY <2>1, <2>3, <3>2, <4>1, OneKey DEF SigGood
    <3>3. Uses(proc[p]) /\ SigGood(g) => Uses(x)
      BY <1>0, <2>1 DEF Uses, ProcRecord
    <3> HIDE DEF x, g
    <3> QED
      BY <1>2, <1>8, <2>1, <3>1, <3>2, <3>3
  <2> QED
    BY <2>2, <2>3
<1>16. ASSUME LookupOwn(p) PROVE PairFrame(p)
  <2>1. keyFile' = keyFile /\ mixed' = mixed /\ proc[p].op = "verify" /\ proc[p].step = "own" /\ proc[p].sig \in Sig \ {None}
    BY <1>0, <1>16 DEF LookupOwn, At, Task
  <2>2. ASSUME ~mixed, ~replaced PROVE keyFile["identity"] \in {Torn, proc[p].sig.id}
    <3>1. proc[p].sig # None => InPlace(proc[p].sig.id)
      BY <1>2, <2>1, <2>2 DEF Uses, SigGood
    <3>2. proc[p].sig # None
      BY <2>1
    <3> QED
      BY <3>1, <3>2 DEF InPlace
  <2>3. CASE Return(p)
    BY <1>11, <2>1, <2>3
  <2>4. CASE Step(p, "public")
    BY <1>12, <2>1, <2>4
  <2>5. CASE Step(p, "trusted") /\ keyFile["identity"] \notin {Torn, proc[p].sig.id}
    <3> DEFINE x == [proc[p] EXCEPT !.step = "trusted"]
    <3>1. Moves(p, x) /\ x.op = proc[p].op
      BY <1>0, <2>5 DEF Step, Moves, ProcRecord
    <3> HIDE DEF x
    <3> QED
      BY <1>8, <2>1, <2>2, <2>5, <3>1
  <2> QED
    BY <1>16, <2>3, <2>4, <2>5 DEF LookupOwn
<1>17. ASSUME LookupPublic(p) PROVE PairFrame(p)
  <2>1. keyFile' = keyFile /\ mixed' = mixed /\ proc[p].op = "verify" /\ proc[p].step = "public" /\ proc[p].sig \in Sig \ {None}
    BY <1>0, <1>17 DEF LookupPublic, At, Task
  <2>2. ASSUME ~mixed, ~replaced
        PROVE  keyFile["identity"] \in {Torn, proc[p].sig.id} /\ proc[p].sig.id = proc[p].sig.by /\ proc[p].sig.id \in KeyPairs
    BY <1>2, <2>1, <2>2 DEF Uses, SigGood, InPlace
  <2>3. CASE Return(p)
    BY <1>11, <2>1, <2>3
  <2>4. CASE keyFile["identity"] = NoFile /\ Step(p, "trusted")
    <3> DEFINE x == [proc[p] EXCEPT !.step = "trusted"]
    <3>1. Moves(p, x) /\ x.op = proc[p].op
      BY <1>0, <2>4 DEF Step, Moves, ProcRecord
    <3>2. ~(~mixed /\ ~replaced)
      BY <1>13, <2>2, <2>4, KeysAssumption DEF Lost
    <3> HIDE DEF x
    <3> QED
      BY <1>8, <2>1, <3>1, <3>2
  <2>5. CASE keyFile["identity"] \notin Lost /\ Judged(p, keyFile["identity"] = proc[p].sig.by)
    <3> DEFINE x == [proc[p] EXCEPT !.step = "block", !.sig = None, !.todo = Tail(@),
                                    !.bad = IF keyFile["identity"] = proc[p].sig.by THEN @ ELSE @ \cup {"signature"}]
    <3>1. Moves(p, x) /\ x.op = proc[p].op
      BY <1>0, <2>5 DEF Judged, Moves, ProcRecord
    <3>2. ASSUME ~mixed, ~replaced PROVE keyFile["identity"] = proc[p].sig.by
      BY <2>2, <2>5, <3>2 DEF Lost
    <3>3. Uses(proc[p]) /\ keyFile["identity"] = proc[p].sig.by => Uses(x)
      BY <1>0, <2>1 DEF Uses, SigGood, ProcRecord
    <3> HIDE DEF x
    <3> QED
      BY <1>2, <1>8, <2>1, <3>1, <3>2, <3>3
  <2> QED
    BY <1>17, <2>3, <2>4, <2>5 DEF LookupPublic
<1>18. ASSUME LookupTrusted(p) PROVE PairFrame(p)
  <2>1. keyFile' = keyFile /\ mixed' = mixed /\ proc[p].op = "verify" /\ proc[p].step = "trusted"
    BY <1>18 DEF LookupTrusted, At
  <2>2. ~(~mixed /\ ~replaced)
    BY <1>2, <2>1 DEF Uses
  <2>3. CASE Return(p)
    BY <1>11, <2>1, <2>3
  <2>4. ASSUME NEW valid, Judged(p, valid) PROVE PairFrame(p)
    <3> DEFINE x == [proc[p] EXCEPT !.step = "block", !.sig = None, !.todo = Tail(@),
                                    !.bad = IF valid THEN @ ELSE @ \cup {"signature"}]
    <3>1. Moves(p, x) /\ x.op = proc[p].op
      BY <1>0, <2>4 DEF Judged, Moves, ProcRecord
    <3> HIDE DEF x
    <3> QED
      BY <1>8, <2>1, <2>2, <3>1
  <2> QED
    BY <1>18, <2>3, <2>4 DEF LookupTrusted
<1> QED
  BY <1>9, <1>10, <1>14, <1>15, <1>16, <1>17, <1>18

LEMMA FileFrames ==
    ASSUME TypeInv, PairInv, NEW p \in Procs
    PROVE  /\ Proceed(p) /\ proc[p].step # "keys" => PairFrame(p)
           /\ TranscribeBlock(p) \/ WriteIndex(p) \/ TranscribeReinforcements(p) => PairFrame(p)
           /\ TranscribeObject(p) \/ WriteAudit(p) => PairFrame(p)
           /\ (\E b \in NewBlocks, sign \in BOOLEAN : BeginAppend(p, b, sign)) => PairFrame(p)
           /\ AppendBlock(p) => PairFrame(p)
           /\ AppendIndex(p) \/ StoreLearning(p) \/ Register(p) => PairFrame(p)
           /\ BeginVerify(p) \/ VerifyBlock(p) \/ VerifyEnds(p) => PairFrame(p)
           /\ Die(p) /\ p \notin KeyWriters => PairFrame(p)
           /\ Opens(p) => PairFrame(p)
<1>0. Values /\ FilesType /\ proc \in [Procs -> ProcRecord] /\ proc[p] \in ProcRecord /\ Task(proc[p])
  BY DEF TypeInv, Values
<1>1. ASSUME ~mixed, ~replaced PROVE Uses(proc[p]) /\ AllGood /\ "signature" \notin report
  BY <1>1 DEF PairInv
<1> DEFINE Writes(x) == x.op = "generate" \/ (x.op = "migrate" /\ x.step = "keys")
           Same == UNCHANGED <<keyFile, mixed, replaced, source>>
<1>2. p \in KeyWriters <=> Writes(proc[p])
  BY DEF KeyWriters, At
<1>3. ASSUME NEW x, Moves(p, x), Same, ~Writes(proc[p]), ~Writes(x),
             ~mixed /\ ~replaced => Uses(x) /\ AllGood' /\ "signature" \notin report'
      PROVE  PairFrame(p)
  <2>1. Only(p, x)
    BY <1>0, <1>3 DEF Moves, Only
  <2>2. p \notin KeyWriters'
    BY <1>3, <2>1 DEF Only, KeyWriters, At
  <2> QED
    BY <1>2, <1>3, <2>1, <2>2 DEF PairFrame, Only
<1>4. ASSUME Same, blocks' = blocks, AllGood PROVE AllGood'
  BY <1>4 DEF AllGood, SigGood, InPlace
<1>5. ASSUME NEW x, Moves(p, x), Same, ~Writes(proc[p]), ~Writes(x), blocks' = blocks, report' = report,
             Uses(proc[p]) => Uses(x)
      PROVE  PairFrame(p)
  BY <1>1, <1>3, <1>4, <1>5
<1>6. ASSUME NEW x, x.op = "migrate", x.bad = proc[p].bad, Uses(proc[p]) PROVE Uses(x)
  BY <1>6 DEF Uses
<1>7. NoProc.op = "none" /\ Uses(NoProc)
  BY NewUses DEF NoProc
<1>8. ASSUME Return(p), Same, ~Writes(proc[p]), blocks' = blocks, report' = report
      PROVE  PairFrame(p)
  BY <1>5, <1>7, <1>8 DEF Return, Moves
<1>9. ASSUME Proceed(p), proc[p].step # "keys" PROVE PairFrame(p)
  <2> DEFINE next == AfterStep(proc[p].step)
             x == [proc[p] EXCEPT !.step = next, !.todo = WorkOf(next), !.left = IF next = "objects" THEN source.objects ELSE {}]
  <2>1. proc[p].step \in OpSteps["migrate"] \ {"audit"} /\ source \in Sources /\ proc[p].op = "migrate"
    BY <1>0, <1>9 DEF Proceed, Task, Values, OpSteps
  <2>2. next # "keys"
    BY <2>1, NextStep DEF OpSteps
  <2>3. Moves(p, x) /\ x.op = "migrate" /\ x.step = next /\ x.bad = proc[p].bad
    BY <1>0, <1>9, <2>1 DEF Proceed, Moves, ProcRecord
  <2>4. Same /\ blocks' = blocks /\ report' = report
    BY <1>9 DEF Proceed, fileVars, rest
  <2> HIDE DEF x, next
  <2> QED
    BY <1>5, <1>6, <1>9, <2>1, <2>2, <2>3, <2>4
<1>10. ASSUME Done(p), proc[p].op = "migrate", proc[p].step # "keys", Same, ~mixed /\ ~replaced => AllGood', report' = report
       PROVE  PairFrame(p)
  <2> DEFINE x == [proc[p] EXCEPT !.todo = Tail(@)]
  <2>1. Moves(p, x) /\ x.op = "migrate" /\ x.step = proc[p].step /\ x.bad = proc[p].bad
    BY <1>0, <1>10 DEF Done, Moves, ProcRecord
  <2> HIDE DEF x
  <2> QED
    BY <1>1, <1>3, <1>6, <1>10, <2>1
<1>11. ASSUME TranscribeBlock(p) PROVE PairFrame(p)
  <2>1. proc[p].op = "migrate" /\ proc[p].step = "blocks" /\ Done(p) /\ Same /\ report' = report
    BY <1>11 DEF TranscribeBlock, At, rest
  <2>2. AllGood => AllGood'
    <3>1. \A b \in DOMAIN blocks' : blocks'[b].sig = None \/ (b \in DOMAIN blocks /\ blocks'[b] = blocks[b])
      BY <1>11 DEF TranscribeBlock
    <3> QED
      BY <2>1, <3>1 DEF AllGood, SigGood, InPlace
  <2> QED
    BY <1>1, <1>10, <2>1, <2>2
<1>12. ASSUME WriteIndex(p) \/ TranscribeReinforcements(p) PROVE PairFrame(p)
  <2>1. proc[p].op = "migrate" /\ proc[p].step # "keys" /\ Done(p) /\ Same /\ report' = report /\ blocks' = blocks
    BY <1>12 DEF WriteIndex, TranscribeReinforcements, At, rest
  <2> QED
    BY <1>1, <1>4, <1>10, <2>1
<1>13. ASSUME TranscribeObject(p) PROVE PairFrame(p)
  <2>1. proc[p].op = "migrate" /\ proc[p].step = "objects" /\ Same /\ report' = report /\ blocks' = blocks
    BY <1>13 DEF TranscribeObject, At, rest
  <2>2. \E x : Moves(p, x) /\ x.op = "migrate" /\ x.step = "objects" /\ x.bad = proc[p].bad
    <3>1. ASSUME NEW o, proc' = [proc EXCEPT ![p].key = o]
          PROVE  \E x : Moves(p, x) /\ x.op = "migrate" /\ x.step = "objects" /\ x.bad = proc[p].bad
      <4> DEFINE x == [proc[p] EXCEPT !.key = o]
      <4>1. Moves(p, x) /\ x.op = "migrate" /\ x.step = "objects" /\ x.bad = proc[p].bad
        BY <1>0, <2>1, <3>1 DEF Moves, ProcRecord
      <4> QED
        BY <4>1
    <3>2. ASSUME NEW o, proc' = [proc EXCEPT ![p].key = None, ![p].left = @ \ {o}]
          PROVE  \E x : Moves(p, x) /\ x.op = "migrate" /\ x.step = "objects" /\ x.bad = proc[p].bad
      <4> DEFINE x == [proc[p] EXCEPT !.key = None, !.left = @ \ {o}]
      <4>1. Moves(p, x) /\ x.op = "migrate" /\ x.step = "objects" /\ x.bad = proc[p].bad
        BY <1>0, <2>1, <3>2 DEF Moves, ProcRecord
      <4> QED
        BY <4>1
    <3> QED
      BY <1>13, <3>1, <3>2 DEF TranscribeObject
  <2>3. PICK x : Moves(p, x) /\ x.op = "migrate" /\ x.step = "objects" /\ x.bad = proc[p].bad
    BY <2>2
  <2> QED
    BY <1>5, <1>6, <2>1, <2>3
<1>14. ASSUME WriteAudit(p) PROVE PairFrame(p)
  <2>1. proc[p].op = "migrate" /\ proc[p].step # "keys" /\ Return(p) /\ Same /\ report' = report /\ blocks' = blocks
    BY <1>14 DEF WriteAudit, At, rest
  <2> QED
    BY <1>8, <2>1
<1>15. ASSUME NEW b \in NewBlocks, NEW sign \in BOOLEAN, BeginAppend(p, b, sign) PROVE PairFrame(p)
  <2> DEFINE x == [NoProc EXCEPT !.op = "append", !.block = b, !.held = index, !.step = IF sign THEN "keyId" ELSE "block"]
  <2>1. Moves(p, x) /\ x.op = "append" /\ Uses(x)
    BY <1>15 DEF BeginAppend, Moves, NoProc, Uses, SigGood
  <2>2. Same /\ blocks' = blocks /\ report' = report /\ proc[p].op = "none"
    BY <1>15 DEF BeginAppend, Idle, fileVars
  <2> HIDE DEF x
  <2> QED
    BY <1>5, <2>1, <2>2
<1>16. ASSUME NEW s, Step(p, s), s # "sign", proc[p].op = "append", Same, report' = report, ~mixed /\ ~replaced => AllGood'
       PROVE  PairFrame(p)
  <2> DEFINE x == [proc[p] EXCEPT !.step = s]
  <2>1. Moves(p, x) /\ x.op = "append" /\ (Uses(proc[p]) => Uses(x))
    BY <1>0, <1>16 DEF Step, Moves, ProcRecord, Uses
  <2> HIDE DEF x
  <2> QED
    BY <1>1, <1>3, <1>16, <2>1
<1>17. ASSUME AppendBlock(p) PROVE PairFrame(p)
  <2>1. proc[p].op = "append" /\ Step(p, "index") /\ Same /\ report' = report
    BY <1>17 DEF AppendBlock, At, rest
  <2>2. ASSUME ~mixed, ~replaced PROVE AllGood'
    <3>1. SigGood(proc[p].sig) /\ AllGood
      BY <1>1, <2>1, <2>2 DEF Uses
    <3>2. \A b \in DOMAIN blocks' : blocks'[b].sig = proc[p].sig \/ (b \in DOMAIN blocks /\ blocks'[b] = blocks[b])
      BY <1>17 DEF AppendBlock
    <3> QED
      BY <2>1, <3>1, <3>2 DEF AllGood, SigGood, InPlace
  <2> QED
    BY <1>16, <2>1, <2>2
<1>18. ASSUME AppendIndex(p) PROVE PairFrame(p)
  <2>1. proc[p].op = "append" /\ Step(p, "object") /\ Same /\ report' = report /\ blocks' = blocks
    BY <1>18 DEF AppendIndex, At, rest
  <2> QED
    BY <1>1, <1>4, <1>16, <2>1
<1>19. ASSUME StoreLearning(p) PROVE PairFrame(p)
  <2> DEFINE x == [proc[p] EXCEPT !.step = "register", !.trust = registered]
  <2>1. proc[p].op = "append" /\ Same /\ report' = report /\ blocks' = blocks
    BY <1>19 DEF StoreLearning, At, rest
  <2>2. Moves(p, x) /\ x.op = "append" /\ (Uses(proc[p]) => Uses(x))
    BY <1>0, <1>19, <2>1 DEF StoreLearning, Moves, ProcRecord, Uses
  <2> HIDE DEF x
  <2> QED
    BY <1>5, <2>1, <2>2
<1>20. ASSUME Register(p) PROVE PairFrame(p)
  <2>1. proc[p].op = "append" /\ Return(p) /\ Same /\ report' = report /\ blocks' = blocks
    BY <1>20 DEF Register, At
  <2> QED
    BY <1>8, <2>1
<1>21. ASSUME BeginVerify(p) PROVE PairFrame(p)
  <2> DEFINE x == [NoProc EXCEPT !.op = "verify", !.step = "block", !.todo = index]
  <2>1. Moves(p, x) /\ x.op = "verify" /\ Uses(x)
    BY <1>21 DEF BeginVerify, Moves, NoProc, Uses, SigGood
  <2>2. Same /\ blocks' = blocks /\ report' = report /\ proc[p].op = "none"
    BY <1>21 DEF BeginVerify, Idle, rest, fileVars
  <2> HIDE DEF x
  <2> QED
    BY <1>5, <2>1, <2>2
<1>22. ASSUME VerifyBlock(p) PROVE PairFrame(p)
  <2> DEFINE e == Head(proc[p].todo)
             Note(what) == proc' = [proc EXCEPT ![p].todo = Tail(@), ![p].bad = @ \cup what]
  <2>1. proc[p].op = "verify" /\ proc[p].step = "block" /\ Same /\ report' = report /\ blocks' = blocks
    BY <1>22 DEF VerifyBlock, At, rest, fileVars
  <2>2. ASSUME NEW what, Note(what), "signature" \notin what PROVE PairFrame(p)
    <3> DEFINE x == [proc[p] EXCEPT !.todo = Tail(@), !.bad = @ \cup what]
    <3>1. Moves(p, x) /\ x.op = "verify" /\ (Uses(proc[p]) => Uses(x))
      BY <1>0, <2>1, <2>2 DEF Moves, ProcRecord, Uses
    <3> HIDE DEF x
    <3> QED
      BY <1>5, <2>1, <3>1
  <2>3. ASSUME e.id \in DOMAIN blocks, proc' = [proc EXCEPT ![p].step = "own", ![p].sig = blocks[e.id].sig]
        PROVE  PairFrame(p)
    <3> DEFINE x == [proc[p] EXCEPT !.step = "own", !.sig = blocks[e.id].sig]
    <3>1. Moves(p, x) /\ x.op = "verify" /\ (Uses(proc[p]) /\ SigGood(blocks[e.id].sig) => Uses(x))
      BY <1>0, <2>1, <2>3 DEF Moves, ProcRecord, Uses
    <3>2. AllGood => SigGood(blocks[e.id].sig)
      BY <2>3 DEF AllGood
    <3> HIDE DEF x
    <3> QED
      BY <1>1, <1>3, <1>4, <2>1, <3>1, <3>2
  <2>4. Note({"missing"}) \/ Note({"mismatch"}) \/ Note({})
        \/ (e.id \in DOMAIN blocks /\ proc' = [proc EXCEPT ![p].step = "own", ![p].sig = blocks[e.id].sig])
    <3> HIDE DEF Note
    <3> QED
      BY <1>22 DEF VerifyBlock, Note
  <2> HIDE DEF Note
  <2> QED
    BY <2>2, <2>3, <2>4
<1>23. ASSUME VerifyEnds(p) PROVE PairFrame(p)
  <2>1. proc[p].op = "verify" /\ Return(p) /\ Same /\ report' = report \cup proc[p].bad /\ blocks' = blocks
    BY <1>23 DEF VerifyEnds, At, fileVars
  <2>2. ~mixed /\ ~replaced => "signature" \notin report' /\ AllGood'
    BY <1>1, <1>4, <2>1 DEF Uses
  <2> QED
    BY <1>3, <1>7, <2>1, <2>2 DEF Return, Moves
<1>24. ASSUME Die(p), p \notin KeyWriters PROVE PairFrame(p)
  <2>1. Return(p) /\ Same /\ report' = report /\ blocks' = blocks
    BY <1>0, <1>24 DEF Die, migrateVars, fileVars, Values, Counts
  <2> QED
    BY <1>2, <1>8, <1>24, <2>1
<1>25. ASSUME Opens(p) PROVE PairFrame(p)
  <2>1. Same /\ report' = report /\ blocks' = blocks
    BY <1>25, OpenSteps
  <2>2. PICK x \in {NoProc, Opener("index"), Opener("registered")} : Moves(p, x)
    BY <1>25, OpenSteps
  <2>3. x.op \in {"none", "open"} /\ Uses(x)
    <3>1. \A s : Opener(s).op = "open" /\ Uses(Opener(s))
      BY DEF NoProc, Opener, Uses, SigGood
    <3> QED
      BY <1>7, <2>2, <3>1
  <2>4. proc[p].op \in {"none", "open"}
    BY <1>0, <1>25, OpenMoves
  <2> QED
    BY <1>5, <2>1, <2>2, <2>3, <2>4
<1> QED
  BY <1>9, <1>11, <1>12, <1>13, <1>14, <1>15, <1>17, <1>18, <1>19, <1>20, <1>21, <1>22, <1>23, <1>24, <1>25

LEMMA PairStep == TypeInv /\ PairInv /\ [Next]_vars => PairInv'
<1> SUFFICES ASSUME TypeInv, PairInv, [Next]_vars PROVE PairInv'
  OBVIOUS
<1>0. Values /\ KeysType /\ proc \in [Procs -> ProcRecord] /\ \A p \in Procs : proc[p] \in ProcRecord /\ Task(proc[p])
  BY DEF TypeInv, Values
<1>00. /\ NoFile # Torn /\ NoFile \notin KeyPairs /\ Torn \notin KeyPairs /\ None \notin KeyFiles
       /\ \A f \in {"identity", "private", "trusted"}, g \in {"identity", "private"} :
              \A v : [keyFile EXCEPT ![f] = v][g] = IF f = g THEN v ELSE keyFile[g]
  BY <1>0, KeysAssumption, MigrateAssumption DEF KeysType, KeyFiles
<1>1. CASE UNCHANGED vars
  <2>1. UNCHANGED <<keyFile, proc, mixed, replaced, source, blocks, report>>
    BY <1>1 DEF vars, keyVars, migrateVars, fileVars
  <2> QED
    BY <2>1
       DEF PairInv, KeyWriters, At, Settled, WritesPair, Generated, CopiedPair, Uses, AllGood,
           SigGood, InPlace
<1>2. ASSUME NEW p \in Procs, NEW k \in NewKeys, BeginGenerate(p, k), UNCHANGED <<migrateVars, source>>
      PROVE  PairInv'
  <2>1. /\ ~mixed' => ~mixed /\ KeyWriters = {}
        /\ UNCHANGED <<keyFile, replaced, source, blocks, report>>
        /\ Moves(p, Generating(p, k)) /\ proc[p].op = "none" /\ ~HasKeypair
    BY <1>2 DEF BeginGenerate, migrateVars, fileVars, Moves, Idle
  <2>2. /\ proc'[p] = Generating(p, k) /\ \A q \in Procs \ {p} : proc'[q] = proc[q]
    BY <1>0, <2>1 DEF Moves
  <2> SUFFICES ASSUME ~mixed', ~replaced' PROVE PairInv'
    BY DEF PairInv
  <2>3. keyFile["identity"] = NoFile /\ keyFile["private"] = NoFile
    BY <2>1 DEF PairInv, Settled, HasKeypair
  <2>4. WritesPair(proc[p])' /\ Uses(proc[p])'
    BY <2>1, <2>2, <2>3 DEF Generating, NoProc, WritesPair, Generated, Uses
  <2>5. \A q \in Procs \ {p} : q \notin KeyWriters' /\ WritesPair(proc[q])' /\ Uses(proc[q])'
    <3>1. ASSUME NEW q \in Procs \ {p}
          PROVE  q \notin KeyWriters' /\ WritesPair(proc[q])' /\ Uses(proc[q])'
      <4>1. Uses(proc[q]) /\ q \notin KeyWriters /\ proc'[q] = proc[q]
        BY <2>1, <2>2 DEF PairInv
      <4> QED
        BY <2>1, <4>1 DEF KeyWriters, At, WritesPair, Uses, SigGood, InPlace
    <3> QED
      BY <3>1
  <2>6. AllGood' /\ "signature" \notin report'
    BY <2>1 DEF PairInv, AllGood, SigGood, InPlace
  <2>7. p \in KeyWriters' /\ \A q, r \in KeyWriters' : q = r
    BY <2>2, <2>5 DEF KeyWriters, Generating, NoProc
  <2>8. \A q \in Procs : WritesPair(proc[q])' /\ Uses(proc[q])'
    BY <2>4, <2>5
  <2> QED
    BY <2>6, <2>7, <2>8 DEF PairInv
<1>3. ASSUME NEW p \in Procs, NEW force \in BOOLEAN, BeginMigrate(p, force) PROVE PairInv'
  <2> DEFINE x == [NoProc EXCEPT !.op = "migrate", !.step = "keys", !.todo = Copied, !.run = runs']
  <2>1. /\ ~mixed' => ~mixed /\ KeyWriters = {} /\ source.keys["identity"] = source.keys["private"]
        /\ UNCHANGED <<keyFile, replaced, source, blocks, report>>
        /\ Moves(p, x) /\ proc[p].op = "none"
    BY <1>3 DEF BeginMigrate, Moves, Idle, fileVars
  <2>2. /\ proc'[p] = x /\ x.op = "migrate" /\ x.step = "keys" /\ x.todo = Copied /\ x.key = None /\ x.bad = {}
        /\ \A q \in Procs \ {p} : proc'[q] = proc[q]
    BY <1>0, <2>1 DEF Moves, NoProc
  <2> HIDE DEF x
  <2> SUFFICES ASSUME ~mixed', ~replaced' PROVE PairInv'
    BY DEF PairInv
  <2>3. Settled /\ source.keys["private"] = source.keys["identity"]
    BY <2>1 DEF PairInv
  <2>30. \A f \in {"identity", "private"} : Has(Copied, f) <=> source.keys[f] # NoFile
    BY <1>0, CopiedList DEF Values, KeyFiles
  <2>4. WritesPair(proc[p])' /\ Uses(proc[p])'
    <3>1. CopiedPair(proc[p])'
      BY <1>00, <2>1, <2>2, <2>3, <2>30 DEF CopiedPair, Settled, KeyFiles
    <3> QED
      BY <2>2, <3>1 DEF WritesPair, Uses
  <2>5. \A q \in Procs \ {p} : q \notin KeyWriters' /\ WritesPair(proc[q])' /\ Uses(proc[q])'
    <3>1. ASSUME NEW q \in Procs \ {p}
          PROVE  q \notin KeyWriters' /\ WritesPair(proc[q])' /\ Uses(proc[q])'
      <4>1. Uses(proc[q]) /\ q \notin KeyWriters /\ proc'[q] = proc[q]
        BY <2>1, <2>2 DEF PairInv
      <4> QED
        BY <2>1, <4>1 DEF KeyWriters, At, WritesPair, Uses, SigGood, InPlace
    <3> QED
      BY <3>1
  <2>6. AllGood' /\ "signature" \notin report'
    BY <2>1 DEF PairInv, AllGood, SigGood, InPlace
  <2>7. p \in KeyWriters' /\ \A q, r \in KeyWriters' : q = r
    BY <2>2, <2>5 DEF KeyWriters, At
  <2>8. \A q \in Procs : WritesPair(proc[q])' /\ Uses(proc[q])'
    BY <2>4, <2>5
  <2> QED
    BY <2>6, <2>7, <2>8 DEF PairInv
<1>4. ASSUME NEW p \in Procs, WriteIdentity(p), UNCHANGED <<migrateVars, source>> PROVE PairInv'
  <2> SUFFICES ASSUME ~mixed', ~replaced' PROVE PairInv'
    BY DEF PairInv
  <2>1. /\ UNCHANGED <<mixed, replaced, source, blocks, report>>
        /\ proc[p].op = "generate" /\ proc[p].step = "identity" /\ p \in KeyWriters /\ proc[p].key \in KeyPairs
        /\ keyFile'["identity"] = proc[p].key /\ keyFile'["private"] = keyFile["private"]
    BY <1>0, <1>00, <1>4 DEF WriteIdentity, At, migrateVars, fileVars, KeyWriters, Task
  <2>2. /\ proc'[p].op = "generate" /\ proc'[p].step = "open" /\ proc'[p].key = proc[p].key /\ proc'[p].bad = proc[p].bad
        /\ \A q \in Procs \ {p} : proc'[q] = proc[q]
    BY <1>0, <1>4, <2>1 DEF WriteIdentity, Step, ProcRecord
  <2>3. keyFile["identity"] = NoFile /\ keyFile["private"] = NoFile
    BY <2>1 DEF PairInv, WritesPair, Generated
  <2>4. \A k : InPlace(k) => InPlace(k)'
    BY <1>00, <2>3 DEF InPlace
  <2>5. WritesPair(proc[p])' /\ p \in KeyWriters'
    BY <2>1, <2>2, <2>3 DEF WritesPair, Generated, KeyWriters
  <2> QED
    BY <2>1, <2>2, <2>4, <2>5, PairWritten DEF PairStay
<1>5. ASSUME NEW p \in Procs, OpenPrivate(p), UNCHANGED <<migrateVars, source>> PROVE PairInv'
  <2> SUFFICES ASSUME ~mixed', ~replaced' PROVE PairInv'
    BY DEF PairInv
  <2>1. /\ UNCHANGED <<mixed, replaced, source, blocks, report>>
        /\ proc[p].op = "generate" /\ proc[p].step = "open" /\ p \in KeyWriters
        /\ keyFile'["identity"] = keyFile["identity"] /\ keyFile'["private"] = Torn
    BY <1>0, <1>00, <1>5 DEF OpenPrivate, At, migrateVars, fileVars, KeyWriters
  <2>2. /\ proc'[p].op = "generate" /\ proc'[p].step = "private" /\ proc'[p].key = proc[p].key /\ proc'[p].bad = proc[p].bad
        /\ \A q \in Procs \ {p} : proc'[q] = proc[q]
    BY <1>0, <1>5, <2>1 DEF OpenPrivate, Step, ProcRecord
  <2>3. keyFile["identity"] = proc[p].key
    BY <2>1 DEF PairInv, WritesPair, Generated
  <2>4. \A k : InPlace(k) => InPlace(k)'
    BY <2>1 DEF InPlace
  <2>5. WritesPair(proc[p])' /\ p \in KeyWriters'
    BY <2>1, <2>2, <2>3 DEF WritesPair, Generated, KeyWriters
  <2> QED
    BY <2>1, <2>2, <2>4, <2>5, PairWritten DEF PairStay
<1>6. ASSUME NEW p \in Procs, WritePrivate(p), UNCHANGED <<migrateVars, source>> PROVE PairInv'
  <2> SUFFICES ASSUME ~mixed', ~replaced' PROVE PairInv'
    BY DEF PairInv
  <2>1. /\ UNCHANGED <<mixed, replaced, source, blocks, report>>
        /\ proc[p].op = "generate" /\ proc[p].step = "private" /\ p \in KeyWriters /\ proc[p].key \in KeyPairs
        /\ keyFile'["identity"] = keyFile["identity"] /\ keyFile'["private"] = proc[p].key
    BY <1>0, <1>00, <1>6 DEF WritePrivate, At, migrateVars, fileVars, KeyWriters, Task
  <2>2. /\ proc'[p].op = "none" /\ proc'[p].bad = {}
        /\ \A q \in Procs \ {p} : proc'[q] = proc[q]
    BY <1>0, <1>6 DEF WritePrivate, Return, NoProc
  <2>3. keyFile["identity"] = proc[p].key
    BY <2>1 DEF PairInv, WritesPair, Generated
  <2>4. \A k : InPlace(k) => InPlace(k)'
    BY <2>1 DEF InPlace
  <2>5. Settled' /\ p \notin KeyWriters'
    BY <1>00, <2>1, <2>2, <2>3 DEF Settled, KeyWriters, At
  <2> QED
    BY <2>1, <2>2, <2>4, <2>5, PairWritten DEF PairStay
<1>7. ASSUME NEW p \in Procs, Proceed(p), proc[p].step = "keys" PROVE PairInv'
  <2> SUFFICES ASSUME ~mixed', ~replaced' PROVE PairInv'
    BY DEF PairInv
  <2>1. /\ UNCHANGED <<keyFile, mixed, replaced, source, blocks, report>>
        /\ proc[p].op = "migrate" /\ proc[p].todo = <<>> /\ p \in KeyWriters
    BY <1>7 DEF Proceed, fileVars, rest, KeyWriters, At
  <2>2. proc[p].step \in OpSteps["migrate"] \ {"audit"} /\ source \in Sources
    BY <1>0, <1>7 DEF Values, OpSteps
  <2>3. AfterStep(proc[p].step) # "keys"
    BY <2>2, NextStep DEF OpSteps
  <2>4. /\ proc'[p].op = "migrate" /\ proc'[p].step # "keys" /\ proc'[p].bad = proc[p].bad
        /\ \A q \in Procs \ {p} : proc'[q] = proc[q]
    BY <1>0, <1>7, <2>1, <2>3 DEF Proceed, ProcRecord
  <2>5. \A k : InPlace(k) => InPlace(k)'
    BY <2>1 DEF InPlace
  <2>6. CopiedPair(proc[p])
    BY <1>7, <2>1 DEF PairInv, WritesPair
  <2>7. ~Has(proc[p].todo, "identity") /\ ~Has(proc[p].todo, "private")
    BY <2>1 DEF Has
  <2>8. source.keys["identity"] \in {NoFile} \cup KeyPairs
    BY <2>2, SourceType
  <2>9. Settled
    BY <1>00, <2>6, <2>7, <2>8 DEF CopiedPair, Settled
  <2>10. Settled' /\ p \notin KeyWriters'
    BY <2>1, <2>4, <2>9 DEF Settled, KeyWriters, At
  <2> QED
    BY <2>1, <2>4, <2>5, <2>10, PairWritten DEF PairStay
<1>8. ASSUME NEW p \in Procs, CopyKey(p) PROVE PairInv'
  <2> SUFFICES ASSUME ~mixed', ~replaced' PROVE PairInv'
    BY DEF PairInv
  <2> DEFINE f == Head(proc[p].todo)
             pair == source.keys["identity"]
             opens == proc[p].key = None
  <2>1. /\ UNCHANGED <<mixed, source, blocks, report>> /\ ~mixed /\ ~replaced
        /\ proc[p].op = "migrate" /\ proc[p].step = "keys" /\ proc[p].todo # <<>> /\ p \in KeyWriters
    BY <1>8 DEF CopyKey, At, fileVars, KeyWriters
  <2>2. /\ f \in {"identity", "private", "trusted"} /\ source.keys[f] # NoFile
        /\ Has(proc[p].todo, f) /\ \A g \in {"identity", "private"} : Has(Tail(proc[p].todo), g) <=> Has(proc[p].todo, g) /\ g # f
        /\ f = "private" => ~Has(proc[p].todo, "identity")
        /\ f = "trusted" => ~Has(proc[p].todo, "identity") /\ ~Has(proc[p].todo, "private")
        /\ opens \/ proc[p].key = f
    BY <1>0, <2>1, KeyTodo DEF Task, KeyFiles
  <2>3. CopiedPair(proc[p])
    BY <2>1 DEF PairInv, WritesPair
  <2>4. pair \in {NoFile} \cup KeyPairs
    BY <1>0, SourceType DEF Values
  <2>5. /\ proc'[p].op = "migrate" /\ proc'[p].step = "keys" /\ proc'[p].bad = proc[p].bad
        /\ \A q \in Procs \ {p} : proc'[q] = proc[q]
        /\ opens => proc'[p].key = f /\ proc'[p].todo = proc[p].todo
        /\ ~opens => proc'[p].key = None /\ proc'[p].todo = Tail(proc[p].todo)
    <3>1. CASE opens
      BY <1>0, <1>8, <2>1, <3>1 DEF CopyKey, ProcRecord
    <3>2. CASE ~opens
      BY <1>0, <1>8, <2>1, <3>2 DEF CopyKey, ProcRecord
    <3> QED
      BY <3>1, <3>2
  <2>6. /\ opens => keyFile' = [keyFile EXCEPT ![f] = Torn] /\ (f # "trusted" => keyFile[f] \in Lost \cup {source.keys[f]})
        /\ ~opens => keyFile' = [keyFile EXCEPT ![f] = source.keys[f]]
    BY <1>8 DEF CopyKey
  <2>7. p \in KeyWriters'
    BY <2>5 DEF KeyWriters, At
  <2>8. PairStay(p)
    BY <2>1, <2>5 DEF PairStay
  <2> HIDE DEF f, opens
  <2>9. CASE f = "identity"
    <3>1. keyFile'["private"] = keyFile["private"] /\ keyFile'["identity"] = IF opens THEN Torn ELSE pair
      BY <1>00, <2>2, <2>6, <2>9
    <3>2. CASE opens
      <4>1. keyFile["identity"] = keyFile["private"] /\ keyFile["private"] # Torn /\ keyFile["identity"] \in {NoFile, pair}
        BY <1>00, <2>2, <2>3, <2>6, <2>9, <3>2 DEF CopiedPair, KeyFiles, Lost, opens
      <4>2. \A k : InPlace(k) => InPlace(k)'
        BY <1>00, <2>1, <3>1, <3>2, <4>1 DEF InPlace
      <4>3. CopiedPair(proc[p])'
        BY <1>00, <2>1, <2>2, <2>3, <2>4, <2>5, <2>9, <3>1, <3>2, <4>1 DEF CopiedPair
      <4> QED
        BY <2>1, <2>5, <2>7, <2>8, <4>2, <4>3, PairWritten DEF WritesPair
    <3>3. CASE ~opens
      <4>1. keyFile["identity"] = Torn /\ keyFile["private"] \in {NoFile, pair}
        BY <2>2, <2>3, <2>9, <3>3 DEF CopiedPair
      <4>2. \A k : InPlace(k) => InPlace(k)'
        BY <1>00, <2>1, <3>1, <3>3, <4>1 DEF InPlace
      <4>3. CopiedPair(proc[p])'
        BY <1>00, <2>1, <2>2, <2>3, <2>4, <2>5, <2>9, <3>1, <3>3, <4>1 DEF CopiedPair, KeyFiles
      <4> QED
        BY <2>1, <2>5, <2>7, <2>8, <4>2, <4>3, PairWritten DEF WritesPair
    <3> QED
      BY <3>2, <3>3
  <2>10. CASE f = "private"
    <3>1. keyFile'["identity"] = keyFile["identity"] /\ keyFile'["private"] = IF opens THEN Torn ELSE pair
      BY <1>00, <2>2, <2>3, <2>6, <2>10 DEF CopiedPair
    <3>2. \A k : InPlace(k) => InPlace(k)'
      BY <2>1, <3>1 DEF InPlace
    <3>3. CopiedPair(proc[p])'
      BY <1>00, <2>1, <2>2, <2>3, <2>4, <2>5, <2>10, <3>1 DEF CopiedPair, KeyFiles
    <3> QED
      BY <2>1, <2>5, <2>7, <2>8, <3>2, <3>3, PairWritten DEF WritesPair
  <2>11. CASE f = "trusted"
    <3>1. keyFile'["identity"] = keyFile["identity"] /\ keyFile'["private"] = keyFile["private"]
      BY <1>00, <2>2, <2>6, <2>11
    <3>2. \A k : InPlace(k) => InPlace(k)'
      BY <2>1, <3>1 DEF InPlace
    <3>3. CopiedPair(proc[p])'
      BY <1>00, <2>1, <2>2, <2>3, <2>4, <2>5, <2>11, <3>1 DEF CopiedPair, KeyFiles
    <3> QED
      BY <2>1, <2>5, <2>7, <2>8, <3>2, <3>3, PairWritten DEF WritesPair
  <2> QED
    BY <2>2, <2>9, <2>10, <2>11
<1>9. ASSUME NEW p \in Procs, Die(p), p \in KeyWriters PROVE PairInv'
  BY <1>9 DEF Die, PairInv
<1>10. ASSUME NEW p \in Procs, PairFrame(p) PROVE PairInv'
  BY <1>10, PairUntouched
<1> QED
  BY <1>1, <1>2, <1>3, <1>4, <1>5, <1>6, <1>7, <1>8, <1>9, <1>10, ReadingFrames, FileFrames
     DEF Next, KeysStep, Opens

------------------------------------------------------------------------------
(* Blocks and their hashes. *)

(* The hash a block has as long as no run dates its learnings anew.        *)
Canon(b) == IF b \in source.undated THEN <<b, 1>> ELSE <<b, 0>>
Found(e) == e.id \in DOMAIN blocks /\ (stale \/ e.hash = Canon(e.id))
AllFound(es) == \A i \in 1 .. Len(es) : Found(es[i])
HashesGood == \A b \in DOMAIN blocks : stale \/ blocks[b].hash = Canon(b)
NothingBad(bad) == "missing" \notin bad /\ ("mismatch" \in bad => stale)

(* What a process knows of the chain it extends, verifies or transcribes.  *)
Follows(x) ==
    /\ x.op = "append" => AllFound(x.held) /\ (x.step \in {"index", "object", "register"} => x.block \in DOMAIN blocks)
    /\ x.op = "verify" => AllFound(x.todo)
    /\ x.op = "migrate" =>
          /\ source.undated # {} => stale \/ x.run = 1
          /\ \A i \in 1 .. Len(Transcribed) :
                \/ x.step = "keys" \/ Transcribed[i] \in DOMAIN blocks
                \/ x.step = "blocks" /\ Has(x.todo, Transcribed[i])
    /\ NothingBad(x.bad)

ChainInv ==
    /\ index # NoFile => AllFound(index)
    /\ HashesGood
    /\ runs > 1 /\ source.undated # {} => stale
    /\ \A p \in Procs : Follows(proc[p])
    /\ NothingBad(report)

(* Blocks are never removed, so that what is found is found again.         *)
Grows == UNCHANGED source /\ DOMAIN blocks \subseteq DOMAIN blocks' /\ (stale => stale')

LEMMA StillFound ==
    ASSUME Grows
    PROVE  /\ \A e : Found(e) => Found(e)'
           /\ \A es : AllFound(es) => AllFound(es)'
           /\ \A bad : NothingBad(bad) => NothingBad(bad)'
           /\ UNCHANGED Transcribed
<1>1. ASSUME NEW e, Found(e) PROVE Found(e)'
  BY <1>1 DEF Grows, Found, Canon
<1>2. \A es : AllFound(es) => AllFound(es)'
  BY <1>1 DEF AllFound
<1>3. \A bad : NothingBad(bad) => NothingBad(bad)'
  BY DEF Grows, NothingBad
<1>4. UNCHANGED Transcribed
  BY DEF Grows, Transcribed, HaveFiles
<1> QED
  BY <1>1, <1>2, <1>3, <1>4

LEMMA ChainMoves ==
    ASSUME TypeInv, ChainInv, NEW p \in Procs, Grows, \A q \in Procs \ {p} : proc'[q] = proc[q],
           index' # NoFile => AllFound(index)', HashesGood', runs' > 1 /\ source.undated # {} => stale',
           Follows(proc[p])', NothingBad(report)'
    PROVE  ChainInv'
<1>1. ASSUME NEW q \in Procs \ {p} PROVE Follows(proc[q])'
  <2>1. Follows(proc[q]) /\ proc'[q] = proc[q] /\ source' = source
    BY DEF ChainInv, Grows
  <2>2. (proc[q].op = "append" \/ proc[q].op = "verify") => Follows(proc[q])'
    BY <2>1, StillFound DEF Follows, Grows
  <2>3. proc[q].op = "migrate" => Follows(proc[q])'
    BY <2>1, StillFound DEF Follows, Grows
  <2>4. proc[q].op \notin {"append", "verify", "migrate"} => Follows(proc[q])'
    BY <2>1, StillFound DEF Follows
  <2> QED
    BY <2>2, <2>3, <2>4
<1> QED
  BY <1>1 DEF ChainInv, Grows

(* A step that leaves the blocks and the index alone.                      *)
LEMMA ChainStays ==
    ASSUME TypeInv, ChainInv, NEW p \in Procs, UNCHANGED <<source, blocks, index, runs, stale, report>>,
           \A q \in Procs \ {p} : proc'[q] = proc[q],
           Follows(proc'[p])
    PROVE  ChainInv'
<1>1. Grows
  BY DEF Grows
<1>2. (index' # NoFile => AllFound(index)') /\ HashesGood' /\ NothingBad(report)'
  BY DEF ChainInv, AllFound, Found, HashesGood, Canon, NothingBad
<1>3. UNCHANGED Transcribed
  BY <1>1, StillFound
<1>4. Follows(proc[p])'
  BY <1>3 DEF Follows, AllFound, Found, Canon, NothingBad
<1> QED
  BY <1>1, <1>2, <1>4, ChainMoves DEF ChainInv

LEMMA HasTail ==
    ASSUME NEW S, NEW s \in Seq(S), s # <<>>, NEW e, Has(s, e)
    PROVE  e = Head(s) \/ Has(Tail(s), e)
<1>1. PICK i \in 1 .. Len(s) : s[i] = e
  BY DEF Has
<1>2. Len(s) \in Nat /\ Len(s) > 0 /\ Head(s) = s[1] /\ Len(Tail(s)) = Len(s) - 1
      /\ \A j \in 1 .. Len(s) - 1 : Tail(s)[j] = s[j + 1]
  OBVIOUS
<1>3. CASE i = 1
  BY <1>1, <1>2, <1>3
<1>4. CASE i > 1
  <2>1. i - 1 \in 1 .. Len(s) - 1 /\ Tail(s)[i - 1] = e
    BY <1>1, <1>2, <1>4
  <2> QED
    BY <1>2, <2>1 DEF Has
<1> QED
  BY <1>1, <1>3, <1>4

LEMMA TailFound ==
    ASSUME NEW es \in Seq(Entry), es # <<>>, AllFound(es)
    PROVE  Found(Head(es)) /\ AllFound(Tail(es))
<1>1. Len(es) \in Nat /\ Len(es) > 0 /\ Head(es) = es[1] /\ Len(Tail(es)) = Len(es) - 1
      /\ \A j \in 1 .. Len(es) - 1 : Tail(es)[j] = es[j + 1]
  OBVIOUS
<1> QED
  BY <1>1 DEF AllFound

LEMMA NewFollows ==
    /\ Follows(NoProc)
    /\ \A p, k, t : Follows(Generating(p, k)) /\ Follows(Trusting(k, t))
BY DEF Follows, NoProc, Generating, Trusting, NothingBad

LEMMA ChainKeySteps ==
    ASSUME TypeInv, ChainInv, NEW p \in Procs, UNCHANGED <<migrateVars, source>>, KeysStep(p)
    PROVE  ChainInv'
<1>0. proc \in [Procs -> ProcRecord] /\ proc[p] \in ProcRecord /\ Task(proc[p])
  BY DEF TypeInv
<1>1. UNCHANGED <<source, blocks, index, runs, stale, report>>
  BY DEF migrateVars, fileVars
<1>2. Follows(proc[p])
  BY DEF ChainInv
<1>3. ASSUME NEW x, Moves(p, x), Follows(x) PROVE ChainInv'
  <2>1. proc'[p] = x /\ \A q \in Procs \ {p} : proc'[q] = proc[q]
    BY <1>0, <1>3 DEF Moves
  <2> QED
    BY <1>1, <1>3, <2>1, ChainStays
<1>4. ASSUME Return(p) PROVE ChainInv'
  BY <1>3, <1>4, NewFollows DEF Return, Moves
<1>5. ASSUME NEW s, Step(p, s), proc[p].op \notin {"append", "migrate"} \/ s \notin {"index", "object", "register"}, proc[p].op # "migrate"
      PROVE  ChainInv'
  <2> DEFINE x == [proc[p] EXCEPT !.step = s]
  <2>1. Moves(p, x) /\ Follows(x)
    BY <1>0, <1>2, <1>5 DEF Step, Moves, ProcRecord, Follows
  <2> QED
    BY <1>3, <2>1
<1>6. ASSUME WriteIdentity(p) \/ OpenPrivate(p) PROVE ChainInv'
  BY <1>5, <1>6 DEF WriteIdentity, OpenPrivate, At
<1>7. ASSUME WritePrivate(p) \/ WriteTrusted(p) PROVE ChainInv'
  BY <1>4, <1>7 DEF WritePrivate, WriteTrusted
<1>8. ASSUME SignId(p) PROVE ChainInv'
  <2>1. proc[p].op = "append"
    BY <1>8 DEF SignId, At
  <2>2. ASSUME NEW k, proc' = [proc EXCEPT ![p].step = "sign", ![p].key = k] PROVE ChainInv'
    <3> DEFINE x == [proc[p] EXCEPT !.step = "sign", !.key = k]
    <3>1. Moves(p, x) /\ Follows(x)
      BY <1>0, <1>2, <2>1, <2>2 DEF Moves, ProcRecord, Follows
    <3> QED
      BY <1>3, <3>1
  <2> QED
    BY <1>4, <1>5, <1>8, <2>1, <2>2 DEF SignId
<1>9. ASSUME Sign(p) PROVE ChainInv'
  <2>1. proc[p].op = "append"
    BY <1>9 DEF Sign, At
  <2>2. ASSUME NEW g, proc' = [proc EXCEPT ![p].step = "block", ![p].sig = g] PROVE ChainInv'
    <3> DEFINE x == [proc[p] EXCEPT !.step = "block", !.sig = g]
    <3>1. Moves(p, x) /\ Follows(x)
      BY <1>0, <1>2, <2>1, <2>2 DEF Moves, ProcRecord, Follows
    <3> QED
      BY <1>3, <3>1
  <2> QED
    BY <1>4, <1>5, <1>9, <2>1, <2>2 DEF Sign
<1>10. ASSUME NEW valid, Judged(p, valid), proc[p].op = "verify", proc[p].step # "block"
       PROVE  ChainInv'
  <2> DEFINE x == [proc[p] EXCEPT !.step = "block", !.sig = None, !.todo = Tail(@),
                                  !.bad = IF valid THEN @ ELSE @ \cup {"signature"}]
  <2>1. proc[p].todo \in Seq(Entry) /\ proc[p].todo # <<>> /\ AllFound(proc[p].todo) /\ NothingBad(proc[p].bad)
    BY <1>0, <1>2, <1>10 DEF Task, Follows
  <2>2. AllFound(Tail(proc[p].todo))
    BY <2>1, TailFound
  <2>3. Moves(p, x) /\ x.op = "verify" /\ x.todo = Tail(proc[p].todo) /\ NothingBad(x.bad)
    BY <1>0, <1>10, <2>1 DEF Judged, Moves, ProcRecord, NothingBad
  <2> HIDE DEF x
  <2>4. Follows(x)
    BY <2>2, <2>3 DEF Follows
  <2> QED
    BY <1>3, <2>3, <2>4
<1>11. ASSUME LookupOwn(p) PROVE ChainInv'
  BY <1>4, <1>5, <1>11 DEF LookupOwn, At
<1>12. ASSUME LookupPublic(p) PROVE ChainInv'
  BY <1>4, <1>5, <1>10, <1>12 DEF LookupPublic, At
<1>13. ASSUME LookupTrusted(p) PROVE ChainInv'
  BY <1>4, <1>5, <1>10, <1>13 DEF LookupTrusted, At
<1>14. ASSUME NEW k \in NewKeys, BeginGenerate(p, k) PROVE ChainInv'
  BY <1>3, <1>14, NewFollows DEF BeginGenerate, Moves
<1>15. ASSUME NEW k \in NewKeys, BeginTrust(p, k) PROVE ChainInv'
  BY <1>3, <1>15, NewFollows DEF BeginTrust, Moves
<1> QED
  BY <1>6, <1>7, <1>8, <1>9, <1>11, <1>12, <1>13, <1>14, <1>15 DEF KeysStep

LEMMA ChainFileSteps ==
    ASSUME TypeInv, LaidOut, ChainInv, NEW p \in Procs
    PROVE  /\ (\E force \in BOOLEAN : BeginMigrate(p, force)) => ChainInv'
           /\ Proceed(p) => ChainInv'
           /\ CopyKey(p) => ChainInv'
           /\ TranscribeBlock(p) => ChainInv'
           /\ WriteIndex(p) => ChainInv'
           /\ TranscribeReinforcements(p) => ChainInv'
           /\ TranscribeObject(p) => ChainInv'
           /\ WriteAudit(p) \/ Die(p) => ChainInv'
           /\ (\E b \in NewBlocks, sign \in BOOLEAN : BeginAppend(p, b, sign)) => ChainInv'
           /\ AppendBlock(p) => ChainInv'
           /\ AppendIndex(p) => ChainInv'
           /\ StoreLearning(p) \/ Register(p) => ChainInv'
           /\ BeginVerify(p) => ChainInv'
           /\ VerifyBlock(p) => ChainInv'
           /\ VerifyEnds(p) => ChainInv'
           /\ Opens(p) => ChainInv'
<1>0. Values /\ FilesType /\ Counts /\ source \in Sources /\ proc \in [Procs -> ProcRecord] /\ proc[p] \in ProcRecord /\ Task(proc[p])
  BY DEF TypeInv, Values
<1>1. Follows(proc[p]) /\ HashesGood /\ NothingBad(report) /\ (index # NoFile => AllFound(index))
      /\ (runs > 1 /\ source.undated # {} => stale)
  BY DEF ChainInv
<1> DEFINE Same == UNCHANGED <<source, blocks, index, runs, stale, report>>
<1>2. ASSUME NEW x, Moves(p, x) PROVE proc'[p] = x /\ \A q \in Procs \ {p} : proc'[q] = proc[q]
  BY <1>0, <1>2 DEF Moves
<1>3. ASSUME NEW x, Moves(p, x), Follows(x), Same PROVE ChainInv'
  BY <1>2, <1>3, ChainStays
<1>4. ASSUME Return(p), Same PROVE ChainInv'
  BY <1>3, <1>4, NewFollows DEF Return, Moves
(* The ledger is opened. *)
<1>5. AllFound(<<>>)
  BY DEF AllFound
<1>6. ASSUME HasLayout PROVE AllFound(index)
  BY <1>1, <1>6 DEF HasLayout
<1>7. ASSUME NEW x, Moves(p, x), index' = index \/ index' = <<>>, UNCHANGED <<source, blocks, report>>, stale => stale', runs' > 1 /\ source.undated # {} => stale',
             Follows(proc[p])'
      PROVE  ChainInv'
  <2>1. Grows
    BY <1>7 DEF Grows
  <2>2. index' # NoFile => AllFound(index)'
    BY <1>1, <1>7, <2>1 DEF AllFound, Found, Canon, Grows
  <2>3. HashesGood' /\ NothingBad(report)'
    BY <1>1, <1>7 DEF HashesGood, NothingBad, Canon
  <2>4. runs' > 1 /\ source'.undated # {} => stale'
    BY <1>7
  <2> QED
    BY <1>2, <1>7, <2>4, <2>1, <2>2, <2>3, ChainMoves
<1>8. ASSUME NEW force \in BOOLEAN, BeginMigrate(p, force) PROVE ChainInv'
  <2> DEFINE x == [NoProc EXCEPT !.op = "migrate", !.step = "keys", !.todo = Copied, !.run = runs']
  <2>1. /\ Moves(p, x) /\ UNCHANGED <<source, index, blocks, report>>
        /\ runs' = runs + 1 /\ runs \in Nat
    BY <1>0, <1>8 DEF BeginMigrate, Moves, Counts, fileVars
  <2>2. (stale => stale') /\ (runs > 0 /\ source.undated # {} => stale')
    BY <1>8, Zenon DEF BeginMigrate
  <2>3. x.op = "migrate" /\ x.step = "keys" /\ x.run = runs' /\ x.bad = {}
    BY DEF NoProc
  <2> HIDE DEF x
  <2>4. source.undated # {} => stale' \/ x.run = 1
    BY <2>1, <2>3, <2>2
  <2>5. runs' > 1 /\ source.undated # {} => stale'
    BY <2>1, <2>2
  <2>6. Follows(proc[p])'
    <3>1. proc'[p] = x
      BY <1>2, <2>1
    <3> QED
      BY <2>1, <2>3, <2>4, <3>1 DEF Follows, NothingBad
  <2> QED
    BY <1>7, <2>1, <2>6, <2>2, <2>5
<1>9. ASSUME NEW b \in NewBlocks, NEW sign \in BOOLEAN, BeginAppend(p, b, sign) PROVE ChainInv'
  <2> DEFINE s == IF sign THEN "keyId" ELSE "block"
             x == [NoProc EXCEPT !.op = "append", !.block = b, !.held = index, !.step = s]
  <2>1. Moves(p, x) /\ HasLayout /\ UNCHANGED <<source, index, blocks, report, stale, runs>>
    BY <1>9 DEF BeginAppend, Moves, fileVars
  <2>2. x.op = "append" /\ x.step \in {"keyId", "block"} /\ x.held = index /\ x.bad = {}
    BY DEF NoProc
  <2> HIDE DEF x
  <2>3. Follows(proc[p])'
    <3>1. proc'[p] = x
      BY <1>2, <2>1
    <3>2. AllFound(index)'
      BY <1>6, <2>1 DEF AllFound, Found, Canon
    <3> QED
      BY <2>1, <2>2, <3>1, <3>2 DEF Follows, NothingBad
  <2> QED
    BY <1>1, <1>7, <2>1, <2>3
<1>10. ASSUME BeginVerify(p) PROVE ChainInv'
  <2> DEFINE x == [NoProc EXCEPT !.op = "verify", !.step = "block", !.todo = index]
  <2>1. Moves(p, x) /\ HasLayout /\ UNCHANGED <<source, index, blocks, report, stale, runs>>
    BY <1>10 DEF BeginVerify, Moves, rest, fileVars
  <2>2. x.op = "verify" /\ x.todo = index /\ x.bad = {}
    BY DEF NoProc
  <2> HIDE DEF x
  <2>3. Follows(proc[p])'
    <3>1. proc'[p] = x
      BY <1>2, <2>1
    <3>2. AllFound(index)'
      BY <1>6, <2>1 DEF AllFound, Found, Canon
    <3> QED
      BY <2>1, <2>2, <3>1, <3>2 DEF Follows, NothingBad
  <2> QED
    BY <1>1, <1>7, <2>1, <2>3
<1>11. ASSUME Proceed(p) PROVE ChainInv'
  <2> DEFINE next == AfterStep(proc[p].step)
             left == IF next = "objects" THEN source.objects ELSE {}
             x == [proc[p] EXCEPT !.step = next, !.todo = WorkOf(next), !.left = left]
  <2>1. proc[p].op = "migrate" /\ proc[p].todo = <<>> /\ proc[p].step \in OpSteps["migrate"] \ {"audit"}
    BY <1>0, <1>11 DEF Proceed, Task, OpSteps
  <2>2. Moves(p, x) /\ x.op = "migrate" /\ x.step = next /\ x.todo = WorkOf(next) /\ x.bad = proc[p].bad /\ x.run = proc[p].run
    BY <1>0, <1>11, <2>1 DEF Proceed, Moves, ProcRecord
  <2>3. Same
    BY <1>11 DEF Proceed, fileVars, rest
  <2>4. proc[p].step = "keys" => next = "blocks" /\ WorkOf(next) = Transcribed /\ Transcribed \in Seq(V2Blocks)
    BY <1>0, <2>1, NextStep
  <2> HIDE DEF x, next
  <2>5. ASSUME NEW i \in 1 .. Len(Transcribed)
        PROVE  x.step = "keys" \/ Transcribed[i] \in DOMAIN blocks \/ (x.step = "blocks" /\ Has(x.todo, Transcribed[i]))
    <3>1. CASE proc[p].step = "keys"
      BY <2>2, <2>4, <3>1 DEF Has
    <3>2. CASE proc[p].step # "keys"
      BY <1>1, <2>1, <3>2 DEF Follows, Has
    <3> QED
      BY <3>1, <3>2
  <2>6. Follows(x)
    BY <1>1, <2>1, <2>2, <2>5 DEF Follows
  <2> QED
    BY <1>3, <2>2, <2>3, <2>6
<1>12. ASSUME CopyKey(p) PROVE ChainInv'
  <2>1. proc[p].op = "migrate" /\ proc[p].step = "keys" /\ Same
    BY <1>12 DEF CopyKey, At, fileVars
  <2>2. PICK k, t : Moves(p, [proc[p] EXCEPT !.key = k, !.todo = t])
    <3>1. CASE proc[p].key = None
      <4>1. Moves(p, [proc[p] EXCEPT !.key = Head(proc[p].todo), !.todo = proc[p].todo])
        BY <1>0, <1>12, <3>1 DEF CopyKey, Moves, ProcRecord
      <4> QED
        BY <4>1
    <3>2. CASE proc[p].key # None
      <4>1. Moves(p, [proc[p] EXCEPT !.key = None, !.todo = Tail(proc[p].todo)])
        BY <1>0, <1>12, <3>2 DEF CopyKey, Moves, ProcRecord
      <4> QED
        BY <4>1
    <3> QED
      BY <3>1, <3>2
  <2> DEFINE x == [proc[p] EXCEPT !.key = k, !.todo = t]
  <2>3. x.op = "migrate" /\ x.step = "keys" /\ x.run = proc[p].run /\ x.bad = proc[p].bad
    BY <1>0, <2>1 DEF ProcRecord
  <2> HIDE DEF x
  <2>4. Follows(x)
    BY <1>1, <2>1, <2>3 DEF Follows
  <2>5. Moves(p, x)
    BY <2>2 DEF x
  <2> QED
    BY <1>3, <2>1, <2>4, <2>5
<1>13. ASSUME TranscribeBlock(p) PROVE ChainInv'
  <2> DEFINE b == Head(proc[p].todo)
             x == [proc[p] EXCEPT !.todo = Tail(@)]
             v == [hash |-> HashOf(b, proc[p].run), sig |-> None]
  <2>1. proc[p].op = "migrate" /\ proc[p].step = "blocks" /\ proc[p].todo # <<>> /\ proc[p].todo \in Seq(V2Blocks)
        /\ UNCHANGED <<source, index, runs, stale, report>>
    BY <1>0, <1>13 DEF TranscribeBlock, At, rest, Task
  <2>2. Moves(p, x) /\ x.op = "migrate" /\ x.step = "blocks" /\ x.todo = Tail(proc[p].todo) /\ x.run = proc[p].run /\ x.bad = proc[p].bad
    BY <1>0, <1>13, <2>1 DEF TranscribeBlock, Done, Moves, ProcRecord
  <2>3. blocks' = [c \in DOMAIN blocks \cup {b} |-> IF c = b THEN v ELSE blocks[c]]
    BY <1>13 DEF TranscribeBlock
  <2>4. stale \/ v.hash = Canon(b)
    BY <1>1, <2>1 DEF Follows, HashOf, Canon
  <2> HIDE DEF x, b, v
  <2>5. DOMAIN blocks' = DOMAIN blocks \cup {b} /\ \A c \in DOMAIN blocks' : blocks'[c] = IF c = b THEN v ELSE blocks[c]
    BY <2>3
  <2>6. Grows
    BY <2>1, <2>5 DEF Grows
  <2>7. HashesGood'
    BY <1>1, <2>1, <2>4, <2>5 DEF HashesGood, Canon
  <2>8. ASSUME NEW i \in 1 .. Len(Transcribed)
        PROVE  Transcribed[i] \in DOMAIN blocks' \/ Has(x.todo, Transcribed[i])
    <3>1. Transcribed[i] \in DOMAIN blocks \/ Has(proc[p].todo, Transcribed[i])
      BY <1>1, <2>1 DEF Follows
    <3>2. Has(proc[p].todo, Transcribed[i]) => Transcribed[i] = b \/ Has(Tail(proc[p].todo), Transcribed[i])
      BY <2>1, HasTail DEF b
    <3> QED
      BY <2>2, <2>5, <3>1, <3>2
  <2>9. Follows(proc[p])'
    <3>1. proc'[p] = x /\ UNCHANGED Transcribed
      BY <1>2, <2>2, <2>6, StillFound
    <3> QED
      BY <1>1, <2>1, <2>2, <2>8, <3>1 DEF Follows, NothingBad
  <2>10. NothingBad(report)' /\ (index' # NoFile => AllFound(index)')
    BY <1>1, <2>1, <2>6, StillFound
  <2> QED
    BY <1>1, <1>2, <2>1, <2>2, <2>6, <2>7, <2>9, <2>10, ChainMoves
<1>14. ASSUME NEW s, NEW t, Moves(p, [proc[p] EXCEPT !.todo = t]), proc[p].op = "migrate", proc[p].step \notin {"keys", "blocks"}
       PROVE  proc'[p].op = "migrate" /\ proc'[p].step = proc[p].step /\ (Follows(proc[p]) => Follows(proc'[p]))
  <2> DEFINE x == [proc[p] EXCEPT !.todo = t]
  <2>1. x.op = "migrate" /\ x.step = proc[p].step /\ x.run = proc[p].run /\ x.bad = proc[p].bad
    BY <1>0, <1>14 DEF ProcRecord
  <2>2. proc'[p] = x
    BY <1>2, <1>14
  <2> HIDE DEF x
  <2> QED
    BY <1>14, <2>1, <2>2 DEF Follows
<1>15. ASSUME Done(p) PROVE Moves(p, [proc[p] EXCEPT !.todo = Tail(proc[p].todo)])
  BY <1>0, <1>15 DEF Done, Moves
<1>16. ASSUME WriteIndex(p) PROVE ChainInv'
  <2>1. proc[p].op = "migrate" /\ proc[p].step = "index" /\ UNCHANGED <<source, blocks, runs, stale, report>> /\ Done(p)
        /\ proc[p].run \in 0 .. MaxRuns
    BY <1>0, <1>16 DEF WriteIndex, At, rest, ProcRecord
  <2>2. \A q \in Procs \ {p} : proc'[q] = proc[q]
    BY <1>2, <1>15, <2>1
  <2>3. Follows(proc'[p])
    BY <1>1, <1>14, <1>15, <2>1
  <2>4. Grows
    BY <2>1 DEF Grows
  <2>5. /\ index' \in Seq(Entry) /\ Len(index') = Len(Transcribed)
        /\ \A i \in 1 .. Len(Transcribed) : index'[i].id = Transcribed[i] /\ index'[i].hash = HashOf(Transcribed[i], proc[p].run)
    BY <1>0, <1>16, <2>1, IndexWritten DEF WriteIndex
  <2>6. AllFound(index)'
    <3>1. ASSUME NEW i \in 1 .. Len(Transcribed) PROVE Found(index'[i])
      <4>1. Transcribed[i] \in DOMAIN blocks
        BY <1>1, <2>1 DEF Follows
      <4>2. stale \/ HashOf(Transcribed[i], proc[p].run) = Canon(Transcribed[i])
        BY <1>1, <2>1 DEF Follows, HashOf, Canon
      <4> QED
        BY <2>5, <4>1, <4>2 DEF Found
    <3>2. AllFound(index')
      BY <2>5, <3>1 DEF AllFound
    <3> QED
      BY <2>4, <3>2, StillFound
  <2>7. HashesGood' /\ NothingBad(report)' /\ Follows(proc[p])'
    BY <1>1, <2>1, <2>3, <2>4, StillFound DEF HashesGood, Canon, NothingBad, Follows, AllFound, Found
  <2> QED
    BY <1>1, <2>1, <2>2, <2>4, <2>6, <2>7, ChainMoves
<1>17. ASSUME TranscribeReinforcements(p) PROVE ChainInv'
  <2>1. proc[p].op = "migrate" /\ proc[p].step = "registered" /\ Same /\ Done(p)
    BY <1>17 DEF TranscribeReinforcements, At, rest
  <2>2. \A q \in Procs \ {p} : proc'[q] = proc[q]
    BY <1>2, <1>15, <2>1
  <2>3. Follows(proc'[p])
    BY <1>1, <1>14, <1>15, <2>1
  <2> QED
    BY <2>1, <2>2, <2>3, ChainStays
<1>18. ASSUME TranscribeObject(p) PROVE ChainInv'
  <2>1. proc[p].op = "migrate" /\ proc[p].step = "objects" /\ Same
    BY <1>18 DEF TranscribeObject, At, rest
  <2>2. PICK k, l : Moves(p, [proc[p] EXCEPT !.key = k, !.left = l])
    <3>1. ASSUME NEW o, proc' = [proc EXCEPT ![p].key = o]
          PROVE  \E k, l : Moves(p, [proc[p] EXCEPT !.key = k, !.left = l])
      <4>1. Moves(p, [proc[p] EXCEPT !.key = o, !.left = proc[p].left])
        BY <1>0, <3>1 DEF Moves, ProcRecord
      <4> QED
        BY <4>1
    <3>2. ASSUME NEW o, proc' = [proc EXCEPT ![p].key = None, ![p].left = @ \ {o}]
          PROVE  \E k, l : Moves(p, [proc[p] EXCEPT !.key = k, !.left = l])
      <4>1. Moves(p, [proc[p] EXCEPT !.key = None, !.left = proc[p].left \ {o}])
        BY <1>0, <3>2 DEF Moves, ProcRecord
      <4> QED
        BY <4>1
    <3> QED
      BY <1>18, <3>1, <3>2 DEF TranscribeObject
  <2> DEFINE x == [proc[p] EXCEPT !.key = k, !.left = l]
  <2>3. x.op = "migrate" /\ x.step = "objects" /\ x.run = proc[p].run /\ x.bad = proc[p].bad
    BY <1>0, <2>1 DEF ProcRecord
  <2> HIDE DEF x
  <2>4. Follows(x)
    BY <1>1, <2>1, <2>3 DEF Follows
  <2>5. Moves(p, x)
    BY <2>2 DEF x
  <2> QED
    BY <1>3, <2>1, <2>4, <2>5
<1>19. ASSUME WriteAudit(p) \/ Die(p) PROVE ChainInv'
  <2>1. Return(p) /\ Same
    BY <1>19 DEF WriteAudit, Die, rest, migrateVars, fileVars
  <2> QED
    BY <1>4, <2>1
<1>20. ASSUME NEW s, Step(p, s) PROVE Moves(p, [proc[p] EXCEPT !.step = s])
  BY <1>0, <1>20 DEF Step, Moves
<1>21. ASSUME AppendBlock(p) PROVE ChainInv'
  <2> DEFINE b == proc[p].block
             v == [hash |-> <<b, 0>>, sig |-> proc[p].sig]
             x == [proc[p] EXCEPT !.step = "index"]
  <2>1. proc[p].op = "append" /\ Step(p, "index") /\ b \in NewBlocks
        /\ UNCHANGED <<source, index, runs, stale, report>>
    BY <1>0, <1>21 DEF AppendBlock, At, rest, Task
  <2>2. Moves(p, x) /\ x.op = "append" /\ x.block = b /\ x.held = proc[p].held /\ x.bad = proc[p].bad
    BY <1>0, <1>20, <2>1 DEF ProcRecord
  <2>3. blocks' = [c \in DOMAIN blocks \cup {b} |-> IF c = b THEN v ELSE blocks[c]]
    BY <1>21 DEF AppendBlock
  <2>4. v.hash = Canon(b)
    BY <1>0, <2>1, SourceType DEF Canon, V2Blocks
  <2> HIDE DEF x, b, v
  <2>5. DOMAIN blocks' = DOMAIN blocks \cup {b} /\ \A c \in DOMAIN blocks' : blocks'[c] = IF c = b THEN v ELSE blocks[c]
    BY <2>3
  <2>6. Grows
    BY <2>1, <2>5 DEF Grows
  <2>7. HashesGood'
    BY <1>1, <2>1, <2>4, <2>5 DEF HashesGood, Canon
  <2>8. Follows(proc[p])'
    <3>1. proc'[p] = x
      BY <1>2, <2>2
    <3>2. proc'[p].held = proc[p].held /\ AllFound(proc[p].held)
      BY <1>1, <2>1, <2>2, <3>1 DEF Follows
    <3>3. AllFound(proc[p].held)'
      BY <2>6, <3>2 DEF AllFound, Found, Canon, Grows
    <3>4. NothingBad(proc[p].bad)'
      BY <1>1, <2>2, <2>6, <3>1 DEF Follows, NothingBad, Grows
    <3> QED
      BY <2>2, <2>5, <3>1, <3>3, <3>4 DEF Follows
  <2>9. NothingBad(report)' /\ (index' # NoFile => AllFound(index)')
    BY <1>1, <2>1, <2>6, StillFound
  <2> QED
    BY <1>1, <1>2, <2>1, <2>2, <2>6, <2>7, <2>8, <2>9, ChainMoves
<1>22. ASSUME AppendIndex(p) PROVE ChainInv'
  <2> DEFINE b == proc[p].block
             e == [id |-> b, hash |-> <<b, 0>>]
             x == [proc[p] EXCEPT !.step = "object"]
  <2>1. proc[p].op = "append" /\ proc[p].step = "index" /\ Step(p, "object") /\ b \in NewBlocks /\ proc[p].held \in Seq(Entry)
        /\ UNCHANGED <<source, blocks, runs, stale, report>>
    BY <1>0, <1>22 DEF AppendIndex, At, rest, Task, ProcRecord
  <2>2. Moves(p, x) /\ x.op = "append" /\ x.block = b /\ x.held = proc[p].held /\ x.bad = proc[p].bad
    BY <1>0, <1>20, <2>1 DEF ProcRecord
  <2>3. AllFound(proc[p].held) /\ b \in DOMAIN blocks
    BY <1>1, <2>1 DEF Follows
  <2>4. Found(e)
    BY <1>0, <2>1, <2>3, SourceType DEF Found, Canon, V2Blocks
  <2>5. index' = Append(proc[p].held, e)
    BY <1>22 DEF AppendIndex
  <2> HIDE DEF x, b, e
  <2>6. AllFound(index')
    BY <2>1, <2>3, <2>4, <2>5 DEF AllFound
  <2>7. Grows
    BY <2>1 DEF Grows
  <2>8. Follows(x)
    BY <1>1, <2>1, <2>2, <2>3 DEF Follows
  <2>9. Follows(proc[p])' /\ AllFound(index)'
    <3>1. proc'[p] = x
      BY <1>2, <2>2
    <3> QED
      BY <2>1, <2>2, <2>6, <2>7, <2>8, <3>1, StillFound DEF Follows
  <2>10. HashesGood' /\ NothingBad(report)'
    BY <1>1, <2>1 DEF HashesGood, Canon, NothingBad
  <2> QED
    BY <1>1, <1>2, <2>1, <2>2, <2>7, <2>9, <2>10, ChainMoves
<1>23. ASSUME StoreLearning(p) PROVE ChainInv'
  <2> DEFINE x == [proc[p] EXCEPT !.step = "register", !.trust = registered]
  <2>1. proc[p].op = "append" /\ proc[p].step = "object" /\ Same
    BY <1>23 DEF StoreLearning, At, rest
  <2>2. Moves(p, x) /\ x.op = "append" /\ x.held = proc[p].held /\ x.block = proc[p].block /\ x.bad = proc[p].bad
    BY <1>0, <1>23, <2>1 DEF StoreLearning, Moves, ProcRecord
  <2> HIDE DEF x
  <2>3. Follows(x)
    BY <1>1, <2>1, <2>2 DEF Follows
  <2> QED
    BY <1>3, <2>1, <2>2, <2>3
<1>24. ASSUME Register(p) PROVE ChainInv'
  BY <1>4, <1>24 DEF Register
<1>25. ASSUME VerifyBlock(p) PROVE ChainInv'
  <2> DEFINE e == Head(proc[p].todo)
             Note(what) == proc' = [proc EXCEPT ![p].todo = Tail(@), ![p].bad = @ \cup what]
             ToKeys == proc' = [proc EXCEPT ![p].step = "own", ![p].sig = blocks[e.id].sig]
  <2>1. proc[p].op = "verify" /\ proc[p].todo # <<>> /\ proc[p].todo \in Seq(Entry) /\ Same
    BY <1>0, <1>25 DEF VerifyBlock, At, rest, fileVars, Task
  <2>2. AllFound(proc[p].todo) /\ NothingBad(proc[p].bad)
    BY <1>1, <2>1 DEF Follows
  <2>3. Found(e) /\ AllFound(Tail(proc[p].todo))
    BY <2>1, <2>2, TailFound
  <2>4. \/ e.id \notin DOMAIN blocks
        \/ e.id \in DOMAIN blocks /\ blocks[e.id].hash # e.hash /\ Note({"mismatch"})
        \/ Note({})
        \/ ToKeys
    <3> HIDE DEF Note, ToKeys, e
    <3> QED
      BY <1>25 DEF VerifyBlock, Note, ToKeys, e
  <2>5. ASSUME e.id \in DOMAIN blocks, blocks[e.id].hash # e.hash PROVE stale
    BY <1>1, <2>3, <2>5 DEF HashesGood, Found
  <2>6. ASSUME NEW what, Note(what), what = {} \/ (what = {"mismatch"} /\ stale) PROVE ChainInv'
    <3> DEFINE x == [proc[p] EXCEPT !.todo = Tail(@), !.bad = @ \cup what]
    <3>1. Moves(p, x) /\ x.op = "verify" /\ x.todo = Tail(proc[p].todo) /\ x.bad = proc[p].bad \cup what
      BY <1>0, <2>1, <2>6 DEF Moves, ProcRecord
    <3> HIDE DEF x
    <3>2. Follows(x)
      BY <2>2, <2>3, <2>6, <3>1 DEF Follows, NothingBad
    <3> QED
      BY <1>3, <2>1, <3>1, <3>2
  <2>7. ASSUME ToKeys PROVE ChainInv'
    <3> DEFINE g == blocks[e.id].sig
               x == [proc[p] EXCEPT !.step = "own", !.sig = g]
    <3> HIDE DEF g
    <3>1. Moves(p, x) /\ x.op = "verify" /\ x.todo = proc[p].todo /\ x.bad = proc[p].bad
      BY <1>0, <2>1, <2>7 DEF Moves, ProcRecord, g
    <3> HIDE DEF x
    <3>2. Follows(x)
      BY <2>2, <3>1 DEF Follows
    <3> QED
      BY <1>3, <2>1, <3>1, <3>2
  <2> HIDE DEF Note, ToKeys, e
  <2> QED
    BY <2>3, <2>4, <2>5, <2>6, <2>7 DEF Found
<1>26. ASSUME VerifyEnds(p) PROVE ChainInv'
  <2>1. Return(p) /\ proc[p].op = "verify" /\ UNCHANGED <<source, blocks, index, runs, stale>> /\ report' = report \cup proc[p].bad
    BY <1>26 DEF VerifyEnds, At, fileVars
  <2>2. Grows /\ NothingBad(report)'
    BY <1>1, <2>1 DEF Grows, Follows, NothingBad
  <2>3. proc'[p] = NoProc /\ \A q \in Procs \ {p} : proc'[q] = proc[q]
    BY <1>0, <2>1 DEF Return
  <2>4. Follows(proc[p])'
    BY <2>3, NewFollows DEF Follows, NoProc, NothingBad
  <2>5. HashesGood' /\ (index' # NoFile => AllFound(index)')
    BY <1>1, <2>1, <2>2, StillFound DEF HashesGood, Canon
  <2> QED
    BY <1>1, <2>1, <2>2, <2>3, <2>4, <2>5, ChainMoves
<1>27. ASSUME Opens(p) PROVE ChainInv'
  <2>1. UNCHANGED <<source, blocks, report, stale, runs>> /\ (index' = index \/ index' = <<>>)
    BY <1>27, OpenSteps
  <2>2. PICK x \in {NoProc, Opener("index"), Opener("registered")} : Moves(p, x)
    BY <1>27, OpenSteps
  <2>3. proc'[p].op \in {"none", "open"} /\ proc'[p].bad = {}
    BY <1>0, <1>27, OpenMoves
  <2>4. Follows(proc[p])'
    BY <2>3 DEF Follows, NothingBad
  <2> QED
    BY <1>1, <1>7, <2>1, <2>2, <2>4
<1> QED
  BY <1>8, <1>9, <1>10, <1>11, <1>12, <1>13, <1>16, <1>17, <1>18, <1>19, <1>21, <1>22, <1>23, <1>24,
     <1>25, <1>26, <1>27

LEMMA ChainStep == TypeInv /\ LaidOut /\ ChainInv /\ [Next]_vars => ChainInv'
<1> SUFFICES ASSUME TypeInv, LaidOut, ChainInv, [Next]_vars PROVE ChainInv'
  OBVIOUS
<1>1. CASE UNCHANGED vars
  <2>1. UNCHANGED <<proc, source, blocks, index, runs, stale, report>>
    BY <1>1 DEF vars, keyVars, migrateVars, fileVars
  <2>2. Grows
    BY <2>1 DEF Grows
  <2>3. \A p \in Procs : Follows(proc[p])'
    <3>1. ASSUME NEW p \in Procs PROVE Follows(proc[p])'
      <4>1. Follows(proc[p])
        BY DEF ChainInv
      <4> QED
        BY <2>1, <2>2, <4>1, StillFound DEF Follows
    <3> QED
      BY <3>1
  <2> QED
    BY <2>1, <2>2, <2>3, StillFound DEF ChainInv, HashesGood, Canon
<1>2. ASSUME Next PROVE ChainInv'
  BY <1>2, ChainKeySteps, ChainFileSteps DEF Next, Opens
<1> QED
  BY <1>1, <1>2

------------------------------------------------------------------------------
(* What a migration has copied. *)

(* The keys and the objects of the source that a process is done with.     *)
Copies(x) ==
    x.op = "migrate" =>
        /\ \A f \in KeyFiles : source.keys[f] # NoFile /\ ~(x.step = "keys" /\ Has(x.todo, f)) => keyFile[f] # NoFile
        /\ x.step \in {"objects", "audit"} => \A o \in source.objects \ x.left : objects[o] # NoFile
AllCopied ==
    /\ \A f \in KeyFiles : source.keys[f] # NoFile => keyFile[f] # NoFile
    /\ \A o \in source.objects : objects[o] # NoFile

CopyInv == (audit => AllCopied) /\ \A p \in Procs : Copies(proc[p])

(* A file that is there may be torn by a step, but is not removed.         *)
StayThere ==
    /\ UNCHANGED source
    /\ \A f \in KeyFiles : keyFile[f] # NoFile => keyFile'[f] # NoFile
    /\ \A o \in Objects : objects[o] # NoFile => objects'[o] # NoFile

LEMMA KeysStayThere ==
    ASSUME TypeInv, NEW p \in Procs, UNCHANGED <<migrateVars, source>>, KeysStep(p)
    PROVE  StayThere /\ audit' = audit
<1>0. KeysType /\ Task(proc[p])
  BY DEF TypeInv, Values
<1>1. UNCHANGED <<source, objects, audit>>
  BY DEF migrateVars, fileVars
<1>2. \A f \in KeyFiles, g \in KeyFiles : \A v : [keyFile EXCEPT ![f] = v][g] = IF f = g THEN v ELSE keyFile[g]
  BY <1>0 DEF KeysType
<1>3. {"identity", "private", "trusted"} \subseteq KeyFiles
  BY DEF KeyFiles
<1>4. CASE WriteIdentity(p) \/ OpenPrivate(p) \/ WritePrivate(p)
  <2>1. proc[p].key \in KeyPairs
    BY <1>0, <1>4 DEF WriteIdentity, OpenPrivate, WritePrivate, At, Task
  <2>2. \E f \in KeyFiles, v \in {Torn} \cup KeyPairs : keyFile' = [keyFile EXCEPT ![f] = v]
    BY <1>3, <1>4, <2>1 DEF WriteIdentity, OpenPrivate, WritePrivate
  <2> QED
    BY <1>1, <1>2, <2>2, KeysAssumption DEF StayThere
<1>5. CASE WriteTrusted(p)
  <2>1. keyFile' = [keyFile EXCEPT !["trusted"] = proc[p].trust \cup {proc[p].key}]
        /\ proc[p].trust \cup {proc[p].key} \in SUBSET KeyPairs
    BY <1>0, <1>5 DEF WriteTrusted, At, Task
  <2> QED
    BY <1>1, <1>2, <1>3, <2>1, KeysAssumption DEF StayThere
<1>6. CASE SignId(p) \/ Sign(p) \/ LookupOwn(p) \/ LookupPublic(p) \/ LookupTrusted(p)
  BY <1>1, <1>6 DEF SignId, Sign, LookupOwn, LookupPublic, LookupTrusted, StayThere
<1>7. CASE \E k \in NewKeys : BeginGenerate(p, k) \/ BeginTrust(p, k)
  BY <1>1, <1>7 DEF BeginGenerate, BeginTrust, StayThere
<1> QED
  BY <1>4, <1>5, <1>6, <1>7 DEF KeysStep

(* A step that leaves what the migrations are done with.                   *)
LEMMA CopiesStay ==
    ASSUME TypeInv, CopyInv, NEW p \in Procs, StayThere, \A q \in Procs \ {p} : proc'[q] = proc[q],
           Copies(proc[p])', audit' = audit \/ AllCopied'
    PROVE  CopyInv'
<1>0. \A f \in KeyFiles : keyFile[f] # NoFile => keyFile'[f] # NoFile
  BY DEF StayThere
<1>1. source \in Sources /\ source.objects \subseteq Objects /\ source' = source
  BY MigrateAssumption DEF TypeInv, Values, V2Ledger, StayThere
<1>2. AllCopied => AllCopied'
  BY <1>1 DEF AllCopied, StayThere
<1>3. ASSUME NEW q \in Procs \ {p} PROVE Copies(proc[q])'
  BY <1>1 DEF CopyInv, Copies, StayThere
<1>4. audit' => AllCopied'
  BY <1>2 DEF CopyInv
<1> QED
  BY <1>3, <1>4 DEF CopyInv

LEMMA CopyStep == TypeInv /\ LaidOut /\ CopyInv /\ [Next]_vars => CopyInv'
<1> SUFFICES ASSUME TypeInv, LaidOut, CopyInv, [Next]_vars PROVE CopyInv'
  OBVIOUS
<1>0. Values /\ proc \in [Procs -> ProcRecord] /\ \A p \in Procs : proc[p] \in ProcRecord /\ Task(proc[p]) /\ Copies(proc[p])
  BY DEF TypeInv, CopyInv
<1>1. source' = source /\ source \in Sources /\ source.objects \subseteq Objects
  BY <1>0, LaidOutStep, MigrateAssumption DEF Values, V2Ledger
<1>2. CASE UNCHANGED vars
  BY <1>2 DEF vars, keyVars, migrateVars, fileVars, CopyInv, Copies, AllCopied
<1>3. ASSUME NEW p \in Procs, KeysStep(p), UNCHANGED <<migrateVars, source>> PROVE CopyInv'
  <2>1. StayThere /\ audit' = audit
    BY <1>3, KeysStayThere
  <2>2. proc'[p].op # "migrate" /\ \A q \in Procs \ {p} : proc'[q] = proc[q]
    <3>1. CASE \E k \in NewKeys : BeginGenerate(p, k) \/ BeginTrust(p, k)
      BY <1>0, <3>1 DEF BeginGenerate, BeginTrust, Generating, Trusting, NoProc
    <3>2. CASE ~\E k \in NewKeys : BeginGenerate(p, k) \/ BeginTrust(p, k)
      BY <1>3, <3>2, KeyStepGoesOn DEF GoesOn, KeysStep
    <3> QED
      BY <3>1, <3>2
  <2> QED
    BY <2>1, <2>2, CopiesStay DEF Copies
(* The steps that write neither keys nor objects. *)
<1>4. ASSUME NEW p \in Procs, UNCHANGED <<keyFile, objects, audit>>, \A q \in Procs \ {p} : proc'[q] = proc[q],
             proc'[p].op # "migrate"
      PROVE  CopyInv'
  BY <1>1, <1>4, CopiesStay DEF StayThere, Copies
<1>5. ASSUME NEW p \in Procs, \E force \in BOOLEAN : BeginMigrate(p, force) PROVE CopyInv'
  <2>1. UNCHANGED <<keyFile, objects, audit, source>> /\ (\A q \in Procs \ {p} : proc'[q] = proc[q])
        /\ proc'[p].step = "keys" /\ proc'[p].todo = Copied
    BY <1>0, <1>5 DEF BeginMigrate, NoProc, fileVars
  <2>2. Copies(proc[p])'
    BY <1>1, <2>1, CopiedList DEF Copies
  <2> QED
    BY <2>1, <2>2, CopiesStay DEF StayThere
<1>6. ASSUME NEW p \in Procs, (\E b \in NewBlocks, sign \in BOOLEAN : BeginAppend(p, b, sign)) \/ BeginVerify(p)
      PROVE  CopyInv'
  <2>1. ASSUME NEW b \in NewBlocks, NEW sign \in BOOLEAN, BeginAppend(p, b, sign) PROVE CopyInv'
    BY <1>0, <1>4, <2>1 DEF BeginAppend, NoProc, fileVars
  <2>2. ASSUME BeginVerify(p) PROVE CopyInv'
    BY <1>0, <1>4, <2>2 DEF BeginVerify, NoProc, fileVars
  <2> QED
    BY <1>6, <2>1, <2>2
<1>7. ASSUME NEW p \in Procs, AppendBlock(p) \/ AppendIndex(p) \/ Register(p) \/ VerifyBlock(p) \/ VerifyEnds(p)
      PROVE  CopyInv'
  <2>1. UNCHANGED <<keyFile, objects, audit>>
    BY <1>7 DEF AppendBlock, AppendIndex, Register, VerifyBlock, VerifyEnds, fileVars
  <2> QED
    BY <1>4, <1>7, <2>1, FileStepGoesOn DEF GoesOn
<1>8. ASSUME NEW p \in Procs, Die(p) PROVE CopyInv'
  BY <1>0, <1>4, <1>8 DEF Die, Return, NoProc, migrateVars, fileVars
<1>9. ASSUME NEW p \in Procs, Proceed(p) PROVE CopyInv'
  <2>1. /\ UNCHANGED <<keyFile, objects, audit>> /\ \A q \in Procs \ {p} : proc'[q] = proc[q]
        /\ proc[p].op = "migrate" /\ proc[p].todo = <<>> /\ proc[p].left = {} /\ proc[p].step # "audit"
        /\ proc'[p].step = AfterStep(proc[p].step)
        /\ proc'[p].left = IF AfterStep(proc[p].step) = "objects" THEN source.objects ELSE {}
    BY <1>0, <1>9 DEF Proceed, fileVars, ProcRecord
  <2>2. proc[p].step \in OpSteps["migrate"] \ {"audit"}
    BY <1>0, <2>1 DEF Task, OpSteps
  <2>3. /\ AfterStep(proc[p].step) # "keys"
        /\ AfterStep(proc[p].step) = "audit" => proc[p].step = "objects"
    BY <1>1, <2>2, NextStep DEF OpSteps
  <2>4. \A f \in KeyFiles : ~Has(<<>>, f)
    BY DEF Has
  <2>5. Copies(proc[p])'
    BY <1>0, <1>1, <2>1, <2>3, <2>4 DEF Copies
  <2> QED
    BY <1>1, <2>1, <2>5, CopiesStay DEF StayThere
<1>10. ASSUME NEW p \in Procs, TranscribeBlock(p) \/ WriteIndex(p) \/ TranscribeReinforcements(p)
       PROVE  CopyInv'
  <2>1. /\ UNCHANGED <<keyFile, objects, audit>> /\ (\A q \in Procs \ {p} : proc'[q] = proc[q])
        /\ proc'[p].op = proc[p].op /\ proc'[p].step = proc[p].step /\ proc'[p].left = proc[p].left /\ proc[p].step # "keys"
    BY <1>0, <1>10 DEF TranscribeBlock, WriteIndex, TranscribeReinforcements, Done, At, ProcRecord
  <2>2. Copies(proc[p])'
    BY <1>0, <1>1, <2>1 DEF Copies
  <2> QED
    BY <1>1, <2>1, <2>2, CopiesStay DEF StayThere
<1>11. ASSUME NEW p \in Procs, CopyKey(p) PROVE CopyInv'
  <2> DEFINE f == Head(proc[p].todo)
  <2>1. /\ f \in KeyFiles /\ source.keys[f] # NoFile /\ proc[p].op = "migrate" /\ proc[p].step = "keys"
        /\ \A g \in KeyFiles : Has(proc[p].todo, g) => Has(Tail(proc[p].todo), g) \/ g = f
    BY <1>0, <1>11, KeyTodo DEF CopyKey, At, Task
  <2>2. /\ proc'[p].op = "migrate" /\ proc'[p].step = "keys" /\ proc'[p].todo \in {proc[p].todo, Tail(proc[p].todo)}
        /\ \A q \in Procs \ {p} : proc'[q] = proc[q]
        /\ UNCHANGED <<objects, audit>>
    <3>1. CASE proc[p].key = None
      BY <1>0, <1>11, <3>1 DEF CopyKey, At, ProcRecord, fileVars
    <3>2. CASE proc[p].key # None
      BY <1>0, <1>11, <3>2 DEF CopyKey, At, ProcRecord
    <3> QED
      BY <3>1, <3>2
  <2>3. \E v \in {Torn, source.keys[f]} : keyFile' = [keyFile EXCEPT ![f] = v]
    BY <1>11 DEF CopyKey
  <2> HIDE DEF f
  <2>4. keyFile'[f] # NoFile /\ \A g \in KeyFiles \ {f} : keyFile'[g] = keyFile[g]
    BY <1>0, <2>1, <2>3, KeysAssumption DEF Values, KeysType
  <2>5. Copies(proc[p])'
    BY <1>0, <1>1, <2>1, <2>2, <2>4 DEF Copies
  <2> QED
    BY <1>1, <2>2, <2>4, <2>5, CopiesStay DEF StayThere
<1>12. ASSUME NEW p \in Procs, StoreLearning(p) PROVE CopyInv'
  <2>1. UNCHANGED <<keyFile, audit>> /\ objects' = [objects EXCEPT ![ObjectOf[proc[p].block]] = IF @ = NoFile THEN "whole" ELSE @]
    BY <1>12 DEF StoreLearning
  <2>2. StayThere
    BY <1>0, <1>1, <2>1, MigrateAssumption DEF StayThere, Values, FilesType
  <2> QED
    BY <1>12, <2>1, <2>2, FileStepGoesOn, CopiesStay DEF GoesOn, Copies
<1>13. ASSUME NEW p \in Procs, TranscribeObject(p) PROVE CopyInv'
  <2>1. PICK o \in Objects, v \in {Torn, "whole"} :
            /\ objects' = [objects EXCEPT ![o] = v]
            /\ proc'[p].op = "migrate" /\ proc'[p].step = "objects" /\ proc'[p].left \in {proc[p].left, proc[p].left \ {o}}
            /\ \A q \in Procs \ {p} : proc'[q] = proc[q]
    <3>0. At(p, "migrate", "objects") /\ proc[p].key \in {None} \cup proc[p].left /\ proc[p].left \subseteq Objects
      BY <1>0, <1>1, <1>13 DEF TranscribeObject, At, Task
    <3>1. ASSUME NEW o \in proc[p].left, objects' = [objects EXCEPT ![o] = Torn], proc' = [proc EXCEPT ![p].key = o]
          PROVE  /\ o \in Objects
                 /\ proc'[p].op = "migrate" /\ proc'[p].step = "objects" /\ proc'[p].left = proc[p].left
                 /\ \A q \in Procs \ {p} : proc'[q] = proc[q]
      BY <1>0, <3>0, <3>1 DEF ProcRecord, At
    <3>2. ASSUME proc[p].key # None, proc' = [proc EXCEPT ![p].key = None, ![p].left = @ \ {proc[p].key}]
          PROVE  /\ proc[p].key \in Objects
                 /\ proc'[p].op = "migrate" /\ proc'[p].step = "objects" /\ proc'[p].left = proc[p].left \ {proc[p].key}
                 /\ \A q \in Procs \ {p} : proc'[q] = proc[q]
      BY <1>0, <3>0, <3>2 DEF ProcRecord, At
    <3> QED
      BY <1>13, <3>1, <3>2 DEF TranscribeObject
  <2>2. v # NoFile
    BY KeysAssumption, MigrateAssumption
  <2>3. objects'[o] # NoFile /\ \A c \in Objects \ {o} : objects'[c] = objects[c]
    BY <1>0, <2>1, <2>2 DEF Values, FilesType
  <2>4. UNCHANGED <<keyFile, audit>> /\ proc[p].op = "migrate" /\ proc[p].step = "objects"
    BY <1>13 DEF TranscribeObject, At
  <2>5. Copies(proc[p])'
    BY <1>0, <1>1, <2>1, <2>3, <2>4 DEF Copies
  <2> QED
    BY <1>1, <2>1, <2>3, <2>4, <2>5, CopiesStay DEF StayThere
<1>14. ASSUME NEW p \in Procs, WriteAudit(p) PROVE CopyInv'
  <2>1. /\ UNCHANGED <<keyFile, objects, source>> /\ proc[p].op = "migrate" /\ proc[p].step = "audit"
        /\ proc'[p].op = "none" /\ \A q \in Procs \ {p} : proc'[q] = proc[q]
    BY <1>0, <1>14 DEF WriteAudit, At, Return, NoProc, rest
  <2>2. proc[p].left = {}
    BY <1>0, <2>1 DEF Task
  <2>3. AllCopied'
    BY <1>0, <2>1, <2>2 DEF Copies, AllCopied
  <2> QED
    BY <2>1, <2>3, CopiesStay DEF StayThere, Copies
<1>15. ASSUME NEW p \in Procs, Opens(p) PROVE CopyInv'
  BY <1>0, <1>4, <1>15, OpenSteps, OpenMoves
<1> QED
  BY <1>2, <1>3, <1>5, <1>6, <1>7, <1>8, <1>9, <1>10, <1>11, <1>12, <1>13, <1>14, <1>15 DEF Next, Opens

------------------------------------------------------------------------------
(* The index and the reinforcements. *)

Prefix ==
    /\ index # NoFile /\ Len(Transcribed) <= Len(index)
    /\ \A i \in 1 .. Len(Transcribed) : index[i].id = Transcribed[i]
HasRegistered == source.registered # NoFile => registered # NoFile /\ source.registered \subseteq registered

(* What a process has read of the two files, or written of them.           *)
Reads(x) ==
    /\ x.op = "append" =>
          /\ x.step \in {"keyId", "sign", "block", "index"} => x.held = index
          /\ x.step = "register" => x.trust = registered
    /\ x.op = "migrate" =>
          /\ x.step \in {"registered", "objects", "audit"} \/ (x.step = "index" /\ x.todo = <<>>) => Prefix
          /\ x.step \in {"objects", "audit"} \/ (x.step = "registered" /\ x.todo = <<>>) => HasRegistered

(* As long as only one wrote at a time.  Several may open a ledger at once,*)
(* for each writes it empty; who works on it finds nobody opening it.      *)
NoneOpens == \A p \in Procs : proc[p].op # "open"
IndexInv == ~raced =>
    /\ \A p, q \in DestWriters : p = q \/ (proc[p].op = "open" /\ proc[q].op = "open")
    /\ audit => Prefix /\ HasRegistered /\ NoneOpens
    /\ \A p \in Procs : Reads(proc[p])

(* Either no file is written, or no other process is at them.              *)
LEMMA IndexMoves ==
    ASSUME TypeInv, IndexInv, NEW p \in Procs, UNCHANGED source, \A q \in Procs \ {p} : proc'[q] = proc[q],
           ~raced' => /\ ~raced
                      /\ DestWriters \ {p} = {} \/ (p \notin DestWriters' /\ UNCHANGED <<index, registered>>)
                      /\ Reads(proc[p])' /\ (audit' => Prefix' /\ HasRegistered' /\ (audit \/ NoneOpens))
                      /\ proc'[p].op # "open"
    PROVE  IndexInv'
<1> SUFFICES ASSUME ~raced' PROVE IndexInv'
  BY DEF IndexInv
<1>1. Transcribed' = Transcribed
  BY DEF Transcribed, HaveFiles
<1>2. DestWriters' \subseteq DestWriters \cup {p}
  BY DEF DestWriters
<1>3. \A q, r \in DestWriters' : q = r \/ (proc'[q].op = "open" /\ proc'[r].op = "open")
  <2>1. CASE DestWriters \ {p} = {}
    BY <1>2, <2>1
  <2>2. CASE p \notin DestWriters'
    <3>1. ASSUME NEW q \in DestWriters' PROVE q \in DestWriters /\ q \in Procs \ {p} /\ proc'[q] = proc[q]
      BY <1>2, <2>2, <3>1 DEF DestWriters
    <3> QED
      BY <3>1 DEF IndexInv
  <2> QED
    BY <2>1, <2>2
<1>5. audit' => NoneOpens'
  BY DEF IndexInv, NoneOpens
<1>4. ASSUME NEW q \in Procs \ {p} PROVE Reads(proc[q])'
  <2>1. CASE DestWriters \ {p} = {}
    BY <1>4, <2>1 DEF DestWriters, Reads
  <2>2. CASE UNCHANGED <<index, registered>>
    <3>1. Prefix' = Prefix /\ HasRegistered' = HasRegistered
      BY <1>1, <2>2 DEF Prefix, HasRegistered
    <3>2. Reads(proc[q])
      BY DEF IndexInv
    <3> QED
      BY <1>4, <2>2, <3>1, <3>2 DEF Reads
  <2> QED
    BY <2>1, <2>2
<1> QED
  BY <1>3, <1>4, <1>5 DEF IndexInv

(* A step of an operation under way that writes neither file.              *)
LEMMA IndexStays ==
    ASSUME TypeInv, IndexInv, NEW p \in Procs, UNCHANGED <<source, index, registered, raced, audit>>, GoesOn(p),
           proc'[p].op # "open", ~raced => Reads(proc'[p])
    PROVE  IndexInv'
<1>1. UNCHANGED <<Transcribed, Prefix, HasRegistered>>
  BY DEF Transcribed, HaveFiles, Prefix, HasRegistered
<1>2. ~raced => Reads(proc[p])'
  BY <1>1 DEF Reads
<1>3. p \in DestWriters' => p \in DestWriters /\ proc[p].op # "open"
  BY DEF GoesOn, DestWriters
<1>4. ~raced => DestWriters \ {p} = {} \/ p \notin DestWriters'
  BY <1>3 DEF IndexInv
<1> QED
  BY <1>1, <1>2, <1>4, IndexMoves DEF IndexInv, GoesOn

LEMMA IndexKeySteps ==
    ASSUME TypeInv, IndexInv, NEW p \in Procs, UNCHANGED <<migrateVars, source>>, KeysStep(p)
    PROVE  IndexInv'
<1>0. proc \in [Procs -> ProcRecord] /\ proc[p] \in ProcRecord /\ Task(proc[p]) /\ (~raced => Reads(proc[p]))
  BY DEF TypeInv, IndexInv
<1>1. UNCHANGED <<source, index, registered, raced, audit>>
  BY DEF migrateVars, fileVars
<1>2. ASSUME proc'[p].op \notin {"append", "migrate", "open"}, \A q \in Procs \ {p} : proc'[q] = proc[q]
      PROVE  IndexInv'
  <2>1. Reads(proc[p])' /\ p \notin DestWriters'
    BY <1>2 DEF Reads, DestWriters
  <2>2. UNCHANGED <<Prefix, HasRegistered>>
    BY <1>1 DEF Transcribed, HaveFiles, Prefix, HasRegistered
  <2>3. ~raced => (audit' => Prefix' /\ HasRegistered' /\ (audit \/ NoneOpens))
    BY <1>1, <2>2 DEF IndexInv
  <2>4. proc'[p].op # "open"
    BY <1>2
  <2> QED
    BY <1>1, <1>2, <2>1, <2>3, <2>4, IndexMoves
<1>3. CASE \E k \in NewKeys : BeginGenerate(p, k) \/ BeginTrust(p, k)
  <2>1. \A k, t : Generating(p, k).op = "generate" /\ Trusting(k, t).op = "trust"
    BY DEF Generating, Trusting, NoProc
  <2>2. proc'[p].op \in {"generate", "trust"} /\ \A q \in Procs \ {p} : proc'[q] = proc[q]
    BY <1>0, <1>3, <2>1 DEF BeginGenerate, BeginTrust
  <2> QED
    BY <1>2, <2>2
<1>4. CASE WriteIdentity(p) \/ OpenPrivate(p) \/ WritePrivate(p) \/ WriteTrusted(p) \/ LookupOwn(p) \/ LookupPublic(p) \/ LookupTrusted(p)
  <2>1. GoesOn(p) /\ proc[p].op \in {"generate", "trust", "verify"}
    BY <1>4, KeyStepGoesOn
  <2> QED
    BY <1>2, <2>1 DEF GoesOn
<1>5. CASE SignId(p) \/ Sign(p)
  <2>1. GoesOn(p)
    BY <1>5, KeyStepGoesOn
  <2>2. /\ proc[p].op = "append" /\ proc[p].step \in {"keyId", "sign"}
        /\ proc'[p].op # "none" => proc'[p].op = "append" /\ proc'[p].step \in {"sign", "block"} /\ proc'[p].held = proc[p].held
    BY <1>0, <1>5 DEF SignId, Sign, At, Step, Return, NoProc, ProcRecord
  <2>3. (~raced => Reads(proc'[p])) /\ proc'[p].op # "open"
    BY <1>0, <2>1, <2>2 DEF Reads, GoesOn
  <2> QED
    BY <1>1, <2>1, <2>3, IndexStays
<1> QED
  BY <1>3, <1>4, <1>5 DEF KeysStep

LEMMA IndexStep == TypeInv /\ LaidOut /\ IndexInv /\ [Next]_vars => IndexInv'
<1> SUFFICES ASSUME TypeInv, LaidOut, IndexInv, [Next]_vars PROVE IndexInv'
  OBVIOUS
<1>0. Values /\ FilesType /\ proc \in [Procs -> ProcRecord] /\ \A p \in Procs : proc[p] \in ProcRecord /\ Task(proc[p]) /\ (~raced => Reads(proc[p]))
  BY DEF TypeInv, IndexInv, Values
<1>1. source' = source /\ source \in Sources /\ Transcribed' = Transcribed /\ Transcribed \in Seq(V2Blocks)
      /\ Len(Transcribed) \in Nat
  <2>1. source' = source /\ source \in Sources
    BY <1>0, LaidOutStep DEF Values
  <2>2. Transcribed' = Transcribed
    BY <2>1 DEF Transcribed, HaveFiles
  <2>3. Transcribed \in Seq(V2Blocks)
    BY <2>1, TranscribedType
  <2> QED
    BY <2>1, <2>2, <2>3
<1>2. CASE UNCHANGED vars
  <2>1. UNCHANGED <<proc, source, index, registered, raced, audit, Transcribed>>
    BY <1>1, <1>2 DEF vars, keyVars, migrateVars, fileVars
  <2> QED
    BY <2>1 DEF IndexInv, Reads, Prefix, HasRegistered, DestWriters, NoneOpens
<1>3. ASSUME NEW p \in Procs, KeysStep(p), UNCHANGED <<migrateVars, source>> PROVE IndexInv'
  BY <1>3, IndexKeySteps
<1>4. ASSUME NEW p \in Procs, NEW force \in BOOLEAN, BeginMigrate(p, force) PROVE IndexInv'
  <2>1. UNCHANGED <<index, registered, audit>> /\ (~raced' => ~raced /\ DestWriters = {})
    BY <1>4 DEF BeginMigrate, fileVars
  <2>2. proc'[p].op = "migrate" /\ proc'[p].step = "keys" /\ \A q \in Procs \ {p} : proc'[q] = proc[q]
    BY <1>0, <1>4 DEF BeginMigrate, NoProc
  <2>3. Reads(proc[p])'
    BY <2>2 DEF Reads
  <2> QED
    BY <1>1, <2>1, <2>2, <2>3, IndexMoves DEF IndexInv, Prefix, HasRegistered
<1>5. ASSUME NEW p \in Procs, NEW b \in NewBlocks, NEW sign \in BOOLEAN, BeginAppend(p, b, sign)
      PROVE  IndexInv'
  <2>1. UNCHANGED <<index, registered, audit>> /\ (~raced' => ~raced /\ DestWriters = {})
    BY <1>5 DEF BeginAppend, fileVars
  <2>2. proc'[p].op = "append" /\ proc'[p].held = index' /\ proc'[p].step \in {"keyId", "block"} /\ \A q \in Procs \ {p} : proc'[q] = proc[q]
    BY <1>0, <1>5 DEF BeginAppend, NoProc, fileVars
  <2>3. Reads(proc[p])'
    BY <2>2 DEF Reads
  <2> QED
    BY <1>1, <2>1, <2>2, <2>3, IndexMoves DEF IndexInv, Prefix, HasRegistered
<1>6. ASSUME NEW p \in Procs, BeginVerify(p) PROVE IndexInv'
  <2>1. UNCHANGED <<index, registered, audit, raced>>
    BY <1>6 DEF BeginVerify, rest, fileVars
  <2>2. proc'[p].op = "verify" /\ \A q \in Procs \ {p} : proc'[q] = proc[q]
    BY <1>0, <1>6 DEF BeginVerify, NoProc
  <2>3. Reads(proc[p])' /\ p \notin DestWriters'
    BY <2>2 DEF Reads, DestWriters
  <2> QED
    BY <1>1, <2>1, <2>2, <2>3, IndexMoves DEF IndexInv, Prefix, HasRegistered
<1>7. ASSUME NEW p \in Procs, VerifyBlock(p) \/ VerifyEnds(p) \/ Die(p) PROVE IndexInv'
  <2>1. UNCHANGED <<index, registered, raced, audit>> /\ GoesOn(p)
    BY <1>7, FileStepGoesOn DEF VerifyBlock, VerifyEnds, Die, fileVars, rest, migrateVars
  <2>2. proc'[p].op \notin {"append", "migrate", "open"}
    <3>1. CASE Die(p)
      BY <1>0, <3>1 DEF Die, Return, NoProc
    <3>2. CASE VerifyBlock(p) \/ VerifyEnds(p)
      BY <2>1, <3>2, FileStepGoesOn DEF GoesOn
    <3> QED
      BY <1>7, <3>1, <3>2
  <2> QED
    BY <1>1, <2>1, <2>2, IndexStays DEF Reads
<1>8. ASSUME NEW p \in Procs, AppendBlock(p) \/ StoreLearning(p) PROVE IndexInv'
  <2>1. UNCHANGED <<index, registered, raced, audit>> /\ GoesOn(p) /\ proc[p].op = "append"
    BY <1>8, FileStepGoesOn DEF AppendBlock, StoreLearning, rest
  <2>2. \/ proc[p].step = "block" /\ proc'[p].step = "index" /\ proc'[p].held = proc[p].held /\ proc'[p].op = "append"
        \/ proc'[p].step = "register" /\ proc'[p].trust = registered /\ proc'[p].op = "append"
    <3>1. CASE AppendBlock(p)
      BY <1>0, <3>1 DEF AppendBlock, Step, At, ProcRecord
    <3>2. CASE StoreLearning(p)
      BY <1>0, <3>2 DEF StoreLearning, At, ProcRecord
    <3> QED
      BY <1>8, <3>1, <3>2
  <2>3. ~raced => Reads(proc'[p])
    BY <1>0, <2>1, <2>2 DEF Reads
  <2> QED
    BY <1>1, <2>1, <2>2, <2>3, IndexStays
<1>9. ASSUME NEW p \in Procs, Proceed(p) \/ CopyKey(p) \/ TranscribeBlock(p) \/ TranscribeObject(p)
      PROVE  IndexInv'
  <2>1. UNCHANGED <<index, registered, raced, audit>> /\ GoesOn(p) /\ proc[p].op = "migrate"
    BY <1>9, FileStepGoesOn DEF Proceed, CopyKey, TranscribeBlock, TranscribeObject, rest, fileVars
  <2>2. CASE CopyKey(p)
    <3>1. proc[p].step = "keys" /\ proc'[p].step = "keys" /\ proc'[p].op = "migrate"
      <4>1. CASE proc[p].key = None
        BY <1>0, <2>2, <4>1 DEF CopyKey, At, ProcRecord
      <4>2. CASE proc[p].key # None
        BY <1>0, <2>2, <4>2 DEF CopyKey, At, ProcRecord
      <4> QED
        BY <4>1, <4>2
    <3>2. Reads(proc'[p])
      BY <3>1 DEF Reads
    <3> QED
      BY <1>1, <2>1, <3>1, <3>2, IndexStays
  <2>3. CASE TranscribeBlock(p)
    BY <1>0, <1>1, <2>1, <2>3, IndexStays DEF TranscribeBlock, Done, At, Reads, ProcRecord
  <2>4. CASE TranscribeObject(p)
    <3>1. proc[p].step = "objects" /\ proc'[p].step = "objects" /\ proc'[p].op = "migrate"
      BY <1>0, <2>4 DEF TranscribeObject, At, ProcRecord
    <3>2. ~raced => Reads(proc'[p])
      BY <1>0, <2>1, <3>1 DEF Reads
    <3> QED
      BY <1>1, <2>1, <3>1, <3>2, IndexStays
  <2>5. CASE Proceed(p)
    <3>1. /\ proc[p].todo = <<>> /\ proc[p].step \in OpSteps["migrate"] \ {"audit"} /\ proc'[p].op = "migrate"
          /\ proc'[p].step = AfterStep(proc[p].step) /\ proc'[p].todo = WorkOf(AfterStep(proc[p].step))
      BY <1>0, <2>1, <2>5 DEF Proceed, Task, OpSteps, ProcRecord
    <3>2. /\ proc'[p].step = CASE proc[p].step = "keys" -> "blocks"
                               [] proc[p].step = "blocks" -> "index"
                               [] proc[p].step = "index" -> "registered"
                               [] proc[p].step = "registered" -> "objects"
                               [] proc[p].step = "objects" -> "audit"
          /\ proc[p].step = "blocks" => proc'[p].todo = <<"index">>
          /\ proc[p].step = "index" => proc'[p].todo = IF source.registered = NoFile THEN <<>> ELSE <<"registered">>
      BY <1>1, <3>1, NextStep
    <3>3. ~raced => Reads(proc'[p])
      BY <1>0, <2>1, <3>1, <3>2 DEF Reads, OpSteps, HasRegistered
    <3> QED
      BY <1>1, <2>1, <3>1, <3>3, IndexStays
  <2> QED
    BY <1>9, <2>2, <2>3, <2>4, <2>5
(* The steps that write the index or the reinforcements. *)
<1>10. ASSUME NEW p \in Procs, proc[p].op \in {"append", "migrate"}, raced' = raced, GoesOn(p),
              ~raced => Reads(proc[p])' /\ (audit' => Prefix' /\ HasRegistered')
       PROVE  IndexInv'
  <2>1. p \in DestWriters /\ proc[p].op # "open" /\ proc'[p].op # "open"
    BY <1>10 DEF DestWriters, GoesOn
  <2>2. ~raced => DestWriters \ {p} = {}
    BY <2>1 DEF IndexInv
  <2>3. ~raced => NoneOpens
    BY <2>1, <2>2 DEF NoneOpens, DestWriters
  <2> QED
    BY <1>1, <1>10, <2>1, <2>2, <2>3, IndexMoves DEF GoesOn
<1>11. ASSUME NEW p \in Procs, WriteIndex(p) PROVE IndexInv'
  <2>1. /\ GoesOn(p) /\ proc[p].op = "migrate" /\ UNCHANGED <<registered, audit, raced>>
        /\ proc[p].step = "index" /\ proc'[p].step = "index"
    BY <1>0, <1>11, FileStepGoesOn DEF WriteIndex, At, Done, rest, ProcRecord
  <2>2. index' \in Seq(Entry) /\ Len(index') = Len(Transcribed) /\ \A i \in 1 .. Len(Transcribed) : index'[i].id = Transcribed[i]
    <3>1. proc[p].run \in 0 .. MaxRuns
      BY <1>0 DEF ProcRecord
    <3>2. index' \in Seq(Entry)
      BY <1>1, <1>11, <3>1, IndexWritten DEF WriteIndex
    <3>3. index' = [i \in 1 .. Len(Transcribed) |-> [id |-> Transcribed[i], hash |-> HashOf(Transcribed[i], proc[p].run)]]
      BY <1>1, <1>11 DEF WriteIndex
    <3> QED
      BY <1>1, <3>2, <3>3
  <2>3. Prefix'
    BY <1>1, <2>2, MigrateAssumption DEF Prefix
  <2>4. HasRegistered' = HasRegistered
    BY <1>1, <2>1 DEF HasRegistered
  <2>5. p \in DestWriters
    BY <2>1 DEF DestWriters
  <2>6. Reads(proc[p])'
    BY <2>1, <2>3 DEF Reads, GoesOn
  <2> QED
    BY <1>10, <2>1, <2>3, <2>4, <2>5, <2>6 DEF IndexInv
<1>12. ASSUME NEW p \in Procs, TranscribeReinforcements(p) PROVE IndexInv'
  <2>1. /\ GoesOn(p) /\ proc[p].op = "migrate" /\ UNCHANGED <<index, audit, raced>> /\ registered' = source.registered
        /\ proc[p].step = "registered" /\ proc'[p].step = "registered"
    BY <1>0, <1>12, FileStepGoesOn DEF TranscribeReinforcements, At, Done, rest, ProcRecord
  <2>2. HasRegistered' /\ Prefix' = Prefix
    BY <1>1, <2>1 DEF HasRegistered, Prefix
  <2>3. (~raced => Reads(proc[p])') /\ p \in DestWriters
    BY <1>0, <2>1, <2>2 DEF Reads, DestWriters, GoesOn
  <2> QED
    BY <1>10, <2>1, <2>2, <2>3 DEF IndexInv
<1>13. ASSUME NEW p \in Procs, WriteAudit(p) PROVE IndexInv'
  <2>1. /\ GoesOn(p) /\ UNCHANGED <<index, registered, raced>> /\ proc[p].op = "migrate" /\ proc[p].step = "audit" /\ proc'[p].op = "none"
    BY <1>0, <1>13, FileStepGoesOn DEF WriteAudit, At, Return, NoProc, rest
  <2>2. ~raced => Prefix' /\ HasRegistered'
    BY <1>0, <1>1, <2>1 DEF Reads, Prefix, HasRegistered
  <2>3. Reads(proc[p])' /\ p \in DestWriters
    BY <2>1 DEF Reads, DestWriters
  <2> QED
    BY <1>10, <2>1, <2>2, <2>3
<1>14. ASSUME NEW p \in Procs, AppendIndex(p) PROVE IndexInv'
  <2> DEFINE e == [id |-> proc[p].block, hash |-> <<proc[p].block, 0>>]
  <2>1. /\ GoesOn(p) /\ proc[p].op = "append" /\ UNCHANGED <<registered, audit, raced>>
        /\ proc[p].step = "index" /\ proc'[p].step = "object" /\ index' = Append(proc[p].held, e)
    BY <1>0, <1>14, FileStepGoesOn DEF AppendIndex, At, Step, rest, ProcRecord
  <2>2. proc[p].held \in Seq(Entry) /\ e \in Entry
    <3>1. proc[p].held \in Seq(Entry) /\ proc[p].block \in Blocks /\ 0 \in 0 .. MaxRuns
      BY <1>0, <2>1, MigrateAssumption DEF ProcRecord, Task
    <3> QED
      BY <3>1 DEF Entry
  <2> HIDE DEF e
  <2>3. ASSUME ~raced, Prefix PROVE Prefix'
    <3>1. proc[p].held = index
      BY <1>0, <2>1, <2>3 DEF Reads
    <3>2. /\ index' \in Seq(Entry) /\ Len(index') = Len(index) + 1 /\ Len(index) \in Nat
          /\ \A i \in 1 .. Len(index) : index'[i] = index[i]
      BY <2>1, <2>2, <3>1
    <3>3. index' # NoFile
      BY <3>2, MigrateAssumption
    <3> QED
      BY <1>1, <2>3, <3>2, <3>3 DEF Prefix
  <2>4. HasRegistered' = HasRegistered
    BY <1>1, <2>1 DEF HasRegistered
  <2>5. Reads(proc[p])' /\ p \in DestWriters
    BY <2>1 DEF Reads, DestWriters, GoesOn
  <2> QED
    BY <1>10, <2>1, <2>3, <2>4, <2>5 DEF IndexInv
<1>15. ASSUME NEW p \in Procs, Register(p) PROVE IndexInv'
  <2>1. /\ GoesOn(p) /\ proc[p].op = "append" /\ proc[p].step = "register" /\ UNCHANGED <<index, audit, raced>> /\ proc'[p].op = "none"
        /\ registered' = proc[p].trust \cup {proc[p].block} /\ proc[p].trust \subseteq Blocks /\ proc[p].block \in Blocks
    BY <1>0, <1>15, FileStepGoesOn, MigrateAssumption DEF Register, At, Return, NoProc, Task
  <2>2. ASSUME ~raced, HasRegistered PROVE HasRegistered'
    <3>1. proc[p].trust = registered /\ registered' # NoFile
      BY <1>0, <2>1, <2>2, MigrateAssumption DEF Reads
    <3> QED
      BY <1>1, <2>1, <2>2, <3>1 DEF HasRegistered
  <2>3. Prefix' = Prefix
    BY <1>1, <2>1 DEF Prefix
  <2>4. Reads(proc[p])' /\ p \in DestWriters
    BY <2>1 DEF Reads, DestWriters
  <2> QED
    BY <1>10, <2>1, <2>2, <2>3, <2>4 DEF IndexInv
<1>16. ASSUME NEW p \in Procs, Opens(p) PROVE IndexInv'
  <2>1. UNCHANGED <<raced, audit>>
    BY <1>16, OpenSteps
  <2>2. proc'[p].op \in {"none", "open"} /\ \A q \in Procs \ {p} : proc'[q] = proc[q]
    BY <1>0, <1>16, OpenMoves
  <2>3. ~raced => ~audit /\ \A q \in Procs : proc[q].op \notin {"append", "migrate"}
    <3>1. CASE ~HasLayout
      BY <3>1 DEF LaidOut
    <3>2. CASE proc[p].op = "open"
      <4>1. p \in DestWriters
        BY <3>2 DEF DestWriters
      <4>2. ~raced => ~audit
        BY <3>2 DEF IndexInv, NoneOpens
      <4>3. ASSUME ~raced, NEW q \in Procs, proc[q].op \in {"append", "migrate"} PROVE FALSE
        BY <3>2, <4>1, <4>3 DEF IndexInv, DestWriters
      <4> QED
        BY <4>2, <4>3
    <3> QED
      BY <1>16, <3>1, <3>2, OpenSteps
  <2>4. ~raced => \A q \in Procs : proc'[q].op \notin {"append", "migrate"}
    BY <2>2, <2>3
  <2>5. ~raced => \A q \in Procs : Reads(proc[q])'
    BY <2>4 DEF Reads
  <2>6. ~raced => \A q, r \in DestWriters' : proc'[q].op = "open" /\ proc'[r].op = "open"
    BY <2>4 DEF DestWriters
  <2> QED
    BY <2>1, <2>3, <2>5, <2>6 DEF IndexInv
<1> QED
  BY <1>2, <1>3, <1>4, <1>5, <1>6, <1>7, <1>8, <1>9, <1>11, <1>12, <1>13, <1>14, <1>15, <1>16
     DEF Next, Opens

------------------------------------------------------------------------------
(* What holds at every state. *)

MigrateInv == TypeInv /\ LaidOut /\ TrustInv /\ PairInv /\ ChainInv /\ CopyInv /\ IndexInv

LEMMA InitMigrateInv == Init => MigrateInv
<1> SUFFICES ASSUME Init PROVE MigrateInv
  OBVIOUS
<1>1. /\ keyFile = [f \in KeyFiles |-> NoFile] /\ proc = [p \in Procs |-> NoProc] /\ made = {} /\ faults = 0
      /\ mixed = FALSE /\ granted = {} /\ trustRaced = FALSE /\ source \in Sources
      /\ index = NoFile /\ blocks = <<>> /\ registered = NoFile /\ objects = [o \in Objects |-> NoFile]
      /\ audit = FALSE /\ runs = 0 /\ raced = FALSE /\ replaced = FALSE /\ stale = FALSE /\ report = {}
  BY DEF Init, KeysInit
<1>2. NoProc.op = "none" /\ NoProc.step = "idle" /\ NoProc.bad = {}
  BY DEF NoProc
<1>3. MaxRuns \in Nat /\ MaxFaults \in Nat
  BY MigrateAssumption, KeysAssumption
<1>4. NoProc \in ProcRecord
  BY <1>3 DEF NoProc, ProcRecord, Ops, StepNames
<1>5. Task(NoProc)
  BY <1>2 DEF Task, OpSteps
<1>6. DOMAIN blocks = {}
  BY <1>1
<1>7. KeysType /\ Counts /\ FilesType
  <2>1. KeysType
    BY <1>1 DEF KeysType, KeyFiles
  <2>2. Counts
    <3>1. made \subseteq KeyPairs /\ granted \subseteq KeyPairs /\ faults \in Nat /\ runs \in 0 .. MaxRuns
      BY <1>1, <1>3
    <3>2. /\ mixed \in BOOLEAN /\ trustRaced \in BOOLEAN /\ raced \in BOOLEAN
          /\ replaced \in BOOLEAN /\ stale \in BOOLEAN /\ audit \in BOOLEAN
      BY <1>1, Zenon
    <3> QED
      BY <3>1, <3>2 DEF Counts
  <2>3. FilesType
    <3>1. index \in {NoFile} \cup Seq(Entry) /\ registered \in {NoFile} \cup SUBSET Blocks /\ report \subseteq Faults
      BY <1>1
    <3>2. objects \in [Objects -> {NoFile, Torn, "whole"}]
      BY <1>1
    <3>3. DOMAIN blocks \subseteq Blocks /\ blocks \in [DOMAIN blocks -> [hash : Blocks \X (0 .. MaxRuns), sig : {None} \cup Sig]]
      <4>1. blocks = [b \in {} |-> <<>>]
        BY <1>1
      <4> QED
        BY <4>1
    <3> QED
      BY <3>1, <3>2, <3>3 DEF FilesType
  <2> QED
    BY <2>1, <2>2, <2>3
<1>8. \A p \in Procs : proc[p] = NoProc
  BY <1>1
<1>9. TypeInv
  BY <1>1, <1>4, <1>5, <1>7, <1>8 DEF TypeInv, Values
<1>10. LaidOut
  BY <1>1, <1>2, <1>8 DEF LaidOut
<1>11. TrustInv
  BY <1>1, <1>2, <1>8 DEF TrustInv, TrustWriters, At
<1>12. PairInv
  <2>1. KeyWriters = {}
    BY <1>2, <1>8 DEF KeyWriters, At
  <2>2. Settled
    BY <1>1, KeysAssumption DEF Settled, KeyFiles
  <2>3. \A p \in Procs : WritesPair(proc[p]) /\ Uses(proc[p])
    BY <1>2, <1>8 DEF WritesPair, Uses
  <2>4. AllGood /\ "signature" \notin report
    BY <1>1, <1>6 DEF AllGood
  <2> QED
    BY <2>1, <2>2, <2>3, <2>4 DEF PairInv
<1>13. ChainInv
  BY <1>1, <1>2, <1>6, <1>8 DEF ChainInv, HashesGood, NothingBad, Follows
<1>14. CopyInv
  BY <1>1, <1>2, <1>8 DEF CopyInv, Copies
<1>15. IndexInv
  BY <1>1, <1>2, <1>8 DEF IndexInv, DestWriters, Reads
<1> QED
  BY <1>9, <1>10, <1>11, <1>12, <1>13, <1>14, <1>15 DEF MigrateInv

LEMMA MigrateInvStep == MigrateInv /\ [Next]_vars => MigrateInv'
BY TypesStep, LaidOutStep, TrustStep, PairStep, ChainStep, CopyStep, IndexStep DEF MigrateInv

(* Keys, files and processes keep their types (signing.rs, store.rs and    *)
(* cortex-migrate/src/main.rs), and so does the rest of the invariant.     *)
THEOREM MigrateAlwaysSound == Spec => []MigrateInv
BY InitMigrateInv, MigrateInvStep, PTL DEF Spec

(* signing.rs:262: a key whose addition returned Ok, or that a migration   *)
(* brought, stays in trusted_keys.json, unless two changed it at once or a *)
(* migration copied one over it that lacks the key.                        *)
THEOREM TrustIsAlwaysKept == Spec => []TrustIsKept
<1>1. MigrateInv => TrustIsKept
  BY DEF MigrateInv, TrustInv, TrustIsKept
<1> QED
  BY <1>1, MigrateAlwaysSound, PTL

(* signing.rs:161-203: the signature of every block file was made with the *)
(* key whose id it names, and that is the key of this ledger, unless key   *)
(* pairs got mixed or were replaced.                                       *)
THEOREM SignaturesAlwaysVerify == Spec => []SignaturesVerify
<1>1. MigrateInv => SignaturesVerify
  BY DEF MigrateInv, PairInv, AllGood, SigGood, InPlace, SignaturesVerify
<1> QED
  BY <1>1, MigrateAlwaysSound, PTL

(* store.rs:289: whatever is appended or transcribed while verify_chain    *)
(* reads, and wherever a process dies, it reports no block that is missing,*)
(* a hash that differs only if a rerun dated a learning anew, and a        *)
(* signature that fails only if key pairs got mixed or were replaced.      *)
THEOREM ReportsAreAlwaysTrue == Spec => []ReportsAreTrue
<1>1. MigrateInv => ReportsAreTrue
  <2>1. MigrateInv => "missing" \notin report /\ ("mismatch" \in report => stale)
    BY DEF MigrateInv, ChainInv, NothingBad
  <2>2. MigrateInv => ("signature" \in report => mixed \/ replaced)
    BY DEF MigrateInv, PairInv, AllGood
  <2> QED
    BY <2>1, <2>2 DEF ReportsAreTrue
<1> QED
  BY <1>1, MigrateAlwaysSound, PTL

(* main.rs:9-11: once MIGRATION.json is there, so is all that the source   *)
(* had: keys and objects always; its blocks at the head of the index, and  *)
(* its reinforcements, unless someone wrote the destination meanwhile.     *)
THEOREM MigrationIsAlwaysComplete == Spec => []MigrationIsComplete
<1>1. ASSUME MigrateInv, audit PROVE AllCopied /\ (raced \/ (Prefix /\ HasRegistered))
  BY <1>1 DEF MigrateInv, CopyInv, IndexInv
<1>2. ASSUME TypeInv, Prefix
      PROVE  Transcribed = SubSeq([i \in DOMAIN index |-> index[i].id], 1, Len(Transcribed))
  <2> DEFINE n == Len(Transcribed)
             ids == [i \in DOMAIN index |-> index[i].id]
  <2>1. Transcribed \in Seq(V2Blocks) /\ index \in Seq(Entry)
    BY <1>2, TranscribedType DEF TypeInv, Values, FilesType, Prefix
  <2>2. n \in Nat /\ n <= Len(index) /\ Len(index) \in Nat /\ DOMAIN index = 1 .. Len(index)
        /\ Transcribed = [i \in 1 .. n |-> Transcribed[i]] /\ \A i \in 1 .. n : index[i].id = Transcribed[i]
    BY <1>2, <2>1 DEF Prefix
  <2>3. SubSeq(ids, 1, n) = [i \in 1 .. n |-> ids[i]]
    BY <2>2
  <2>4. \A i \in 1 .. n : ids[i] = Transcribed[i]
    BY <2>2
  <2> HIDE DEF ids, n
  <2> QED
    BY <2>2, <2>3, <2>4 DEF ids, n
<1>3. MigrateInv => MigrationIsComplete
  BY <1>1, <1>2 DEF MigrateInv, AllCopied, HasRegistered, MigrationIsComplete
<1> QED
  BY <1>3, MigrateAlwaysSound, PTL

==============================================================================
