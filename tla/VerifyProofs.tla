---------------------------- MODULE VerifyProofs ----------------------------
(***************************************************************************)
(* The theorem about the two verifiers of cortex-audit: for every chunk    *)
(* size, every length of the journal and every damage to its entries.      *)
(***************************************************************************)
EXTENDS AuditVerify, SequenceTheorems, FiniteSetTheorems, NaturalsInduction, WellFoundedInduction, TLAPS

------------------------------------------------------------------------------
(* The least of some numbers. *)

LEMMA MinIsLeast ==
    ASSUME NEW T, T \subseteq Nat, T # {}
    PROVE  Min(T) \in T /\ \A m \in T : Min(T) <= m
<1>1. \E n \in T : \A m \in T : ~(<<m, n>> \in OpToRel(<, Nat))
  BY WFMin, NatLessThanWellFounded, Zenon
<1>2. PICK n \in T : \A m \in T : ~(<<m, n>> \in OpToRel(<, Nat))
  BY <1>1
<1>3. ASSUME NEW m \in T PROVE n <= m
  <2>1. m \in Nat /\ n \in Nat /\ <<m, n>> \in Nat \X Nat
    OBVIOUS
  <2>2. ~(m < n)
    BY <1>2, <2>1, Zenon DEF OpToRel
  <2> QED
    BY <2>1, <2>2
<1> QED
  BY <1>3 DEF Min

LEMMA MinIs ==
    ASSUME NEW T, T \subseteq Nat, NEW n \in T, \A m \in T : n <= m
    PROVE  Min(T) = n
<1>1. Min(T) \in T /\ \A m \in T : Min(T) <= m
  BY MinIsLeast
<1>2. Min(T) \in Nat /\ n \in Nat /\ Min(T) <= n /\ n <= Min(T)
  BY <1>1
<1> QED
  BY <1>2

------------------------------------------------------------------------------
(* What the checks of one entry may say. *)

Kinds == {"reading", "Clean", "HashBreak", "Unsigned", "UntrustedKey", "BadSignature",
          "BadAgentSignature", "UntrustedAgentKey"}
Verdict == [kind : Kinds, seq : Nat]
Failure(x) == x \in Verdict /\ x.kind \notin {"reading", "Clean"}

LEMMA VerdictKinds ==
    /\ Clean \in Verdict /\ Reading \in Verdict /\ Clean # Reading
    /\ Clean.kind = "Clean" /\ Reading.kind = "reading"
    /\ \A x : Failure(x) => x # Clean /\ x # Reading /\ x \in Verdict /\ x.seq \in Nat
    /\ \A n \in Nat : \A k \in Kinds \ {"reading", "Clean"} : Failure(Status(k, n)) /\ Status(k, n).seq = n
  BY DEF Clean, Reading, Status, Verdict, Failure, Kinds

LEMMA StepVerdicts ==
    ASSUME NEW p, NEW e \in Entry
    PROVE  /\ Precheck(p, e) # Clean => Failure(Precheck(p, e)) /\ Precheck(p, e).seq = e.seq
           /\ VerifyAgentCosig(e) # Clean => Failure(VerifyAgentCosig(e)) /\ VerifyAgentCosig(e).seq = e.seq
           /\ VerifyStep(p, e) # Clean => Failure(VerifyStep(p, e))
           /\ VerifyStep(p, e) = Clean <=>
                 Precheck(p, e) = Clean /\ e.sig # "wrong" /\ VerifyAgentCosig(e) = Clean
<1>1. e.seq \in Nat
  BY DEF Entry
<1>2. Precheck(p, e) # Clean => Failure(Precheck(p, e)) /\ Precheck(p, e).seq = e.seq
  BY <1>1, VerdictKinds DEF Precheck, Kinds
<1>3. VerifyAgentCosig(e) # Clean => Failure(VerifyAgentCosig(e)) /\ VerifyAgentCosig(e).seq = e.seq
  BY <1>1, VerdictKinds DEF VerifyAgentCosig, Kinds
<1>4. Failure(Status("BadSignature", e.seq)) /\ Status("BadSignature", e.seq) # Clean
  BY <1>1, VerdictKinds DEF Kinds
<1> QED
  BY <1>2, <1>3, <1>4 DEF VerifyStep

------------------------------------------------------------------------------
(* The failure with the lowest number, of up to three. *)

Lower(x, y) == IF x.seq <= y.seq THEN x ELSE y

LEMMA VerdictsOf ==
    ASSUME NEW s \in Seq(Verdict)
    PROVE  /\ DOMAIN s = 1 .. Len(s) /\ Len(s) \in Nat
           /\ \A j \in 1 .. Len(s) : s[j].seq \in Nat
<1>1. \A x \in Verdict : x.seq \in Nat
  BY DEF Verdict
<1> QED
  BY <1>1, LenProperties, ElementOfSeq

LEMMA LowestOf ==
    ASSUME NEW s \in Seq(Verdict), NEW n \in 1 .. Len(s),
           \A j \in 1 .. Len(s) : s[n].seq <= s[j].seq /\ (j < n => s[n].seq # s[j].seq)
    PROVE  LowestSeq(s) = s[n]
<1> DEFINE least == {i \in DOMAIN s : \A j \in DOMAIN s : s[i].seq <= s[j].seq}
<1>1. DOMAIN s = 1 .. Len(s) /\ \A j \in 1 .. Len(s) : s[j].seq \in Nat
  BY VerdictsOf
<1>2. least \subseteq Nat /\ n \in least /\ \A m \in least : n <= m
  <2>1. ASSUME NEW m \in least, m < n PROVE FALSE
    <3>1. s[m].seq <= s[n].seq /\ s[n].seq <= s[m].seq /\ s[n].seq # s[m].seq
      BY <1>1, <2>1
    <3> QED
      BY <1>1, <2>1, <3>1
  <2> QED
    BY <1>1, <2>1
<1>3. Min(least) = n
  BY <1>2, MinIs
<1>4. s # <<>>
  <2>1. Len(s) # 0
    BY <1>1
  <2> QED
    BY <2>1
<1> QED
  BY <1>3, <1>4 DEF LowestSeq

(* At most one of a kind: the three that a chunk is searched for. *)
AtMostOne(s) == s \in Seq(Verdict) /\ Len(s) \in {0, 1} /\ (Len(s) = 1 => Failure(s[1]))

LEMMA LowestIsOneOf ==
    ASSUME NEW a, NEW b, NEW c, AtMostOne(a), AtMostOne(b), AtMostOne(c),
           NEW l, l = LowestSeq(a \o b \o c)
    PROVE  /\ Len(a) = 0 /\ Len(b) = 0 /\ Len(c) = 0 => l = Clean
           /\ Len(a) = 1 \/ Len(b) = 1 \/ Len(c) = 1 => Failure(l)
           /\ Len(a) = 0 /\ Len(b) = 0 /\ Len(c) = 1 => l = c[1]
           /\ Len(a) = 0 /\ Len(b) = 1 /\ Len(c) = 0 => l = b[1]
           /\ Len(a) = 1 /\ Len(b) = 0 /\ Len(c) = 0 => l = a[1]
           /\ Len(a) = 0 /\ Len(b) = 1 /\ Len(c) = 1 => l = Lower(b[1], c[1])
           /\ Len(a) = 1 /\ Len(b) = 0 /\ Len(c) = 1 => l = Lower(a[1], c[1])
           /\ Len(a) = 1 /\ Len(b) = 1 /\ Len(c) = 0 => l = Lower(a[1], b[1])
           /\ Len(a) = 1 /\ Len(b) = 1 /\ Len(c) = 1 => l = Lower(a[1], Lower(b[1], c[1]))
<1>1. /\ a \in Seq(Verdict) /\ b \in Seq(Verdict) /\ c \in Seq(Verdict)
      /\ Len(a) \in {0, 1} /\ Len(b) \in {0, 1} /\ Len(c) \in {0, 1}
      /\ \A s \in {a, b, c} : Len(s) = 1 => Failure(s[1]) /\ s[1].seq \in Nat
  <2>1. \A s : AtMostOne(s) => s \in Seq(Verdict) /\ Len(s) \in {0, 1} /\ (Len(s) = 1 => Failure(s[1]))
    BY DEF AtMostOne
  <2>2. \A x : Failure(x) => x.seq \in Nat
    BY VerdictKinds
  <2> HIDE DEF AtMostOne
  <2> QED
    BY <2>1, <2>2
<1> DEFINE ab == a \o b
           s == ab \o c
<1>2. /\ ab \in Seq(Verdict) /\ Len(ab) = Len(a) + Len(b)
      /\ Len(a) = 1 => ab[1] = a[1]
      /\ Len(b) = 1 => ab[Len(a) + 1] = b[1]
  BY <1>1, ConcatProperties
<1> HIDE DEF ab
<1>3. /\ s \in Seq(Verdict) /\ Len(s) = Len(a) + Len(b) + Len(c)
      /\ \A i \in 1 .. Len(ab) : s[i] = ab[i]
      /\ Len(c) = 1 => s[Len(a) + Len(b) + 1] = c[1]
  BY <1>1, <1>2, ConcatProperties
<1>4. /\ Len(a) = 1 => s[1] = a[1]
      /\ Len(b) = 1 => s[Len(a) + 1] = b[1]
  BY <1>1, <1>2, <1>3
<1>5. l = LowestSeq(s)
  BY DEF ab
<1> HIDE DEF s
<1>6. ASSUME Len(s) = 0 PROVE l = Clean
  <2>1. s = <<>>
    BY <1>3, <1>6
  <2> QED
    BY <1>5, <2>1 DEF LowestSeq
<1>7. ASSUME NEW n \in 1 .. Len(s),
             \A j \in 1 .. Len(s) : s[n].seq <= s[j].seq /\ (j < n => s[n].seq # s[j].seq)
      PROVE  l = s[n]
  BY <1>3, <1>5, <1>7, LowestOf
<1>8. CASE Len(a) = 0 /\ Len(b) = 0
  BY <1>1, <1>3, <1>6, <1>7, <1>8
<1>9. CASE Len(a) = 0 /\ Len(b) = 1 /\ Len(c) = 0
  BY <1>1, <1>3, <1>4, <1>7, <1>9
<1>10. CASE Len(a) = 1 /\ Len(b) = 0 /\ Len(c) = 0
  BY <1>1, <1>3, <1>4, <1>7, <1>10
<1>11. ASSUME Len(s) = 2 PROVE l = Lower(s[1], s[2])
  <2>1. s[1].seq \in Nat /\ s[2].seq \in Nat
    BY <1>3, <1>11, VerdictsOf
  <2>2. 1 .. Len(s) = {1, 2}
    BY <1>11
  <2>3. CASE s[1].seq <= s[2].seq
    <3>1. l = s[1]
      BY <1>7, <2>1, <2>2, <2>3
    <3> QED
      BY <2>3, <3>1 DEF Lower
  <2>4. CASE ~(s[1].seq <= s[2].seq)
    <3>1. l = s[2]
      BY <1>7, <2>1, <2>2, <2>4
    <3> QED
      BY <2>4, <3>1 DEF Lower
  <2> QED
    BY <2>3, <2>4
<1>12. ASSUME Len(s) = 3 PROVE l = Lower(s[1], Lower(s[2], s[3]))
  <2>2. 1 .. Len(s) = {1, 2, 3}
    BY <1>12
  <2>1. s[1].seq \in Nat /\ s[2].seq \in Nat /\ s[3].seq \in Nat
    BY <1>3, <2>2, VerdictsOf
  <2>3. CASE s[1].seq <= s[2].seq /\ s[1].seq <= s[3].seq
    <3>1. l = s[1]
      BY <1>7, <2>1, <2>2, <2>3
    <3> QED
      BY <2>3, <3>1 DEF Lower
  <2>4. CASE ~(s[1].seq <= s[2].seq /\ s[1].seq <= s[3].seq) /\ s[2].seq <= s[3].seq
    <3>1. l = s[2]
      BY <1>7, <2>1, <2>2, <2>4
    <3> QED
      BY <2>1, <2>4, <3>1 DEF Lower
  <2>5. CASE ~(s[1].seq <= s[2].seq /\ s[1].seq <= s[3].seq) /\ ~(s[2].seq <= s[3].seq)
    <3>1. l = s[3]
      BY <1>7, <2>1, <2>2, <2>5
    <3> QED
      BY <2>1, <2>5, <3>1 DEF Lower
  <2> QED
    BY <2>3, <2>4, <2>5
<1>13. CASE Len(a) = 0 /\ Len(b) = 1 /\ Len(c) = 1
  BY <1>1, <1>3, <1>4, <1>11, <1>13 DEF Lower
<1>14. CASE Len(a) = 1 /\ Len(b) = 0 /\ Len(c) = 1
  BY <1>1, <1>3, <1>4, <1>11, <1>14 DEF Lower
<1>15. CASE Len(a) = 1 /\ Len(b) = 1 /\ Len(c) = 0
  BY <1>1, <1>3, <1>4, <1>11, <1>15 DEF Lower
<1>16. CASE Len(a) = 1 /\ Len(b) = 1 /\ Len(c) = 1
  BY <1>1, <1>3, <1>4, <1>12, <1>16 DEF Lower
<1> QED
  BY <1>1, <1>8, <1>9, <1>10, <1>13, <1>14, <1>15, <1>16

------------------------------------------------------------------------------
(* A chunk: its failures are those of the entries, one by one. *)

Pre(p, es, i) == Precheck(PrevOf(es, i, p), es[i])
Ver(p, es, i) == VerifyStep(PrevOf(es, i, p), es[i])
Fails(p, es) == {i \in DOMAIN es : Ver(p, es, i) # Clean}
FirstFail(p, es) == IF Fails(p, es) = {} THEN Clean ELSE Ver(p, es, Min(Fails(p, es)))
Increasing(es) == \A i, j \in DOMAIN es : i < j => es[i].seq < es[j].seq

(* The first k entries are checked, and the next one, if any, is not. *)
Until(p, es, k) ==
    /\ Checked(p, es) = 1 .. k /\ Cardinality(Checked(p, es)) = k
    /\ \A i \in 1 .. k : Pre(p, es, i) = Clean
    /\ k < Len(es) => Pre(p, es, k + 1) # Clean

LEMMA CheckedIsPrefix ==
    ASSUME NEW p, NEW es \in Seq(Entry)
    PROVE  \E k \in 0 .. Len(es) : Until(p, es, k)
<1>1. DOMAIN es = 1 .. Len(es) /\ Len(es) \in Nat
  BY LenProperties
<1>2. ASSUME NEW k \in 0 .. Len(es), \A i \in 1 .. k : Pre(p, es, i) = Clean,
             k < Len(es) => Pre(p, es, k + 1) # Clean
      PROVE  Until(p, es, k)
  <2>1. k \in Nat
    BY <1>1
  <2>2. Checked(p, es) = {i \in DOMAIN es : \A j \in 1 .. i : Pre(p, es, j) = Clean}
    BY DEF Checked, Pre
  <2>3. Checked(p, es) \subseteq 1 .. k
    <3>1. ASSUME NEW i \in Checked(p, es), ~(i \in 1 .. k) PROVE FALSE
      <4>1. i \in 1 .. Len(es) /\ k + 1 \in 1 .. i /\ k < Len(es)
        BY <1>1, <2>1, <2>2, <3>1
      <4> QED
        BY <1>2, <2>2, <4>1
    <3> QED
      BY <3>1
  <2>4. 1 .. k \subseteq Checked(p, es)
    <3>1. ASSUME NEW i \in 1 .. k PROVE i \in Checked(p, es)
      <4>1. i \in DOMAIN es /\ \A j \in 1 .. i : j \in 1 .. k
        BY <1>1, <2>1
      <4> QED
        BY <1>2, <2>2, <4>1
    <3> QED
      BY <3>1
  <2>5. Checked(p, es) = 1 .. k
    BY <2>3, <2>4
  <2>6. Cardinality(1 .. k) = k
    BY <2>1, FS_Interval
  <2> QED
    BY <1>2, <2>5, <2>6 DEF Until
<1> DEFINE bad == {i \in DOMAIN es : Pre(p, es, i) # Clean}
<1>3. CASE bad = {}
  BY <1>1, <1>2, <1>3
<1>4. CASE bad # {}
  <2>1. bad \subseteq Nat
    BY <1>1
  <2>2. PICK m : m = Min(bad)
    OBVIOUS
  <2>5. m \in bad /\ \A j \in bad : m <= j
    <3> HIDE DEF bad
    <3> QED
      BY <1>4, <2>1, <2>2, MinIsLeast
  <2>3. m \in 1 .. Len(es) /\ Pre(p, es, m) # Clean /\ \A i \in 1 .. m - 1 : Pre(p, es, i) = Clean
    <3>1. m \in 1 .. Len(es) /\ Pre(p, es, m) # Clean
      BY <1>1, <2>5
    <3>2. ASSUME NEW i \in 1 .. m - 1, Pre(p, es, i) # Clean PROVE FALSE
      <4>1. i \in 1 .. Len(es) /\ i < m
        BY <1>1, <3>1
      <4> QED
        BY <1>1, <2>5, <3>1, <3>2, <4>1
    <3> QED
      BY <3>1, <3>2
  <2>4. m - 1 \in 0 .. Len(es) /\ m - 1 + 1 = m
    BY <1>1, <2>3
  <2> QED
    BY <1>2, <2>3, <2>4
<1> QED
  BY <1>3, <1>4

(* The entries with a bad signature, and with a bad co-signature, before   *)
(* the first that fails its precheck.                                      *)
Wrongly(es, k) == {i \in 1 .. k : es[i].sig = "wrong"}
Cosigned(es, k) == {i \in 1 .. k : VerifyAgentCosig(es[i]) # Clean}

LEMMA ChunkFailures ==
    ASSUME NEW p, NEW es \in Seq(Entry), NEW k \in 0 .. Len(es), Until(p, es, k)
    PROVE  LET a == SeqFail(p, es)
               b == MinBadSignature(p, es)
               c == CosigFail(p, es)
               B == Wrongly(es, k)
               D == Cosigned(es, k)
           IN  /\ AtMostOne(a) /\ AtMostOne(b) /\ AtMostOne(c)
               /\ Len(a) = 0 <=> k = Len(es)
               /\ Len(b) = 0 <=> B = {}
               /\ Len(c) = 0 <=> D = {}
               /\ k < Len(es) => a[1] = Pre(p, es, k + 1) /\ a[1].seq = es[k + 1].seq
               /\ B # {} => b[1] = Status("BadSignature", Min({es[i].seq : i \in B}))
               /\ D # {} => c[1] = VerifyAgentCosig(es[Min(D)]) /\ c[1].seq = es[Min(D)].seq
<1> DEFINE a == SeqFail(p, es)
           b == MinBadSignature(p, es)
           c == CosigFail(p, es)
           B == Wrongly(es, k)
           D == Cosigned(es, k)
<1>1. DOMAIN es = 1 .. Len(es) /\ Len(es) \in Nat /\ k \in Nat /\ \A i \in 1 .. Len(es) : es[i] \in Entry
  BY LenProperties, ElementOfSeq
<1>2. \A i \in 1 .. k : i \in 1 .. Len(es) /\ i \in Nat
  BY <1>1
<1>3. \A e \in Entry : e.seq \in Nat
  BY DEF Entry
<1>4. \A x : Failure(x) => AtMostOne(<<x>>) /\ Len(<<x>>) = 1 /\ <<x>>[1] = x
  <2>1. ASSUME NEW x, Failure(x) PROVE AtMostOne(<<x>>) /\ Len(<<x>>) = 1 /\ <<x>>[1] = x
    <3>1. x \in Verdict
      BY <2>1 DEF Failure
    <3> QED
      BY <2>1, <3>1 DEF AtMostOne
  <2> QED
    BY <2>1
<1>5. AtMostOne(<<>>) /\ Len(<<>>) = 0
  BY DEF AtMostOne
<1>6. /\ AtMostOne(a) /\ (Len(a) = 0 <=> k = Len(es))
      /\ k < Len(es) => a[1] = Pre(p, es, k + 1) /\ a[1].seq = es[k + 1].seq
  <2>1. CASE k = Len(es)
    <3>1. a = <<>>
      BY <1>1, <2>1 DEF SeqFail, Until
    <3> HIDE DEF a
    <3> QED
      BY <1>1, <1>5, <2>1, <3>1
  <2>2. CASE k < Len(es)
    <3>1. k + 1 \in 1 .. Len(es) /\ es[k + 1] \in Entry
      BY <1>1, <2>2
    <3>2. Failure(Pre(p, es, k + 1)) /\ Pre(p, es, k + 1).seq = es[k + 1].seq
      BY <2>2, <3>1, StepVerdicts DEF Until, Pre
    <3>3. a = <<Pre(p, es, k + 1)>>
      BY <1>1, <2>2 DEF SeqFail, Until, Pre
    <3>4. PICK x : x = Pre(p, es, k + 1)
      OBVIOUS
    <3>5. AtMostOne(a) /\ Len(a) = 1 /\ a[1] = x
      BY <1>4, <3>2, <3>3, <3>4
    <3> HIDE DEF a
    <3> QED
      BY <1>1, <2>2, <3>2, <3>4, <3>5
  <2>3. k <= Len(es) /\ k \in Nat /\ Len(es) \in Nat
    BY <1>1
  <2>4. k = Len(es) \/ k < Len(es)
    BY <2>3
  <2> HIDE DEF a
  <2> QED
    BY <2>1, <2>2, <2>4
<1>7. /\ AtMostOne(b) /\ (Len(b) = 0 <=> B = {})
      /\ B # {} => b[1] = Status("BadSignature", Min({es[i].seq : i \in B}))
  <2> DEFINE seqs == {es[i].seq : i \in B}
  <2>1. Checked(p, es) = 1 .. k
    BY DEF Until
  <2>2. B = {j \in Checked(p, es) : es[j].sig = "wrong"}
    BY <2>1 DEF Wrongly
  <2>3. b = IF seqs = {} THEN <<>> ELSE <<Status("BadSignature", Min(seqs))>>
    BY <2>2 DEF MinBadSignature
  <2>4. \A i \in B : i \in 1 .. k
    BY DEF Wrongly
  <2> HIDE DEF B, b
  <2>5. seqs \subseteq Nat /\ (seqs = {} <=> B = {})
    BY <1>1, <1>2, <1>3, <2>4
  <2>6. CASE B = {}
    BY <1>5, <2>3, <2>5, <2>6
  <2>7. CASE B # {}
    <3>1. Min(seqs) \in Nat
      BY <2>5, <2>7, MinIsLeast
    <3>2. Failure(Status("BadSignature", Min(seqs)))
      BY <3>1, VerdictKinds DEF Kinds
    <3>3. PICK x : x = Status("BadSignature", Min(seqs))
      OBVIOUS
    <3>4. b = <<x>> /\ Failure(x)
      BY <2>3, <2>5, <2>7, <3>2, <3>3
    <3>5. AtMostOne(b) /\ Len(b) = 1 /\ b[1] = x
      BY <1>4, <3>4
    <3> QED
      BY <2>7, <3>3, <3>5
  <2> QED
    BY <2>6, <2>7
<1>8. /\ AtMostOne(c) /\ (Len(c) = 0 <=> D = {})
      /\ D # {} => c[1] = VerifyAgentCosig(es[Min(D)]) /\ c[1].seq = es[Min(D)].seq
  <2>1. Checked(p, es) = 1 .. k
    BY DEF Until
  <2>2. c = IF D = {} THEN <<>> ELSE <<VerifyAgentCosig(es[Min(D)])>>
    BY <2>1 DEF CosigFail, Cosigned
  <2>3. D \subseteq 1 .. k /\ \A i \in D : VerifyAgentCosig(es[i]) # Clean
    BY DEF Cosigned
  <2> HIDE DEF D, c
  <2>4. CASE D = {}
    BY <1>5, <2>2, <2>4
  <2>5. CASE D # {}
    <3>1. D \subseteq Nat
      BY <1>2, <2>3
    <3>2. Min(D) \in D
      BY <2>5, <3>1, MinIsLeast
    <3>3. es[Min(D)] \in Entry
      BY <1>1, <1>2, <2>3, <3>2
    <3>4. Failure(VerifyAgentCosig(es[Min(D)])) /\ VerifyAgentCosig(es[Min(D)]).seq = es[Min(D)].seq
      BY <2>3, <3>2, <3>3, StepVerdicts
    <3>5. PICK x : x = VerifyAgentCosig(es[Min(D)])
      OBVIOUS
    <3>6. c = <<x>> /\ Failure(x)
      BY <2>2, <2>5, <3>4, <3>5
    <3>7. AtMostOne(c) /\ Len(c) = 1 /\ c[1] = x
      BY <1>4, <3>6
    <3> QED
      BY <2>5, <3>4, <3>5, <3>7
  <2> QED
    BY <2>4, <2>5
<1> QED
  BY <1>6, <1>7, <1>8

(* A chunk is clean if its entries are; and if the entries are numbered    *)
(* upwards, the failure of the chunk is that of its first bad entry.       *)
LEMMA ChunkVerdict ==
    ASSUME NEW p, NEW es \in Seq(Entry)
    PROVE  /\ VerifyChunk(p, es) = Clean <=> Fails(p, es) = {}
           /\ VerifyChunk(p, es) # Clean => Failure(VerifyChunk(p, es))
           /\ Increasing(es) => VerifyChunk(p, es) = FirstFail(p, es)
<1>1. PICK k \in 0 .. Len(es) : Until(p, es, k)
  BY CheckedIsPrefix
<1>2. PICK a, b, c, B, D : /\ a = SeqFail(p, es) /\ b = MinBadSignature(p, es) /\ c = CosigFail(p, es)
                           /\ B = Wrongly(es, k) /\ D = Cosigned(es, k)
  OBVIOUS
<1>3. /\ AtMostOne(a) /\ AtMostOne(b) /\ AtMostOne(c)
      /\ Len(a) = 0 <=> k = Len(es)
      /\ Len(b) = 0 <=> B = {}
      /\ Len(c) = 0 <=> D = {}
      /\ k < Len(es) => a[1] = Pre(p, es, k + 1) /\ a[1].seq = es[k + 1].seq
      /\ B # {} => b[1] = Status("BadSignature", Min({es[i].seq : i \in B}))
      /\ D # {} => c[1] = VerifyAgentCosig(es[Min(D)]) /\ c[1].seq = es[Min(D)].seq
  BY <1>1, <1>2, ChunkFailures
<1>4. PICK l : l = VerifyChunk(p, es)
  OBVIOUS
<1>5. l = LowestSeq(a \o b \o c)
  BY <1>2, <1>4 DEF VerifyChunk
<1>6. Len(a) \in {0, 1} /\ Len(b) \in {0, 1} /\ Len(c) \in {0, 1}
  BY <1>3 DEF AtMostOne
<1>7. Len(es) \in Nat /\ k \in Nat /\ k <= Len(es) /\ (k = Len(es) \/ k < Len(es))
  <2>1. Len(es) \in Nat
    BY LenProperties
  <2> QED
    BY <2>1
<1>16. DOMAIN es = 1 .. Len(es)
  BY LenProperties
<1>8. ASSUME NEW i \in 1 .. Len(es)
      PROVE  /\ es[i] \in Entry /\ es[i].seq \in Nat
             /\ Ver(p, es, i) = Clean <=> Pre(p, es, i) = Clean /\ es[i].sig # "wrong" /\ VerifyAgentCosig(es[i]) = Clean
  <2>1. es[i] \in Entry
    BY ElementOfSeq
  <2> QED
    BY <2>1, StepVerdicts DEF Ver, Pre, Entry
<1>9. ASSUME NEW i \in 1 .. k
      PROVE  /\ i \in 1 .. Len(es) /\ i \in Nat
             /\ i \in Fails(p, es) <=> i \in B \/ i \in D
             /\ i \in B <=> es[i].sig = "wrong"
             /\ i \in D <=> VerifyAgentCosig(es[i]) # Clean
  <2>1. i \in 1 .. Len(es) /\ i \in Nat
    BY <1>7
  <2> QED
    BY <1>1, <1>2, <1>16, <1>8, <2>1 DEF Fails, Wrongly, Cosigned, Until
<1>10. k < Len(es) => k + 1 \in Fails(p, es) /\ k + 1 \in 1 .. Len(es)
  <2>1. ASSUME k < Len(es) PROVE k + 1 \in 1 .. Len(es)
    BY <1>7, <2>1
  <2>2. k < Len(es) => Pre(p, es, k + 1) # Clean
    BY <1>1 DEF Until
  <2> QED
    BY <1>8, <1>16, <2>1, <2>2 DEF Fails
<1>11. B \subseteq 1 .. k /\ D \subseteq 1 .. k
  BY <1>2 DEF Wrongly, Cosigned
<1>12. Fails(p, es) \subseteq 1 .. Len(es) /\ Fails(p, es) \subseteq Nat
  BY <1>16 DEF Fails
<1>13. Fails(p, es) = {} <=> B = {} /\ D = {} /\ k = Len(es)
  <2>1. ASSUME Fails(p, es) = {} PROVE B = {} /\ D = {} /\ k = Len(es)
    <3>1. B = {} /\ D = {}
      BY <1>9, <1>11, <2>1
    <3>2. ~(k < Len(es))
      BY <1>10, <2>1
    <3> QED
      BY <1>7, <3>1, <3>2
  <2>2. ASSUME B = {}, D = {}, k = Len(es) PROVE Fails(p, es) = {}
    BY <1>9, <1>12, <2>2
  <2> QED
    BY <2>1, <2>2
<1>14. (l = Clean <=> Fails(p, es) = {}) /\ (l # Clean => Failure(l))
  BY <1>3, <1>5, <1>6, <1>13, LowestIsOneOf, VerdictKinds
<1>15. ASSUME Increasing(es) PROVE l = FirstFail(p, es)
  <2>1. \A i, j \in 1 .. Len(es) : i < j => es[i].seq < es[j].seq
    BY <1>16, <1>15 DEF Increasing
  <2>2. \A i, j \in 1 .. Len(es) : i <= j => es[i].seq <= es[j].seq
    BY <1>7, <1>8, <2>1
  <2>3. ASSUME NEW m \in Fails(p, es), \A i \in Fails(p, es) : m <= i
        PROVE  FirstFail(p, es) = Ver(p, es, m)
    <3>1. Min(Fails(p, es)) = m
      BY <1>12, <2>3, MinIs
    <3> QED
      BY <2>3, <3>1 DEF FirstFail
  <2>4. CASE B = {} /\ D = {} /\ k = Len(es)
    BY <1>13, <1>14, <2>4 DEF FirstFail
  <2>5. CASE B = {} /\ D = {} /\ k < Len(es)
    <3>1. Len(a) = 1 /\ Len(b) = 0 /\ Len(c) = 0
      BY <1>3, <1>6, <1>7, <2>5
    <3>5. l = Pre(p, es, k + 1)
      BY <1>3, <1>5, <2>5, <3>1, LowestIsOneOf
    <3>2. \A i \in Fails(p, es) : k + 1 <= i
      BY <1>7, <1>9, <1>12, <2>5
    <3>3. FirstFail(p, es) = Ver(p, es, k + 1)
      BY <1>10, <2>3, <2>5, <3>2
    <3>4. Pre(p, es, k + 1) # Clean
      BY <1>1, <2>5 DEF Until
    <3> QED
      BY <3>3, <3>4, <3>5 DEF Ver, Pre, VerifyStep
  <2>9. B \subseteq Nat /\ D \subseteq Nat
    BY <1>9, <1>11
  <2>8. /\ B # {} => Min(B) \in B /\ \A i \in B : Min(B) <= i
        /\ D # {} => Min(D) \in D /\ \A i \in D : Min(D) <= i
    BY <2>9, MinIsLeast
  <2>6. ASSUME NEW m \in B, \A i \in B : m <= i, D # {} => m <= Min(D)
        PROVE  l = FirstFail(p, es)
    <3>1. m \in 1 .. k /\ m \in 1 .. Len(es) /\ es[m].seq \in Nat /\ m \in Nat
      BY <1>8, <1>9, <1>11, <2>6
    <3>2. m \in Fails(p, es) /\ Pre(p, es, m) = Clean
      BY <1>1, <1>9, <3>1, <2>6 DEF Until
    <3>3. FirstFail(p, es) = Ver(p, es, m)
      <4>1. ASSUME NEW i \in Fails(p, es) PROVE m <= i
        <5>1. CASE i \in 1 .. k
          <6>1. i \in B \/ i \in D
            BY <1>9, <4>1, <5>1
          <6>2. ASSUME i \in D PROVE m <= i
            <7>1. Min(D) \in Nat /\ i \in Nat /\ m <= Min(D) /\ Min(D) <= i
              BY <2>6, <2>8, <2>9, <6>2
            <7> QED
              BY <3>1, <7>1
          <6> QED
            BY <2>6, <6>1, <6>2
        <5>2. CASE ~(i \in 1 .. k)
          BY <1>7, <1>12, <3>1, <5>2
        <5> QED
          BY <5>1, <5>2
      <4> QED
        BY <2>3, <3>2, <4>1
    <3>4. k < Len(es) => es[m].seq <= es[k + 1].seq /\ es[k + 1].seq \in Nat /\ es[m].seq # es[k + 1].seq
      BY <1>7, <1>8, <1>10, <2>1, <3>1
    <3>5. b[1] = Status("BadSignature", es[m].seq) /\ b[1].seq = es[m].seq /\ Len(b) = 1
      <4> DEFINE seqs == {es[i].seq : i \in B}
      <4>1. \A i \in B : i \in 1 .. Len(es) /\ m <= i
        BY <1>9, <1>11, <2>6
      <4>2. seqs \subseteq Nat /\ es[m].seq \in seqs /\ \A n \in seqs : es[m].seq <= n
        BY <1>8, <2>2, <2>6, <3>1, <4>1
      <4>3. Min(seqs) = es[m].seq
        BY <4>2, MinIs
      <4> QED
        BY <1>3, <1>6, <2>6, <3>1, <4>3 DEF Status
    <3>6. Len(c) = 1 => es[m].seq <= c[1].seq /\ c[1].seq \in Nat
      <4>1. ASSUME Len(c) = 1 PROVE es[m].seq <= es[Min(D)].seq /\ es[Min(D)].seq \in Nat /\ D # {}
        <5>2. D # {}
          BY <1>3, <4>1
        <5>1. D # {} /\ Min(D) \in 1 .. Len(es)
          BY <1>9, <1>11, <2>8, <5>2
        <5> QED
          BY <1>8, <2>2, <2>6, <3>1, <5>1
      <4> QED
        BY <1>3, <4>1
    <3>7. Len(a) = 1 => es[m].seq <= a[1].seq /\ a[1].seq \in Nat /\ a[1].seq # es[m].seq
      BY <1>3, <1>7, <3>4
    <3>8. l = b[1]
      BY <1>3, <1>5, <1>6, <3>1, <3>5, <3>6, <3>7, LowestIsOneOf DEF Lower
    <3>9. Ver(p, es, m) = b[1]
      BY <1>9, <2>6, <3>1, <3>2, <3>5 DEF Ver, Pre, VerifyStep
    <3> QED
      BY <3>3, <3>8, <3>9
  <2>7. ASSUME NEW m \in D, \A i \in D : m <= i, \A i \in B : m < i
        PROVE  l = FirstFail(p, es)
    <3>1. m \in 1 .. k /\ m \in 1 .. Len(es) /\ es[m].seq \in Nat /\ m \in Nat
      BY <1>8, <1>9, <1>11, <2>7
    <3>2. m \in Fails(p, es) /\ Pre(p, es, m) = Clean
      BY <1>1, <1>9, <3>1, <2>7 DEF Until
    <3>3. FirstFail(p, es) = Ver(p, es, m)
      <4>1. ASSUME NEW i \in Fails(p, es) PROVE m <= i
        <5>1. CASE i \in 1 .. k
          <6>1. i \in B \/ i \in D
            BY <1>9, <4>1, <5>1
          <6>2. ASSUME i \in B PROVE m <= i
            <7>1. i \in Nat /\ m < i
              BY <2>7, <2>9, <6>2
            <7> QED
              BY <3>1, <7>1
          <6> QED
            BY <2>7, <6>1, <6>2
        <5>2. CASE ~(i \in 1 .. k)
          BY <1>7, <1>12, <3>1, <5>2
        <5> QED
          BY <5>1, <5>2
      <4> QED
        BY <2>3, <3>2, <4>1
    <3>4. k < Len(es) => es[m].seq <= es[k + 1].seq /\ es[k + 1].seq \in Nat /\ es[m].seq # es[k + 1].seq
      BY <1>7, <1>8, <1>10, <2>1, <3>1
    <3>5. c[1] = VerifyAgentCosig(es[m]) /\ c[1].seq = es[m].seq /\ Len(c) = 1
      <4>1. Min(D) = m
        BY <2>7, <2>9, MinIs
      <4> QED
        BY <1>3, <1>6, <2>7, <4>1
    <3>6. Len(b) = 1 => es[m].seq < b[1].seq /\ b[1].seq \in Nat
      <4> DEFINE seqs == {es[i].seq : i \in B}
      <4>1. \A i \in B : i \in 1 .. Len(es) /\ m < i
        BY <1>9, <1>11, <2>7
      <4>2. seqs \subseteq Nat /\ \A n \in seqs : es[m].seq < n
        BY <1>8, <2>1, <3>1, <4>1
      <4>3. ASSUME Len(b) = 1 PROVE Min(seqs) \in seqs /\ B # {}
        <5>1. B # {}
          BY <1>3, <4>3
        <5>2. seqs # {}
          BY <5>1
        <5> HIDE DEF seqs
        <5> QED
          BY <4>2, <5>1, <5>2, MinIsLeast
      <4> HIDE DEF seqs
      <4>4. Len(b) = 1 => b[1].seq = Min(seqs)
        BY <1>3, <4>3 DEF Status, seqs
      <4> QED
        BY <4>2, <4>3, <4>4
    <3>7. Len(a) = 1 => es[m].seq <= a[1].seq /\ a[1].seq \in Nat /\ a[1].seq # es[m].seq
      BY <1>3, <1>7, <3>4
    <3>8. l = c[1]
      BY <1>3, <1>5, <1>6, <3>1, <3>5, <3>6, <3>7, LowestIsOneOf DEF Lower
    <3>9. es[m].sig # "wrong"
      <4>1. m \notin B
        BY <2>7, <3>1
      <4> QED
        BY <1>9, <3>1, <4>1
    <3>10. Ver(p, es, m) = c[1]
      BY <3>1, <3>2, <3>5, <3>9 DEF Ver, Pre, VerifyStep
    <3> QED
      BY <3>3, <3>8, <3>10
  <2> QED
    <3>1. CASE B = {} /\ D = {}
      <4>1. k = Len(es) \/ k < Len(es)
        BY <1>7
      <4> QED
        BY <2>4, <2>5, <3>1, <4>1
    <3>2. CASE B # {} /\ (D # {} => Min(B) <= Min(D))
      BY <2>6, <2>8, <3>2
    <3>3. CASE D # {} /\ ~(B # {} /\ Min(B) <= Min(D))
      <4>1. \A i \in B : i \in Nat /\ Min(B) \in Nat /\ Min(D) \in Nat /\ Min(B) <= i
        BY <1>9, <1>11, <2>8, <3>3
      <4>2. \A i \in B : Min(D) < i
        BY <3>3, <4>1
      <4> QED
        BY <2>7, <2>8, <3>3, <4>2
    <3> QED
      BY <3>1, <3>2, <3>3
<1> QED
  BY <1>4, <1>14, <1>15

------------------------------------------------------------------------------
(* The journal in chunks: what has been read is what was verified, and     *)
(* the chunk that was not yet.                                             *)

(* The first n lines are clean, and end where the chunk goes on. *)
Joins(L, es, n, p) ==
    /\ n \in Nat /\ Len(L) = n + Len(es)
    /\ \A i \in 1 .. Len(es) : es[i] = L[n + i]
    /\ \A i \in 1 .. n : Ver(Genesis, L, i) = Clean
    /\ p = IF n = 0 THEN Genesis ELSE L[n].hash
HeadOf(L, n) == IF n = 0 THEN NoHead ELSE <<L[n].seq, L[n].hash>>

LEMMA JoinedSteps ==
    ASSUME NEW L \in Seq(Entry), NEW es \in Seq(Entry), NEW n, NEW p, Joins(L, es, n, p)
    PROVE  /\ Len(es) \in Nat /\ n \in Nat /\ Len(L) = n + Len(es)
           /\ \A i \in 1 .. Len(es) : Ver(p, es, i) = Ver(Genesis, L, n + i)
           /\ Fails(Genesis, L) = {n + i : i \in Fails(p, es)}
<1>1. Len(es) \in Nat /\ n \in Nat /\ Len(L) = n + Len(es)
  BY LenProperties DEF Joins
<1>2. DOMAIN es = 1 .. Len(es) /\ DOMAIN L = 1 .. Len(L)
  BY LenProperties
<1>3. ASSUME NEW i \in 1 .. Len(es) PROVE Ver(p, es, i) = Ver(Genesis, L, n + i)
  <2>1. es[i] = L[n + i] /\ i \in Nat
    BY <1>1 DEF Joins
  <2>2. CASE i = 1
    <3>1. PrevOf(es, i, p) = p
      BY <2>2 DEF PrevOf
    <3>2. PrevOf(L, n + i, Genesis) = p
      BY <1>1, <2>2 DEF PrevOf, Joins
    <3> QED
      BY <2>1, <3>1, <3>2 DEF Ver
  <2>3. CASE i # 1
    <3>1. i - 1 \in 1 .. Len(es) /\ n + i # 1 /\ (n + i) - 1 = n + (i - 1)
      BY <1>1, <2>1, <2>3
    <3>2. es[i - 1] = L[n + (i - 1)]
      BY <3>1 DEF Joins
    <3>3. PrevOf(es, i, p) = PrevOf(L, n + i, Genesis)
      BY <2>3, <3>1, <3>2 DEF PrevOf
    <3> QED
      BY <2>1, <3>3 DEF Ver
  <2> QED
    BY <2>2, <2>3
<1>4. ASSUME NEW j \in Fails(Genesis, L) PROVE \E i \in Fails(p, es) : j = n + i
  <2>1. j \in 1 .. Len(L) /\ Ver(Genesis, L, j) # Clean
    BY <1>2 DEF Fails
  <2>2. ~(j \in 1 .. n)
    BY <2>1 DEF Joins
  <2>3. j - n \in 1 .. Len(es) /\ j = n + (j - n)
    BY <1>1, <2>1, <2>2
  <2>4. j - n \in Fails(p, es)
    BY <1>2, <1>3, <2>1, <2>3 DEF Fails
  <2> QED
    BY <2>3, <2>4
<1>5. ASSUME NEW i \in Fails(p, es) PROVE n + i \in Fails(Genesis, L)
  <2>1. i \in 1 .. Len(es) /\ Ver(p, es, i) # Clean
    BY <1>2 DEF Fails
  <2>2. n + i \in 1 .. Len(L)
    BY <1>1, <2>1
  <2> QED
    BY <1>2, <1>3, <2>1, <2>2 DEF Fails
<1> QED
  BY <1>1, <1>3, <1>4, <1>5

LEMMA StreamVerdict ==
    ASSUME NEW L \in Seq(Entry), NEW es \in Seq(Entry), NEW n, NEW p, Joins(L, es, n, p)
    PROVE  /\ VerifyEntries(L) = Clean <=> VerifyChunk(p, es) = Clean
           /\ Increasing(es) => VerifyEntries(L) = VerifyChunk(p, es)
           /\ VerifyChunk(p, es) = Clean => \A i \in 1 .. Len(L) : Ver(Genesis, L, i) = Clean
<1>1. VerifyEntries(L) = FirstFail(Genesis, L)
  BY DEF VerifyEntries, FirstFail, Fails, Ver
<1>2. /\ Len(es) \in Nat /\ n \in Nat
      /\ \A i \in 1 .. Len(es) : Ver(p, es, i) = Ver(Genesis, L, n + i)
      /\ Fails(Genesis, L) = {n + i : i \in Fails(p, es)}
  BY JoinedSteps
<1>3. /\ VerifyChunk(p, es) = Clean <=> Fails(p, es) = {}
      /\ Increasing(es) => VerifyChunk(p, es) = FirstFail(p, es)
  BY ChunkVerdict
<1>4. DOMAIN es = 1 .. Len(es) /\ DOMAIN L = 1 .. Len(L)
  BY LenProperties
<1>5. Fails(p, es) \subseteq 1 .. Len(es) /\ \A i \in Fails(p, es) : Ver(p, es, i) # Clean
  BY <1>4 DEF Fails
<1>6. Fails(p, es) \subseteq Nat /\ Fails(Genesis, L) \subseteq Nat
  BY <1>2, <1>5
<1>7. Fails(p, es) = {} <=> Fails(Genesis, L) = {}
  BY <1>2
<1>8. CASE Fails(p, es) = {}
  <2>1. VerifyEntries(L) = Clean /\ FirstFail(p, es) = Clean
    BY <1>1, <1>7, <1>8 DEF FirstFail
  <2>2. \A i \in 1 .. Len(L) : Ver(Genesis, L, i) = Clean
    BY <1>4, <1>7, <1>8 DEF Fails
  <2> QED
    BY <1>3, <1>8, <2>1, <2>2
<1>9. CASE Fails(p, es) # {}
  <2>1. PICK m : m = Min(Fails(p, es))
    OBVIOUS
  <2>2. m \in Fails(p, es) /\ \A i \in Fails(p, es) : m <= i
    BY <1>6, <1>9, <2>1, MinIsLeast
  <2>3. n + m \in Fails(Genesis, L) /\ n + m \in Nat
    BY <1>2, <1>6, <2>2
  <2>4. \A j \in Fails(Genesis, L) : n + m <= j
    <3>1. ASSUME NEW i \in Fails(p, es) PROVE n + m <= n + i
      <4>1. m \in Nat /\ i \in Nat /\ m <= i
        BY <1>6, <2>2
      <4> QED
        BY <1>2, <4>1
    <3> QED
      BY <1>2, <3>1
  <2>5. Min(Fails(Genesis, L)) = n + m
    BY <1>6, <2>3, <2>4, MinIs
  <2>6. FirstFail(Genesis, L) = Ver(Genesis, L, n + m)
    BY <1>7, <1>9, <2>5 DEF FirstFail
  <2>7. FirstFail(p, es) = Ver(p, es, m)
    BY <1>9, <2>1 DEF FirstFail
  <2>8. Ver(p, es, m) = Ver(Genesis, L, n + m) /\ Ver(p, es, m) # Clean
    BY <1>2, <1>5, <2>2
  <2> QED
    BY <1>1, <1>3, <1>9, <2>6, <2>7, <2>8
<1> QED
  BY <1>8, <1>9

------------------------------------------------------------------------------
(* The inductive invariant of the streaming verifier. *)

Placed(L) == \A i \in DOMAIN L : L[i].seq = i - 1
Agrees(verdict, L) ==
    /\ verdict = Clean <=> VerifyEntries(L) = Clean
    /\ Placed(L) => verdict = VerifyEntries(L)

StreamType ==
    /\ lines \in Seq(Entry) /\ chunk \in Seq(Entry) /\ Len(chunk) < Chunk
    /\ prev \in Nat /\ head \in {NoHead} \cup (Nat \X Nat) /\ status \in Verdict

StreamInv ==
    /\ StreamType
    /\ status = Reading => \E n \in Nat : Joins(lines, chunk, n, prev) /\ head = HeadOf(lines, n)
    /\ status # Reading => Agrees(status, lines)
    /\ status = Clean => head = HeadOf(lines, Len(lines))

LEMMA PlacedIsIncreasing ==
    ASSUME NEW L \in Seq(Entry), NEW es \in Seq(Entry), NEW n, NEW p, Joins(L, es, n, p), Placed(L)
    PROVE  Increasing(es)
<1>1. Len(es) \in Nat /\ n \in Nat /\ Len(L) = n + Len(es)
  BY JoinedSteps
<1>2. DOMAIN es = 1 .. Len(es) /\ DOMAIN L = 1 .. Len(L)
  BY LenProperties
<1>3. ASSUME NEW i \in 1 .. Len(es) PROVE es[i].seq = n + i - 1 /\ i \in Nat
  <2>1. n + i \in 1 .. Len(L) /\ i \in Nat
    BY <1>1
  <2>2. L[n + i].seq = n + i - 1
    BY <1>1, <1>2, <2>1 DEF Placed
  <2>3. es[i] = L[n + i]
    BY DEF Joins
  <2> QED
    BY <2>1, <2>2, <2>3
<1>4. \A i, j \in 1 .. Len(es) : i < j => es[i].seq < es[j].seq
  BY <1>1, <1>3
<1> QED
  BY <1>2, <1>4 DEF Increasing

(* The verdict on the chunk is one on the lines that were read; and what   *)
(* Flush leaves is their end.                                              *)
LEMMA ChunkOfStream ==
    ASSUME NEW L \in Seq(Entry), NEW es \in Seq(Entry), NEW n \in Nat, Joins(L, es, n, prev),
           head = HeadOf(L, n), prev \in Nat, Flush(es)
    PROVE  /\ Agrees(VerifyChunk(prev, es), L)
           /\ VerifyChunk(prev, es) \in Verdict /\ VerifyChunk(prev, es) # Reading
           /\ prev' \in Nat /\ head' \in {NoHead} \cup (Nat \X Nat)
           /\ VerifyChunk(prev, es) = Clean =>
                 Joins(L, <<>>, Len(L), prev') /\ head' = HeadOf(L, Len(L))
<1>1. Agrees(VerifyChunk(prev, es), L)
  BY StreamVerdict, PlacedIsIncreasing DEF Agrees
<1>2. VerifyChunk(prev, es) \in Verdict /\ VerifyChunk(prev, es) # Reading
  BY ChunkVerdict, VerdictKinds
<1>3. /\ Len(es) \in Nat /\ Len(L) = n + Len(es) /\ n \in Nat /\ Len(L) \in Nat
  BY JoinedSteps, LenProperties
<1>4. \A i \in 1 .. Len(L) : L[i] \in Entry /\ L[i].seq \in Nat /\ L[i].hash \in Nat
  <2>1. \A e \in Entry : e.seq \in Nat /\ e.hash \in Nat
    BY DEF Entry
  <2> QED
    BY <2>1, ElementOfSeq
<1>5. HeadOf(L, n) \in {NoHead} \cup (Nat \X Nat)
  <2>1. n # 0 => n \in 1 .. Len(L)
    BY <1>3
  <2> QED
    BY <1>4, <2>1 DEF HeadOf
<1>6. ASSUME NEW q, q = IF Len(L) = 0 THEN Genesis ELSE L[Len(L)].hash, VerifyChunk(prev, es) = Clean
      PROVE  Joins(L, <<>>, Len(L), q)
  <2>1. \A i \in 1 .. Len(L) : Ver(Genesis, L, i) = Clean
    BY <1>6, StreamVerdict
  <2>2. Len(<<>>) = 0 /\ 1 .. 0 = {} /\ Len(L) = Len(L) + 0
    BY <1>3
  <2> QED
    BY <1>3, <1>6, <2>1, <2>2 DEF Joins
<1>7. CASE VerifyChunk(prev, es) # Clean
  BY <1>1, <1>2, <1>5, <1>7 DEF Flush
<1>8. CASE VerifyChunk(prev, es) = Clean /\ es = <<>>
  <2>1. Len(es) = 0 /\ n = Len(L) /\ prev' = prev /\ head' = head
    BY <1>3, <1>8 DEF Flush
  <2>2. prev = IF Len(L) = 0 THEN Genesis ELSE L[Len(L)].hash
    BY <2>1 DEF Joins
  <2> QED
    BY <1>1, <1>2, <1>5, <1>6, <1>8, <2>1, <2>2
<1>9. CASE VerifyChunk(prev, es) = Clean /\ es # <<>>
  <2>1. Len(es) # 0 /\ Len(es) \in 1 .. Len(es)
    BY <1>3, <1>9, EmptySeq
  <2>2. es[Len(es)] = L[Len(L)] /\ Len(L) # 0 /\ Len(L) \in 1 .. Len(L)
    BY <1>3, <2>1 DEF Joins
  <2>3. prev' = L[Len(L)].hash /\ head' = <<L[Len(L)].seq, L[Len(L)].hash>>
    BY <1>9, <2>2 DEF Flush
  <2> QED
    BY <1>1, <1>2, <1>4, <1>6, <1>9, <2>2, <2>3 DEF HeadOf
<1> QED
  BY <1>7, <1>8, <1>9

LEMMA StreamInit == Init => StreamInv
<1> SUFFICES ASSUME Init PROVE StreamInv
  OBVIOUS
<1>1. StreamType
  BY VerifyAssumption, VerdictKinds DEF Init, StreamType, Genesis
<1>2. Joins(lines, chunk, 0, prev) /\ head = HeadOf(lines, 0)
  BY DEF Init, Joins, HeadOf
<1>3. status = Reading /\ status # Clean
  BY VerdictKinds DEF Init
<1> QED
  BY <1>1, <1>2, <1>3 DEF StreamInv

LEMMA StreamRead == StreamInv /\ ReadLine => StreamInv'
<1> SUFFICES ASSUME StreamInv, ReadLine PROVE StreamInv'
  OBVIOUS
<1>1. PICK e \in EntriesAt(Len(lines) + 1) :
         LET es == Append(chunk, e)
         IN  /\ status = Reading
             /\ lines' = Append(lines, e)
             /\ IF ~Full(es)
                THEN chunk' = es /\ UNCHANGED <<prev, head, status>>
                ELSE /\ chunk' = <<>>
                     /\ Flush(es)
                     /\ status' = IF VerifyChunk(prev, es) = Clean THEN Reading ELSE VerifyChunk(prev, es)
  BY DEF ReadLine
<1>2. PICK n \in Nat : Joins(lines, chunk, n, prev) /\ head = HeadOf(lines, n)
  BY <1>1 DEF StreamInv
<1>3. PICK L, es : L = Append(lines, e) /\ es = Append(chunk, e)
  OBVIOUS
<1>4. lines \in Seq(Entry) /\ chunk \in Seq(Entry)
  BY DEF StreamInv, StreamType
<1>5. e \in Entry
  <2>1. Len(lines) \in Nat
    BY <1>4, LenProperties
  <2> QED
    BY <2>1 DEF EntriesAt, Entry
<1>6. /\ L \in Seq(Entry) /\ Len(L) = Len(lines) + 1 /\ L[Len(lines) + 1] = e
      /\ \A i \in 1 .. Len(lines) : L[i] = lines[i]
  BY <1>3, <1>4, <1>5, AppendProperties
<1>7. /\ es \in Seq(Entry) /\ Len(es) = Len(chunk) + 1 /\ es[Len(chunk) + 1] = e
      /\ \A i \in 1 .. Len(chunk) : es[i] = chunk[i]
  BY <1>3, <1>4, <1>5, AppendProperties
<1>8. /\ Len(lines) \in Nat /\ Len(chunk) \in Nat /\ Len(lines) = n + Len(chunk)
  BY <1>2, <1>4, JoinedSteps, LenProperties
<1>9. n # 0 => n \in 1 .. Len(lines)
  BY <1>8
<1>10. head = HeadOf(L, n)
  BY <1>2, <1>6, <1>9 DEF HeadOf
<1>11. Joins(L, es, n, prev)
  <2>1. Len(L) = n + Len(es)
    BY <1>6, <1>7, <1>8
  <2>2. ASSUME NEW i \in 1 .. Len(es) PROVE es[i] = L[n + i]
    <3>1. CASE i = Len(chunk) + 1
      BY <1>6, <1>7, <1>8, <3>1
    <3>2. CASE i # Len(chunk) + 1
      <4>1. i \in 1 .. Len(chunk) /\ n + i \in 1 .. Len(lines)
        BY <1>7, <1>8, <3>2
      <4> QED
        BY <1>2, <1>6, <1>7, <4>1 DEF Joins
    <3> QED
      BY <3>1, <3>2
  <2>3. ASSUME NEW i \in 1 .. n PROVE Ver(Genesis, L, i) = Clean
    <3>1. i \in 1 .. Len(lines) /\ (i # 1 => i - 1 \in 1 .. Len(lines))
      BY <1>8
    <3>2. Ver(Genesis, L, i) = Ver(Genesis, lines, i)
      BY <1>6, <3>1 DEF Ver, PrevOf
    <3> QED
      BY <1>2, <3>2 DEF Joins
  <2>4. prev = IF n = 0 THEN Genesis ELSE L[n].hash
    BY <1>2, <1>6, <1>9 DEF Joins
  <2> QED
    BY <2>1, <2>2, <2>3, <2>4 DEF Joins
<1>12. CASE ~Full(es)
  <2>1. lines' = L /\ chunk' = es /\ prev' = prev /\ head' = head /\ status' = status /\ Len(es) < Chunk
    BY <1>1, <1>3, <1>7, <1>8, <1>12, VerifyAssumption DEF Full
  <2>2. StreamType'
    BY <1>6, <1>7, <2>1 DEF StreamInv, StreamType
  <2>3. (status = Reading)' /\ (status # Clean)'
    BY <1>1, <2>1, VerdictKinds
  <2>4. Joins(lines', chunk', n, prev') /\ head' = HeadOf(lines', n)
    BY <1>10, <1>11, <2>1
  <2> QED
    BY <2>2, <2>3, <2>4 DEF StreamInv
<1>13. CASE Full(es)
  <2>1. /\ lines' = L /\ chunk' = <<>> /\ Flush(es)
        /\ status' = IF VerifyChunk(prev, es) = Clean THEN Reading ELSE VerifyChunk(prev, es)
    BY <1>1, <1>3, <1>13
  <2>2. /\ Agrees(VerifyChunk(prev, es), L)
        /\ VerifyChunk(prev, es) \in Verdict /\ VerifyChunk(prev, es) # Reading
        /\ prev' \in Nat /\ head' \in {NoHead} \cup (Nat \X Nat)
        /\ VerifyChunk(prev, es) = Clean =>
              Joins(L, <<>>, Len(L), prev') /\ head' = HeadOf(L, Len(L))
    <3>1. prev \in Nat
      BY DEF StreamInv, StreamType
    <3> QED
      BY <1>6, <1>7, <1>10, <1>11, <2>1, <3>1, ChunkOfStream
  <2>3. StreamType'
    <3>1. <<>> \in Seq(Entry) /\ Len(<<>>) = 0 /\ 0 < Chunk
      BY VerifyAssumption
    <3> QED
      BY <1>6, <2>1, <2>2, <3>1, VerdictKinds DEF StreamType
  <2>4. CASE VerifyChunk(prev, es) = Clean
    <3>1. status' = Reading /\ status' # Clean /\ Len(L) \in Nat
      BY <1>6, <1>8, <2>1, <2>4, VerdictKinds
    <3>2. Joins(lines', chunk', Len(L), prev') /\ head' = HeadOf(lines', Len(L))
      BY <2>1, <2>2, <2>4
    <3> QED
      BY <2>3, <3>1, <3>2 DEF StreamInv
  <2>5. CASE VerifyChunk(prev, es) # Clean
    <3>1. status' # Reading /\ status' # Clean /\ Agrees(status', lines')
      BY <2>1, <2>2, <2>5
    <3> QED
      BY <2>3, <3>1 DEF StreamInv
  <2> QED
    BY <2>4, <2>5
<1> QED
  BY <1>12, <1>13

LEMMA StreamEnd == StreamInv /\ EndOfFile => StreamInv'
<1> SUFFICES ASSUME StreamInv, EndOfFile PROVE StreamInv'
  OBVIOUS
<1>1. /\ status = Reading /\ Flush(chunk) /\ status' = VerifyChunk(prev, chunk)
      /\ chunk' = <<>> /\ lines' = lines
  BY DEF EndOfFile
<1>2. PICK n \in Nat : Joins(lines, chunk, n, prev) /\ head = HeadOf(lines, n)
  BY <1>1 DEF StreamInv
<1>3. lines \in Seq(Entry) /\ chunk \in Seq(Entry) /\ prev \in Nat
  BY DEF StreamInv, StreamType
<1>4. /\ Agrees(status', lines')
      /\ status' \in Verdict /\ status' # Reading
      /\ prev' \in Nat /\ head' \in {NoHead} \cup (Nat \X Nat)
      /\ status' = Clean => head' = HeadOf(lines', Len(lines'))
  BY <1>1, <1>2, <1>3, ChunkOfStream
<1>5. StreamType'
  <2>1. <<>> \in Seq(Entry) /\ Len(<<>>) = 0 /\ 0 < Chunk
    BY VerifyAssumption
  <2> QED
    BY <1>1, <1>3, <1>4, <2>1 DEF StreamType
<1> QED
  BY <1>4, <1>5 DEF StreamInv

LEMMA StreamStep == StreamInv /\ [Next]_vars => StreamInv'
<1>1. StreamInv /\ UNCHANGED vars => StreamInv'
  BY DEF StreamInv, StreamType, vars
<1> QED
  BY <1>1, StreamRead, StreamEnd DEF Next

LEMMA StreamAgrees == StreamInv => VerifiersAgree
<1> SUFFICES ASSUME StreamInv, status # Reading PROVE VerifiersAgree
  BY DEF VerifiersAgree, FailuresAgree, AcceptTheSame, HeadsAgree
<1>1. Agrees(status, lines) /\ (status = Clean => head = HeadOf(lines, Len(lines)))
  BY DEF StreamInv
<1>2. InPlace => Placed(lines)
  BY DEF InPlace, Placed
<1>3. FailuresAgree /\ AcceptTheSame
  BY <1>1, <1>2 DEF FailuresAgree, AcceptTheSame, Agrees
<1>4. ASSUME InPlace, NEW i \in 0 .. MaxLen
      PROVE  VerifyJournalAt(<<i, i + 1>>) = VerifyEntriesAt(lines, <<i, i + 1>>)
  <2>1. status = VerifyEntries(lines)
    BY <1>1, <1>2, <1>4 DEF Agrees
  <2>2. CASE status # Clean
    BY <2>1, <2>2 DEF VerifyJournalAt, VerifyEntriesAt
  <2>3. CASE status = Clean /\ lines = <<>>
    <3>1. Len(lines) = 0 /\ NoHead # <<i, i + 1>>
      BY <2>3 DEF NoHead
    <3>2. head = NoHead
      BY <1>1, <2>3, <3>1 DEF HeadOf
    <3> QED
      BY <2>1, <2>3, <3>1, <3>2 DEF VerifyJournalAt, VerifyEntriesAt
  <2>4. CASE status = Clean /\ lines # <<>>
    <3>1. Len(lines) # 0
      BY <2>4, EmptySeq DEF StreamInv, StreamType
    <3>2. head = <<lines[Len(lines)].seq, lines[Len(lines)].hash>>
      BY <1>1, <2>4, <3>1 DEF HeadOf
    <3> QED
      BY <2>1, <2>4, <3>2 DEF VerifyJournalAt, VerifyEntriesAt
  <2> QED
    BY <2>2, <2>3, <2>4
<1>5. HeadsAgree
  BY <1>4 DEF HeadsAgree
<1> QED
  BY <1>3, <1>5 DEF VerifiersAgree

(* However a journal is cut into chunks, and whatever is wrong with its    *)
(* entries: the streaming verifier and the resident one accept the same    *)
(* journals, and where the entries are numbered by position they report    *)
(* the same failure and agree on every pinned head.                        *)
THEOREM AlwaysVerifiersAgree == Spec => []VerifiersAgree
  BY StreamInit, StreamStep, StreamAgrees, PTL DEF Spec

=============================================================================
