---------------------------- MODULE AuditProofs ----------------------------
(***************************************************************************)
(* Theorems about AuditJournal: for every number of ledgers on a journal,  *)
(* of entries, agents and faults, and every cap of the resident window.    *)
(***************************************************************************)
EXTENDS AuditJournal, SequenceTheorems, FiniteSetTheorems, NaturalsInduction,
        WellFoundedInduction, TLAPS

------------------------------------------------------------------------------
(* Positions kept, in their order. *)

(* A set of naturals that is not empty has a least element.                *)
LEMMA LeastElement ==
    ASSUME NEW T, T \subseteq Nat, T # {}
    PROVE  \E n \in T : \A m \in T : n <= m
<1>1. \E n \in T : \A m \in T : ~(<<m, n>> \in OpToRel(<, Nat))
  BY WFMin, NatLessThanWellFounded, Zenon
<1>2. PICK n \in T : \A m \in T : ~(<<m, n>> \in OpToRel(<, Nat))
  BY <1>1
<1>3. ASSUME NEW m \in T PROVE n <= m
  <2>1. m \in Nat /\ n \in Nat /\ <<m, n>> \in Nat \X Nat
    OBVIOUS
  <2>2. ~(m < n)
    BY <1>2, <2>1, Zenon DEF OpToRel
  <2> QED
    BY <2>1, <2>2
<1> QED
  BY <1>3

LEMMA FinitePart ==
    ASSUME NEW N \in Nat, NEW I, I \subseteq 1 .. N
    PROVE  /\ IsFiniteSet(I) /\ Cardinality(I) \in Nat
           /\ \A i \in I : i \in 1 .. N
<1>1. IsFiniteSet(1 .. N)
  BY FS_Interval
<1>2. IsFiniteSet(I)
  BY <1>1, FS_Subset
<1> QED
  BY <1>2, FS_CardinalityType

UpTo(I, n) == {m \in I : m <= n}
Rank(I, i) == Cardinality(UpTo(I, i))

LEMMA RankGrows ==
    ASSUME NEW N \in Nat, NEW I, I \subseteq 1 .. N, NEW n \in 0 .. N
    PROVE  /\ Rank(I, n) \in Nat
           /\ Rank(I, N) = Cardinality(I)
           /\ Rank(I, 0) = 0
           /\ n > 0 /\ n \in I => Rank(I, n) = Rank(I, n - 1) + 1
           /\ n > 0 /\ n \notin I => Rank(I, n) = Rank(I, n - 1)
<1>0. \A i \in I : i \in 1 .. N
  BY FinitePart
<1>1. ASSUME NEW m \in Nat PROVE IsFiniteSet(UpTo(I, m)) /\ Rank(I, m) \in Nat
  <2>1. UpTo(I, m) \subseteq 1 .. N
    BY DEF UpTo
  <2> QED
    BY <2>1, FinitePart DEF Rank
<1>2. UpTo(I, N) = I
  <2>1. ASSUME NEW i \in I PROVE i <= N
    BY <1>0
  <2> QED
    BY <2>1 DEF UpTo
<1>3. UpTo(I, 0) = {}
  <2>1. ASSUME NEW i \in I PROVE ~(i <= 0)
    BY <1>0
  <2> QED
    BY <2>1 DEF UpTo
<1>4. ASSUME n > 0
      PROVE  UpTo(I, n) = IF n \in I THEN UpTo(I, n - 1) \cup {n} ELSE UpTo(I, n - 1)
  <2>1. ASSUME NEW m \in I PROVE m <= n <=> m <= n - 1 \/ m = n
    BY <1>0, <2>1
  <2> QED
    BY <2>1 DEF UpTo
<1>5. n \notin UpTo(I, n - 1)
  BY DEF UpTo
<1>6. ASSUME n > 0, n \in I PROVE Rank(I, n) = Rank(I, n - 1) + 1
  <2>1. n - 1 \in Nat
    BY <1>6
  <2> QED
    BY <1>1, <1>4, <1>5, <1>6, <2>1, FS_AddElement DEF Rank
<1>7. Rank(I, N) = Cardinality(I) /\ Rank(I, 0) = 0
  BY <1>2, <1>3, FS_EmptySet DEF Rank
<1>8. ASSUME n > 0, n \notin I PROVE Rank(I, n) = Rank(I, n - 1)
  BY <1>4, <1>8 DEF Rank
<1> QED
  BY <1>1, <1>6, <1>7, <1>8

(* Kept takes its elements from the positions it is given.                 *)
LEMMA RankExists ==
    ASSUME NEW N \in Nat, NEW I, I \subseteq 1 .. N, NEW k \in 1 .. Cardinality(I)
    PROVE  \E i \in I : Rank(I, i) = k
<1> DEFINE T == {n \in 0 .. N : Rank(I, n) >= k}
<1>1. Cardinality(I) \in Nat
  BY FinitePart
<1>2. \A n \in 0 .. N :
          /\ Rank(I, n) \in Nat
          /\ n > 0 /\ n \in I => Rank(I, n) = Rank(I, n - 1) + 1
          /\ n > 0 /\ n \notin I => Rank(I, n) = Rank(I, n - 1)
  BY RankGrows
<1>3. Rank(I, N) = Cardinality(I) /\ Rank(I, 0) = 0
  BY RankGrows, 0 \in 0 .. N
<1>4. N \in T /\ T \subseteq Nat
  BY <1>1, <1>3
<1>5. PICK n \in T : \A m \in T : n <= m
  BY <1>4, LeastElement
<1>6. n \in 0 .. N /\ Rank(I, n) >= k
  BY <1>5
<1>7. n > 0
  BY <1>1, <1>3, <1>6
<1>8. n - 1 \in 0 .. N /\ n - 1 \notin T
  BY <1>5, <1>6, <1>7
<1>9. Rank(I, n - 1) < k
  BY <1>1, <1>2, <1>8
<1> QED
  BY <1>1, <1>2, <1>6, <1>7, <1>8, <1>9

LEMMA KeptElements ==
    ASSUME NEW N \in Nat, NEW I, I \subseteq 1 .. N, NEW s
    PROVE  /\ Cardinality(I) \in Nat
           /\ Kept(s, I) = [k \in 1 .. Cardinality(I) |-> Kept(s, I)[k]]
           /\ \A k \in 1 .. Cardinality(I) : \E i \in I : Kept(s, I)[k] = s[i]
<1>1. Cardinality(I) \in Nat
  BY FinitePart
<1>2. ASSUME NEW k \in 1 .. Cardinality(I)
      PROVE  \E i \in I : Kept(s, I)[k] = s[i]
  <2>1. \E i \in I : Rank(I, i) = k
    BY RankExists
  <2>2. PICK i \in I : i = CHOOSE j \in I : Rank(I, j) = k
    BY <2>1
  <2>3. Kept(s, I)[k] = s[i]
    BY <2>2 DEF Kept, Rank, UpTo
  <2> QED
    BY <2>3
<1> QED
  BY <1>1, <1>2 DEF Kept

(* What is kept of a range of positions is that part of the sequence.      *)
LEMMA KeptRange ==
    ASSUME NEW a \in Nat, a > 0, NEW b \in Nat, a <= b + 1, NEW s
    PROVE  /\ Kept(s, a .. b) = [k \in 1 .. (b - a) + 1 |-> s[(k + a) - 1]]
           /\ Cardinality(a .. b) = (b - a) + 1
<1>1. Cardinality(a .. b) = (b - a) + 1
  <2>1. Cardinality(a .. b) = IF a > b THEN 0 ELSE b - a + 1
    BY FS_Interval, a \in Int, b \in Int, Zenon
  <2> QED
    BY <2>1
<1>2. ASSUME NEW i \in a .. b PROVE Cardinality({m \in a .. b : m <= i}) = (i - a) + 1
  <2>1. {m \in a .. b : m <= i} = a .. i
    OBVIOUS
  <2>2. a \in Int /\ i \in Int /\ ~(a > i)
    OBVIOUS
  <2>3. Cardinality(a .. i) = (i - a) + 1
    BY <2>2, FS_Interval
  <2> QED
    BY <2>1, <2>3
<1>3. ASSUME NEW k \in 1 .. (b - a) + 1
      PROVE  (CHOOSE i \in a .. b : Cardinality({m \in a .. b : m <= i}) = k) = (k + a) - 1
  <2>1. (k + a) - 1 \in a .. b
    OBVIOUS
  <2>2. Cardinality({m \in a .. b : m <= (k + a) - 1}) = ((k + a) - 1 - a) + 1
    BY <2>1, <1>2, Zenon
  <2>3. ASSUME NEW i \in a .. b, Cardinality({m \in a .. b : m <= i}) = k PROVE i = (k + a) - 1
    BY <1>2, <2>3
  <2>4. ((k + a) - 1 - a) + 1 = k
    OBVIOUS
  <2> QED
    BY <2>1, <2>2, <2>3, <2>4, Zenon
<1>4. Kept(s, a .. b) = [k \in 1 .. (b - a) + 1 |->
                           s[CHOOSE i \in a .. b : Cardinality({m \in a .. b : m <= i}) = k]]
  BY <1>1 DEF Kept
<1> QED
  BY <1>1, <1>3, <1>4

------------------------------------------------------------------------------
(* Chains of entries. *)

(* What this code writes: numbered by its place in its own chain.          *)
Honest(e) ==
    /\ e \in Entry
    /\ e.seq = Len(e.prev)
    /\ e.hash = EntryHash(e.seq, e.prev, e.record)
HonestSeq(es) == es \in Seq(Entry) /\ \A i \in DOMAIN es : Honest(es[i])

Linked(es) == \A i \in DOMAIN es : es[i].prev = IF i = 1 THEN Genesis ELSE es[i - 1].hash
Numbered(es) == \A i \in DOMAIN es : es[i].seq + 1 = i
SignedBy(es, trusted) == \A i \in DOMAIN es : es[i].agent \in trusted \cup {NoAgent}

LEMMA HashOfHonest ==
    ASSUME NEW e, Honest(e)
    PROVE  /\ e.seq \in Nat /\ e.prev \in Hash /\ e.hash \in Hash
           /\ Len(e.prev) = e.seq /\ Len(e.hash) = e.seq + 1
           /\ e.hash[e.seq + 1] = <<e.seq, e.record>>
           /\ \A k \in 1 .. e.seq : e.hash[k] = e.prev[k]
BY DEF Honest, Entry, Hash, EntryHash

LEMMA CleanMeans ==
    ASSUME NEW es \in Seq(Entry), NEW trusted
    PROVE  Clean(es, trusted) <=>
              /\ Linked(es) /\ SignedBy(es, trusted)
              /\ \A i \in DOMAIN es : es[i].hash = EntryHash(es[i].seq, es[i].prev, es[i].record)
<1>1. ASSUME NEW i \in DOMAIN es
      PROVE  LastHash(SubSeq(es, 1, i - 1)) = IF i = 1 THEN Genesis ELSE es[i - 1].hash
  <2>1. i \in 1 .. Len(es) /\ i \in Nat /\ i >= 1
    BY LenProperties
  <2>2. CASE i = 1
    <3>1. SubSeq(es, 1, i - 1) = <<>>
      BY <2>2, SubSeqEmpty
    <3> QED
      BY <2>2, <3>1 DEF LastHash
  <2>3. CASE i # 1
    <3>1. \A k \in 1 .. i - 1 : es[k] \in Entry
      BY <2>1
    <3>2. /\ Len(SubSeq(es, 1, i - 1)) = i - 1
          /\ SubSeq(es, 1, i - 1)[i - 1] = es[i - 1]
      BY <2>1, <2>3, <3>1, SubSeqProperties
    <3>3. SubSeq(es, 1, i - 1) # <<>>
      BY <2>1, <2>3, <3>2
    <3> QED
      BY <2>3, <3>2, <3>3 DEF LastHash
  <2> QED
    BY <2>2, <2>3
<1> QED
  BY <1>1 DEF Clean, Linked, SignedBy

(* A chain is numbered from its first entry on: the first that is not      *)
(* would follow one that is.                                               *)
LEMMA ChainIsNumbered ==
    ASSUME NEW es, HonestSeq(es), Linked(es)
    PROVE  Numbered(es)
<1> DEFINE Wrong == {i \in DOMAIN es : es[i].seq + 1 # i}
<1>0. DOMAIN es = 1 .. Len(es) /\ Len(es) \in Nat
  BY DEF HonestSeq
<1>1. SUFFICES ASSUME Wrong # {} PROVE FALSE
  BY DEF Numbered
<1>2. Wrong \subseteq Nat
  BY <1>0
<1>3. PICK i \in Wrong : \A m \in Wrong : i <= m
  BY <1>1, <1>2, LeastElement
<1>4. i \in DOMAIN es /\ i \in Nat /\ i >= 1 /\ es[i].seq + 1 # i /\ Honest(es[i])
  BY <1>0, <1>3 DEF HonestSeq
<1>5. i # 1
  BY <1>4, HashOfHonest DEF Linked, Genesis
<1>6. i - 1 \in DOMAIN es /\ i - 1 \notin Wrong
  BY <1>0, <1>3, <1>4, <1>5
<1>7. es[i - 1].seq + 1 = i - 1 /\ Honest(es[i - 1])
  BY <1>6 DEF HonestSeq
<1>8. es[i].prev = es[i - 1].hash
  BY <1>4, <1>5 DEF Linked
<1>9. es[i].seq = es[i - 1].seq + 1
  BY <1>4, <1>7, <1>8, HashOfHonest
<1> QED
  BY <1>4, <1>7, <1>9

(* Along a chain every hash covers those before it.                        *)
Covers(hash, part) == Len(part) <= Len(hash) /\ \A k \in 1 .. Len(part) : part[k] = hash[k]
ChainUpTo(es, n) == \A i \in 1 .. n : Covers(es[n].hash, es[i].hash)

LEMMA ChainCovers ==
    ASSUME NEW es, HonestSeq(es), Linked(es)
    PROVE  \A n \in DOMAIN es : ChainUpTo(es, n)
<1> DEFINE Wrong == {n \in DOMAIN es : ~ChainUpTo(es, n)}
<1>0. DOMAIN es = 1 .. Len(es) /\ Len(es) \in Nat /\ Numbered(es)
  BY ChainIsNumbered DEF HonestSeq
<1>1. SUFFICES ASSUME Wrong # {} PROVE FALSE
  OBVIOUS
<1>2. Wrong \subseteq Nat
  BY <1>0
<1>3. PICK n \in Wrong : \A m \in Wrong : n <= m
  BY <1>1, <1>2, LeastElement
<1>4. n \in DOMAIN es /\ n \in Nat /\ n >= 1 /\ Honest(es[n]) /\ es[n].seq + 1 = n
  BY <1>0, <1>3 DEF HonestSeq, Numbered
<1>5. Covers(es[n].hash, es[n].hash)
  BY <1>4, HashOfHonest DEF Covers
<1>6. n # 1
  BY <1>3, <1>4, <1>5 DEF ChainUpTo
<1>7. n - 1 \in DOMAIN es /\ n - 1 \notin Wrong
  BY <1>0, <1>3, <1>4, <1>6
<1>8. ChainUpTo(es, n - 1)
  BY <1>7
<1>9. es[n].prev = es[n - 1].hash
  BY <1>4, <1>6 DEF Linked
<1>10. ASSUME NEW i \in 1 .. n - 1 PROVE Covers(es[n].hash, es[i].hash)
  <2>1. Covers(es[n].prev, es[i].hash)
    BY <1>8, <1>9 DEF ChainUpTo
  <2>2. i \in DOMAIN es /\ Honest(es[i])
    BY <1>0, <1>4 DEF HonestSeq
  <2>3. Len(es[i].hash) \in Nat
    BY <2>2, HashOfHonest
  <2>4. /\ Len(es[n].prev) = es[n].seq /\ Len(es[n].hash) = es[n].seq + 1 /\ es[n].seq \in Nat
        /\ \A k \in 1 .. es[n].seq : es[n].hash[k] = es[n].prev[k]
    BY <1>4, HashOfHonest
  <2> QED
    BY <2>1, <2>3, <2>4 DEF Covers
<1>11. ChainUpTo(es, n)
  BY <1>4, <1>5, <1>10 DEF ChainUpTo
<1> QED
  BY <1>3, <1>11

------------------------------------------------------------------------------
(* The journal. *)

Journals == {j \in Seq(Seq(Piece)) : j # <<>>}
JournalHonest(j) == \A i \in DOMAIN j : \A k \in DOMAIN j[i] : Honest(j[i][k].entry)

LEMMA LinesOf ==
    ASSUME NEW j \in Journals
    PROVE  /\ Len(j) \in Nat /\ Len(j) >= 1 /\ DOMAIN j = 1 .. Len(j)
           /\ \A i \in DOMAIN j : j[i] \in Seq(Piece)
           /\ \A i \in DOMAIN j : j[i] # <<>> => 1 \in DOMAIN j[i] /\ j[i][1] \in Piece
<1>1. j \in Seq(Seq(Piece)) /\ j # <<>>
  BY DEF Journals
<1>2. Len(j) \in Nat /\ Len(j) >= 1 /\ DOMAIN j = 1 .. Len(j)
  BY <1>1
<1>3. \A i \in DOMAIN j : j[i] \in Seq(Piece)
  BY <1>1
<1>4. ASSUME NEW line \in Seq(Piece), line # <<>> PROVE 1 \in DOMAIN line /\ line[1] \in Piece
  BY <1>4
<1> QED
  BY <1>2, <1>3, <1>4

LEMMA EntriesOfLines ==
    ASSUME NEW j \in Journals
    PROVE  /\ EntriesOf(j) \in Seq(Entry)
           /\ \A k \in DOMAIN EntriesOf(j) : \E i \in DOMAIN j :
                 j[i] # <<>> /\ EntriesOf(j)[k] = j[i][1].entry
<1> DEFINE I == {i \in DOMAIN j : NotBlank(j[i])}
           N == Cardinality(I)
<1>1. I \subseteq 1 .. Len(j) /\ Len(j) \in Nat
  BY LinesOf
<1>2. /\ N \in Nat
      /\ Kept(j, I) = [k \in 1 .. N |-> Kept(j, I)[k]]
      /\ \A k \in 1 .. N : \E i \in I : Kept(j, I)[k] = j[i]
  BY <1>1, KeptElements
<1> HIDE DEF N
<1>3. EntriesOf(j) = [k \in 1 .. N |-> Kept(j, I)[k][1].entry]
  <2>1. DOMAIN Kept(j, I) = 1 .. N
    BY <1>2
  <2> QED
    BY <2>1 DEF EntriesOf
<1>4. ASSUME NEW k \in 1 .. N
      PROVE  \E i \in DOMAIN j : j[i] # <<>> /\ EntriesOf(j)[k] = j[i][1].entry
  <2>1. PICK i \in I : Kept(j, I)[k] = j[i]
    BY <1>2
  <2>2. i \in DOMAIN j /\ j[i] # <<>>
    BY <2>1 DEF NotBlank
  <2>3. EntriesOf(j)[k] = j[i][1].entry
    BY <1>3, <2>1
  <2> QED
    BY <2>2, <2>3
<1>5. ASSUME NEW k \in 1 .. N PROVE EntriesOf(j)[k] \in Entry
  BY <1>4, LinesOf DEF Piece
<1>6. EntriesOf(j) \in [1 .. N -> Entry]
  BY <1>3, <1>5
<1>7. EntriesOf(j) \in Seq(Entry)
  BY <1>2, <1>6
<1>8. DOMAIN EntriesOf(j) = 1 .. N
  BY <1>3
<1> QED
  BY <1>4, <1>7, <1>8

LEMMA EntriesAreHonest ==
    ASSUME NEW j \in Journals, JournalHonest(j)
    PROVE  HonestSeq(EntriesOf(j))
<1>1. ASSUME NEW k \in DOMAIN EntriesOf(j) PROVE Honest(EntriesOf(j)[k])
  <2>1. PICK i \in DOMAIN j : j[i] # <<>> /\ EntriesOf(j)[k] = j[i][1].entry
    BY EntriesOfLines
  <2> QED
    BY <2>1, LinesOf DEF JournalHonest
<1> QED
  BY <1>1, EntriesOfLines DEF HonestSeq

(* What the three ways of changing the journal do to its lines.            *)
LEMMA WriteLines ==
    ASSUME NEW j \in Journals, NEW piece \in Piece
    PROVE  /\ Write(j, piece) \in Journals
           /\ Len(Write(j, piece)) = Len(j) /\ DOMAIN Write(j, piece) = DOMAIN j
           /\ Write(j, piece)[Len(j)] = Append(j[Len(j)], piece)
           /\ \A i \in 1 .. Len(j) - 1 : Write(j, piece)[i] = j[i]
           /\ j[Len(j)] \in Seq(Piece)
<1>1. j \in Seq(Seq(Piece)) /\ Len(j) \in DOMAIN j /\ Len(j) \in 1 .. Len(j) /\ j[Len(j)] \in Seq(Piece)
  BY LinesOf DEF Journals
<1>2. Append(j[Len(j)], piece) \in Seq(Piece)
  BY <1>1
<1>3. Write(j, piece) = [j EXCEPT ![Len(j)] = Append(j[Len(j)], piece)]
  BY DEF Write
<1>4. /\ Write(j, piece) \in Seq(Seq(Piece)) /\ Len(Write(j, piece)) = Len(j)
      /\ \A i \in 1 .. Len(j) : Write(j, piece)[i] = IF i = Len(j) THEN Append(j[Len(j)], piece) ELSE j[i]
  BY <1>1, <1>2, <1>3, ExceptSeq
<1>5. DOMAIN Write(j, piece) = DOMAIN j
  BY <1>3
<1>6. Write(j, piece) # <<>>
  BY <1>1, <1>5
<1>7. ASSUME NEW i \in 1 .. Len(j) - 1 PROVE Write(j, piece)[i] = j[i]
  BY <1>1, <1>4
<1> QED
  BY <1>1, <1>4, <1>5, <1>6, <1>7 DEF Journals

LEMMA NewlineLines ==
    ASSUME NEW j \in Journals
    PROVE  /\ Newline(j) \in Journals /\ Len(Newline(j)) = Len(j) + 1
           /\ Newline(j)[Len(j) + 1] = <<>>
           /\ \A i \in DOMAIN j : Newline(j)[i] = j[i]
<1>1. <<>> \in Seq(Piece) /\ j \in Seq(Seq(Piece))
  BY DEF Journals
<1>2. /\ Append(j, <<>>) \in Seq(Seq(Piece)) /\ Append(j, <<>>) # <<>>
      /\ Len(Append(j, <<>>)) = Len(j) + 1 /\ Append(j, <<>>)[Len(j) + 1] = <<>>
  BY <1>1
<1>3. \A i \in DOMAIN j : Append(j, <<>>)[i] = j[i]
  BY <1>1, LinesOf
<1> QED
  BY <1>2, <1>3 DEF Newline, Journals

(* LoseTail leaves the first n - 1 lines and what is left of the n-th.     *)
Left(line) == {<<>>} \cup (IF line = <<>> THEN {} ELSE {<<line[1]>>, <<Torn(line[1].entry)>>})
CutAt(j, n, line) == Append(SubSeq(j, 1, n - 1), line)

LEMMA CutLines ==
    ASSUME NEW j \in Journals, NEW n \in DOMAIN j, NEW line \in Left(j[n])
    PROVE  /\ CutAt(j, n, line) \in Journals /\ Len(CutAt(j, n, line)) = n
           /\ CutAt(j, n, line)[n] = line /\ line \in Seq(Piece)
           /\ \A i \in 1 .. n - 1 : CutAt(j, n, line)[i] = j[i]
<1>1. n \in Nat /\ n >= 1 /\ n <= Len(j) /\ Len(j) \in Nat
  BY LinesOf
<1>2. \A i \in 1 .. n - 1 : j[i] \in Seq(Piece)
  BY <1>1, LinesOf
<1>3. line \in Seq(Piece)
  <2>1. CASE line = <<>>
    BY <2>1
  <2>2. CASE j[n] # <<>> /\ line = <<j[n][1]>>
    BY <2>2, LinesOf
  <2>3. CASE j[n] # <<>> /\ line = <<Torn(j[n][1].entry)>>
    BY <2>3, LinesOf DEF Torn, Piece
  <2> QED
    BY <2>1, <2>2, <2>3 DEF Left
<1>4. /\ SubSeq(j, 1, n - 1) \in Seq(Seq(Piece))
      /\ Len(SubSeq(j, 1, n - 1)) = n - 1
      /\ \A i \in 1 .. n - 1 : SubSeq(j, 1, n - 1)[i] = j[i]
  BY <1>1, <1>2, SubSeqProperties
<1> QED
  BY <1>1, <1>3, <1>4 DEF CutAt, Journals

LEMMA TailIsCut ==
    ASSUME TypeOK, LoseTail
    PROVE  \E n \in DOMAIN journal : \E line \in Left(journal[n]) : journal' = CutAt(journal, n, line)
BY DEF LoseTail, Left, CutAt, TypeOK

------------------------------------------------------------------------------
(* A ledger's window. *)

WindowOK(window, total) ==
    /\ HonestSeq(window) /\ total \in Nat
    /\ Len(window) <= 2 * ResidentCap
    /\ total > 0 => window # <<>>
    /\ \A i \in DOMAIN window :
          /\ window[i].seq + 1 = (total - Len(window)) + i
          /\ i > 1 => window[i].prev = window[i - 1].hash

(* The entry that a ledger is committing goes on from its window.          *)
Follows(e, x) ==
    /\ Honest(e) /\ e.prev = LastHash(x.window) /\ e.seq = x.total
    /\ e.agent \in x.trusted \cup {NoAgent}

Committing == {"writeLine", "writeNewline"}
HandleOK(x) ==
    /\ x \in Handle
    /\ x.step # "closed" => WindowOK(x.window, x.total)
    /\ x.step \in Committing => \E e \in Entry : x.entry = <<e>> /\ Follows(e, x)

LEMMA HeadOfWindow ==
    ASSUME NEW window, NEW total, WindowOK(window, total)
    PROVE  /\ LastHash(window) \in Hash /\ Len(LastHash(window)) = total
           /\ total > 0 => /\ Len(window) \in DOMAIN window /\ Honest(window[Len(window)])
                           /\ LastHash(window) = window[Len(window)].hash
                           /\ window[Len(window)].seq + 1 = total
<1>1. window \in Seq(Entry) /\ total \in Nat
  BY DEF WindowOK, HonestSeq
<1>2. CASE window = <<>>
  <2>1. LastHash(window) = Genesis /\ total = 0
    BY <1>1, <1>2 DEF WindowOK, LastHash
  <2>2. Genesis \in Hash /\ Len(Genesis) = 0
    BY DEF Genesis, Hash
  <2> QED
    BY <2>1, <2>2
<1>3. CASE window # <<>>
  <2>1. Len(window) \in Nat /\ Len(window) >= 1 /\ Len(window) \in DOMAIN window
    BY <1>1, <1>3
  <2>2. Honest(window[Len(window)]) /\ window[Len(window)].seq + 1 = total
    BY <1>1, <2>1 DEF WindowOK, HonestSeq
  <2>3. LastHash(window) = window[Len(window)].hash
    BY <1>3 DEF LastHash
  <2> QED
    BY <2>1, <2>2, <2>3, HashOfHonest
<1> QED
  BY <1>2, <1>3

LEMMA SuffixElements ==
    ASSUME NEW es, HonestSeq(es), NEW n \in Nat, n <= Len(es)
    PROVE  /\ HonestSeq(Suffix(es, n)) /\ Len(Suffix(es, n)) = n
           /\ DOMAIN Suffix(es, n) = 1 .. n
           /\ \A i \in 1 .. n : Suffix(es, n)[i] = es[(Len(es) - n) + i]
<1> DEFINE a == Len(es) - n + 1
<1>1. es \in Seq(Entry) /\ Len(es) \in Nat /\ DOMAIN es = 1 .. Len(es)
  BY DEF HonestSeq
<1>2. a \in Int /\ a >= 1 /\ Len(es) \in Int
  BY <1>1
<1>3. \A i \in a .. Len(es) : es[i] \in Entry
  BY <1>1, <1>2
<1>4. /\ SubSeq(es, a, Len(es)) \in Seq(Entry)
      /\ Len(SubSeq(es, a, Len(es))) = IF a <= Len(es) THEN Len(es) - a + 1 ELSE 0
      /\ \A i \in 1 .. Len(es) - a + 1 : SubSeq(es, a, Len(es))[i] = es[a + i - 1]
  BY <1>2, <1>3, SubSeqProperties
<1>5. /\ Suffix(es, n) \in Seq(Entry) /\ Len(Suffix(es, n)) = n
      /\ \A i \in 1 .. n : Suffix(es, n)[i] = es[(Len(es) - n) + i]
  BY <1>1, <1>4 DEF Suffix
<1>6. DOMAIN Suffix(es, n) = 1 .. n
  BY <1>5
<1>7. ASSUME NEW i \in 1 .. n PROVE Honest(Suffix(es, n)[i])
  <2>1. (Len(es) - n) + i \in DOMAIN es
    BY <1>1
  <2> QED
    BY <1>5, <2>1 DEF HonestSeq
<1> QED
  BY <1>5, <1>6, <1>7 DEF HonestSeq

(* Evicting the oldest entries, down to no fewer than one, leaves a window.*)
LEMMA Evicted ==
    ASSUME NEW es, NEW total \in Nat, HonestSeq(es), NEW n \in Nat, n >= 1, n <= Len(es),
           n <= 2 * ResidentCap,
           \A i \in DOMAIN es :
              /\ es[i].seq + 1 = (total - Len(es)) + i
              /\ i > 1 => es[i].prev = es[i - 1].hash
    PROVE  WindowOK(Suffix(es, n), total)
<1> DEFINE w == Suffix(es, n)
<1>1. /\ HonestSeq(w) /\ Len(w) = n /\ DOMAIN w = 1 .. n
      /\ \A i \in 1 .. n : w[i] = es[(Len(es) - n) + i]
  BY SuffixElements
<1>2. Len(es) \in Nat /\ DOMAIN es = 1 .. Len(es) /\ \A i \in DOMAIN es : es[i].seq \in Nat
  BY DEF HonestSeq, Honest, Entry
<1> HIDE DEF w
<1>3. w # <<>>
  BY <1>1
<1>4. ASSUME NEW i \in 1 .. n
      PROVE  w[i].seq + 1 = (total - n) + i /\ (i > 1 => w[i].prev = w[i - 1].hash)
  <2>1. (Len(es) - n) + i \in DOMAIN es
    BY <1>2
  <2>2. w[i].seq + 1 = (total - n) + i
    <3>1. w[i] = es[(Len(es) - n) + i]
      BY <1>1
    <3>2. es[(Len(es) - n) + i].seq + 1 = (total - Len(es)) + ((Len(es) - n) + i)
      BY <2>1
    <3>3. (total - Len(es)) + ((Len(es) - n) + i) = (total - n) + i
      BY <1>2
    <3> QED
      BY <3>1, <3>2, <3>3
  <2>3. ASSUME i > 1 PROVE w[i].prev = w[i - 1].hash
    <3>1. i - 1 \in 1 .. n /\ (Len(es) - n) + (i - 1) = ((Len(es) - n) + i) - 1
      BY <1>2, <2>3
    <3>2. (Len(es) - n) + i > 1
      BY <1>2, <2>3
    <3> QED
      BY <1>1, <2>1, <3>1, <3>2
  <2> QED
    BY <2>2, <2>3
<1> QED
  BY <1>1, <1>3, <1>4 DEF w, WindowOK

LEMMA NoneEvicted ==
    ASSUME NEW es, NEW total \in Nat, HonestSeq(es), total > 0 => es # <<>>,
           Len(es) <= 2 * ResidentCap,
           \A i \in DOMAIN es :
              /\ es[i].seq + 1 = (total - Len(es)) + i
              /\ i > 1 => es[i].prev = es[i - 1].hash
    PROVE  WindowOK(es, total)
BY DEF WindowOK

(* recover's window, of a chain; and commit's, of one entry more.          *)
LEMMA RecoveredWindow ==
    ASSUME NEW es, HonestSeq(es), Linked(es)
    PROVE  WindowOK(IF Len(es) > 2 * ResidentCap THEN Suffix(es, ResidentCap) ELSE es, Len(es))
<1>1. Numbered(es) /\ Len(es) \in Nat /\ DOMAIN es = 1 .. Len(es)
  BY ChainIsNumbered DEF HonestSeq
<1>2. ResidentCap \in Nat /\ ResidentCap >= 1
  BY AuditAssumption
<1>3. \A i \in DOMAIN es : /\ es[i].seq + 1 = (Len(es) - Len(es)) + i
                           /\ i > 1 => es[i].prev = es[i - 1].hash
  BY <1>1 DEF Numbered, Linked
<1>4. CASE Len(es) > 2 * ResidentCap
  <2>1. ResidentCap <= Len(es) /\ ResidentCap <= 2 * ResidentCap
    BY <1>1, <1>2, <1>4
  <2> QED
    BY <1>1, <1>2, <1>3, <1>4, <2>1, Evicted
<1>5. CASE ~(Len(es) > 2 * ResidentCap)
  <2>1. Len(es) <= 2 * ResidentCap /\ (Len(es) > 0 => es # <<>>)
    BY <1>1, <1>2, <1>5
  <2> QED
    BY <1>1, <1>3, <1>5, <2>1, NoneEvicted
<1> QED
  BY <1>4, <1>5

LEMMA GrownWindow ==
    ASSUME NEW window, NEW total, WindowOK(window, total), NEW e, Honest(e),
           e.prev = LastHash(window), e.seq = total
    PROVE  LET grown == Append(window, e)
           IN  WindowOK(IF Len(grown) > 2 * ResidentCap
                        THEN Suffix(grown, Len(grown) - ResidentCap) ELSE grown, total + 1)
<1> DEFINE grown == Append(window, e)
<1>1. /\ window \in Seq(Entry) /\ Len(window) \in Nat /\ total \in Nat /\ DOMAIN window = 1 .. Len(window)
      /\ Len(window) <= 2 * ResidentCap /\ \A i \in DOMAIN window : Honest(window[i])
  BY DEF WindowOK, HonestSeq
<1>2. e \in Entry
  BY DEF Honest
<1>3. /\ grown \in Seq(Entry) /\ grown # <<>> /\ Len(grown) = Len(window) + 1 /\ DOMAIN grown = 1 .. Len(window) + 1
      /\ \A i \in 1 .. Len(window) : grown[i] = window[i]
      /\ grown[Len(window) + 1] = e
  BY <1>1, <1>2
<1> HIDE DEF grown
<1>4. HonestSeq(grown)
  BY <1>1, <1>3 DEF HonestSeq
<1>5. ResidentCap \in Nat /\ ResidentCap >= 1
  BY AuditAssumption
<1>6. ASSUME NEW i \in DOMAIN grown
      PROVE  grown[i].seq + 1 = ((total + 1) - Len(grown)) + i /\ (i > 1 => grown[i].prev = grown[i - 1].hash)
  <2>1. CASE i \in 1 .. Len(window)
    <3>1. window[i].seq + 1 = (total - Len(window)) + i
      BY <1>1, <2>1 DEF WindowOK
    <3>2. i > 1 => window[i].prev = window[i - 1].hash
      BY <1>1, <2>1 DEF WindowOK
    <3>3. grown[i].seq + 1 = ((total + 1) - Len(grown)) + i
      BY <1>1, <1>3, <2>1, <3>1
    <3>4. i > 1 => i - 1 \in 1 .. Len(window)
      BY <1>1, <2>1
    <3> QED
      BY <1>3, <2>1, <3>2, <3>3, <3>4
  <2>2. CASE i = Len(window) + 1
    <3>1. grown[i].seq + 1 = ((total + 1) - Len(grown)) + i
      BY <1>1, <1>3, <2>2
    <3>2. ASSUME i > 1 PROVE e.prev = grown[i - 1].hash
      <4>1. i - 1 = Len(window) /\ Len(window) \in 1 .. Len(window) /\ window # <<>>
        BY <1>1, <2>2, <3>2
      <4> QED
        BY <1>3, <4>1 DEF LastHash
    <3> QED
      BY <1>3, <2>2, <3>1, <3>2
  <2> QED
    BY <1>1, <1>3, <2>1, <2>2
<1>7. total + 1 \in Nat
  BY <1>1
<1>8. CASE Len(grown) > 2 * ResidentCap
  <2>1. /\ Len(grown) - ResidentCap \in Nat /\ Len(grown) - ResidentCap >= 1
        /\ Len(grown) - ResidentCap <= Len(grown) /\ Len(grown) - ResidentCap <= 2 * ResidentCap
    BY <1>1, <1>3, <1>5, <1>8
  <2>2. WindowOK(Suffix(grown, Len(grown) - ResidentCap), total + 1)
    BY <1>4, <1>6, <1>7, <2>1, Evicted
  <2> QED
    BY <1>8, <2>2 DEF grown
<1>9. CASE ~(Len(grown) > 2 * ResidentCap)
  <2>1. Len(grown) <= 2 * ResidentCap
    BY <1>1, <1>3, <1>5, <1>9
  <2>2. WindowOK(grown, total + 1)
    BY <1>3, <1>4, <1>6, <1>7, <2>1, NoneEvicted
  <2> QED
    BY <1>9, <2>2 DEF grown
<1> QED
  BY <1>8, <1>9

------------------------------------------------------------------------------
(* The invariant of every deployment. *)

JournalInv ==
    /\ TypeOK
    /\ \A h \in Handles : HandleOK(handle[h])
    /\ JournalHonest(journal)
    /\ \A e \in acked : Honest(e)
    /\ pin # NoHead => pin \in [seq : Nat, hash : Hash, covers : SUBSET {e \in Entry : Honest(e)}]

LEMMA ClosedOK == HandleOK(Closed)
<1>1. Closed \in Handle
  BY DEF Closed, AuditLedger, Handle
<1> QED
  BY <1>1 DEF HandleOK, Closed, AuditLedger, Committing

(* One ledger moves. *)
Sets(h, x) == handle' = [handle EXCEPT ![h] = x]

LEMMA OneMoves ==
    ASSUME JournalInv, NEW h \in Handles, NEW x, HandleOK(x), Sets(h, x)
    PROVE  /\ handle' \in [Handles -> Handle]
           /\ \A g \in Handles : HandleOK(handle'[g])
           /\ handle'[h] = x
           /\ \A g \in Handles \ {h} : handle'[g] = handle[g]
<1>1. handle \in [Handles -> Handle] /\ x \in Handle
  BY DEF JournalInv, TypeOK, HandleOK
<1>2. /\ handle' \in [Handles -> Handle] /\ handle'[h] = x
      /\ \A g \in Handles \ {h} : handle'[g] = handle[g]
  BY <1>1 DEF Sets
<1>3. ASSUME NEW g \in Handles PROVE HandleOK(handle'[g])
  BY <1>2 DEF JournalInv
<1> QED
  BY <1>2, <1>3

(* What a step is made of: what becomes of the ledgers, and of the journal.*)
LEMMA InvFromParts ==
    ASSUME JournalInv, handle' \in [Handles -> Handle], \A g \in Handles : HandleOK(handle'[g]),
           journal' \in Journals, JournalHonest(journal'),
           setup' = setup, faults' \in Nat,
           \A e \in acked' : Honest(e),
           pin' # NoHead => pin' \in [seq : Nat, hash : Hash, covers : SUBSET {e \in Entry : Honest(e)}]
    PROVE  JournalInv'
<1>1. acked' \subseteq Entry
  BY DEF Honest
<1>2. journal' \in Seq(Seq(Piece)) /\ journal' # <<>>
  BY DEF Journals
<1>3. pin' \in {NoHead} \cup [seq : Nat, hash : Hash, covers : SUBSET Entry]
  OBVIOUS
<1>4. TypeOK'
  BY <1>1, <1>2, <1>3 DEF JournalInv, TypeOK
<1> QED
  BY <1>4 DEF JournalInv

LEMMA InvParts ==
    ASSUME JournalInv
    PROVE  /\ journal \in Journals /\ JournalHonest(journal) /\ faults \in Nat
           /\ handle \in [Handles -> Handle] /\ \A h \in Handles : HandleOK(handle[h]) /\ handle[h] \in Handle
           /\ \A e \in acked : Honest(e)
           /\ pin # NoHead => pin \in [seq : Nat, hash : Hash, covers : SUBSET {e \in Entry : Honest(e)}]
BY DEF JournalInv, TypeOK, Journals

LEMMA WriteHonest ==
    ASSUME NEW j \in Journals, JournalHonest(j), NEW e, Honest(e), NEW whole \in BOOLEAN
    PROVE  LET piece == [entry |-> e, whole |-> whole]
           IN  piece \in Piece /\ Write(j, piece) \in Journals /\ JournalHonest(Write(j, piece))
<1> DEFINE piece == [entry |-> e, whole |-> whole]
           w == Write(j, piece)
<1>1. piece \in Piece /\ piece.entry = e
  BY DEF Piece, Honest
<1>2. /\ w \in Journals /\ Len(w) = Len(j) /\ DOMAIN w = DOMAIN j
      /\ w[Len(j)] = Append(j[Len(j)], piece)
      /\ \A i \in 1 .. Len(j) - 1 : w[i] = j[i]
      /\ j[Len(j)] \in Seq(Piece)
  BY <1>1, WriteLines
<1>3. Len(j) \in Nat /\ Len(j) >= 1 /\ DOMAIN j = 1 .. Len(j)
  BY LinesOf
<1> HIDE DEF w, piece
<1>4. ASSUME NEW i \in DOMAIN w, NEW k \in DOMAIN w[i] PROVE Honest(w[i][k].entry)
  <2>1. CASE i = Len(j)
    <3>1. k \in 1 .. Len(j[Len(j)]) + 1
      BY <1>1, <1>2, <2>1
    <3>2. CASE k = Len(j[Len(j)]) + 1
      BY <1>1, <1>2, <2>1, <3>2
    <3>3. CASE k \in 1 .. Len(j[Len(j)])
      <4>1. w[i][k] = j[Len(j)][k] /\ k \in DOMAIN j[Len(j)]
        BY <1>1, <1>2, <2>1, <3>3
      <4> QED
        BY <1>3, <4>1 DEF JournalHonest
    <3> QED
      BY <1>2, <3>1, <3>2, <3>3
  <2>2. CASE i # Len(j)
    <3>1. i \in 1 .. Len(j) - 1 /\ i \in DOMAIN j
      BY <1>2, <1>3, <2>2
    <3> QED
      BY <1>2, <3>1 DEF JournalHonest
  <2> QED
    BY <2>1, <2>2
<1> QED
  BY <1>1, <1>2, <1>4 DEF JournalHonest, w, piece

LEMMA NewlineHonest ==
    ASSUME NEW j \in Journals, JournalHonest(j)
    PROVE  Newline(j) \in Journals /\ JournalHonest(Newline(j))
<1> DEFINE w == Newline(j)
<1>1. /\ w \in Journals /\ Len(w) = Len(j) + 1 /\ w[Len(j) + 1] = <<>>
      /\ \A i \in DOMAIN j : w[i] = j[i]
  BY NewlineLines
<1>2. Len(j) \in Nat /\ DOMAIN j = 1 .. Len(j) /\ DOMAIN w = 1 .. Len(w)
  BY <1>1, LinesOf
<1> HIDE DEF w
<1>3. ASSUME NEW i \in DOMAIN w, NEW k \in DOMAIN w[i] PROVE Honest(w[i][k].entry)
  <2>1. CASE i = Len(j) + 1
    BY <1>1, <2>1
  <2>2. CASE i \in DOMAIN j
    BY <1>1, <2>2 DEF JournalHonest
  <2> QED
    BY <1>1, <1>2, <2>1, <2>2
<1> QED
  BY <1>1, <1>3 DEF JournalHonest, w

LEMMA CutHonest ==
    ASSUME NEW j \in Journals, JournalHonest(j), NEW n \in DOMAIN j, NEW line \in Left(j[n])
    PROVE  CutAt(j, n, line) \in Journals /\ JournalHonest(CutAt(j, n, line))
<1> DEFINE w == CutAt(j, n, line)
<1>1. /\ w \in Journals /\ Len(w) = n /\ w[n] = line
      /\ \A i \in 1 .. n - 1 : w[i] = j[i]
  BY CutLines
<1>2. Len(j) \in Nat /\ DOMAIN j = 1 .. Len(j) /\ DOMAIN w = 1 .. n /\ n \in Nat /\ n >= 1
  BY <1>1, LinesOf
<1> HIDE DEF w
<1>3. ASSUME NEW k \in DOMAIN line PROVE Honest(line[k].entry)
  <2>1. CASE line = <<>>
    BY <2>1
  <2>2. CASE j[n] # <<>> /\ line = <<j[n][1]>>
    BY <2>2, LinesOf DEF JournalHonest
  <2>3. CASE j[n] # <<>> /\ line = <<Torn(j[n][1].entry)>>
    BY <2>3, LinesOf DEF JournalHonest, Torn
  <2> QED
    BY <2>1, <2>2, <2>3 DEF Left
<1>4. ASSUME NEW i \in DOMAIN w, NEW k \in DOMAIN w[i] PROVE Honest(w[i][k].entry)
  <2>1. CASE i = n
    BY <1>1, <1>3, <2>1
  <2>2. CASE i # n
    <3>1. i \in 1 .. n - 1 /\ i \in DOMAIN j
      BY <1>2, <2>2
    <3> QED
      BY <1>1, <3>1 DEF JournalHonest
  <2> QED
    BY <2>1, <2>2
<1> QED
  BY <1>1, <1>4 DEF JournalHonest, w

LEMMA InitJournal == Init => JournalInv
<1> SUFFICES ASSUME Init PROVE JournalInv
  OBVIOUS
<1>1. journal = <<<<>>>> /\ journal \in Seq(Seq(Piece)) /\ journal # <<>>
  BY DEF Init, EmptyJournal
<1>2. JournalHonest(journal)
  BY <1>1 DEF JournalHonest
<1>3. \A h \in Handles : HandleOK(handle[h]) /\ handle[h] \in Handle
  BY ClosedOK DEF Init, HandleOK
<1>4. handle \in [Handles -> Handle]
  BY <1>3 DEF Init
<1> QED
  BY <1>1, <1>2, <1>3, <1>4 DEF Init, JournalInv, TypeOK

LEMMA SetupFacts ==
    ASSUME TypeOK
    PROVE  /\ setup.handles \subseteq Handles /\ setup.records \subseteq Records
           /\ setup.agents \subseteq Agents
           /\ setup.maxEntries \in Nat /\ setup.maxFaults \in Nat
BY AuditAssumption DEF TypeOK

RecoveredFrom(es) == IF Len(es) > 2 * ResidentCap THEN Suffix(es, ResidentCap) ELSE es

LEMMA RecoverMoves ==
    ASSUME JournalInv, NEW h \in Handles, NEW keys \in SUBSET Agents, Recover(h, keys)
    PROVE  LET es == EntriesOf(journal)
               x == AuditLedger("open", RecoveredFrom(es), Len(es), keys, <<>>)
           IN  /\ HandleOK(x) /\ Sets(h, x) /\ HonestSeq(es) /\ Linked(es) /\ SignedBy(es, keys)
               /\ Numbered(es) /\ Len(es) \in Nat /\ DOMAIN es = 1 .. Len(es)
<1> DEFINE es == EntriesOf(journal)
           x == AuditLedger("open", RecoveredFrom(es), Len(es), keys, <<>>)
<1>1. HonestSeq(es)
  BY InvParts, EntriesAreHonest
<1>2. es \in Seq(Entry) /\ Len(es) \in Nat /\ DOMAIN es = 1 .. Len(es)
  BY <1>1 DEF HonestSeq
<1>3. Clean(es, keys)
  BY DEF Recover, VerifiesClean
<1>4. Linked(es) /\ SignedBy(es, keys)
  BY <1>2, <1>3, CleanMeans
<1>5. Numbered(es) /\ WindowOK(RecoveredFrom(es), Len(es))
  BY <1>1, <1>4, ChainIsNumbered, RecoveredWindow DEF RecoveredFrom
<1>6. RecoveredFrom(es) \in Seq(Entry)
  BY <1>5 DEF WindowOK, HonestSeq
<1> HIDE DEF es
<1>7. x \in Handle
  BY <1>2, <1>6 DEF Handle, AuditLedger
<1>8. HandleOK(x)
  BY <1>5, <1>7 DEF HandleOK, AuditLedger, Committing
<1>9. Sets(h, x)
  BY DEF Recover, RecoveredFrom, Sets, es
<1> QED
  BY <1>1, <1>2, <1>4, <1>5, <1>8, <1>9 DEF es

LEMMA BeginMoves ==
    ASSUME JournalInv, NEW h \in Handles, NEW record \in Records, NEW agent \in Agents \cup {NoAgent},
           BeginAppend(h, record, agent)
    PROVE  \E e \in Entry :
              LET x == AuditLedger("writeLine", handle[h].window, handle[h].total,
                              handle[h].trusted \cup ({agent} \cap Agents), <<e>>)
              IN  Follows(e, x) /\ HandleOK(x) /\ Sets(h, x)
<1> DEFINE prev == LastHash(handle[h].window)
           total == handle[h].total
           e == [seq |-> total, prev |-> prev, record |-> record, agent |-> agent,
                 hash |-> EntryHash(total, prev, record)]
           trusted == handle[h].trusted \cup ({agent} \cap Agents)
           x == AuditLedger("writeLine", handle[h].window, total, trusted, <<e>>)
<1>1. /\ handle[h] \in Handle /\ HandleOK(handle[h]) /\ handle[h].step = "open"
      /\ WindowOK(handle[h].window, total)
  BY InvParts DEF BeginAppend, HandleOK
<1>2. prev \in Hash /\ Len(prev) = total /\ total \in Nat
  BY <1>1, HeadOfWindow DEF Handle
<1>3. EntryHash(total, prev, record) \in Hash
  BY <1>2 DEF EntryHash, Hash
<1>4. e \in Entry /\ Honest(e)
  BY <1>2, <1>3 DEF Entry, Honest
<1>5. handle[h].window \in Seq(Entry) /\ trusted \subseteq Agents
  BY <1>1 DEF Handle
<1>6. agent \in trusted \cup {NoAgent}
  OBVIOUS
<1>7. /\ Honest(e) /\ e.prev = LastHash(handle[h].window) /\ e.seq = total
      /\ e.agent \in trusted \cup {NoAgent}
  BY <1>4, <1>6
<1>8. Sets(h, x)
  BY DEF BeginAppend, Sets
<1> HIDE DEF e
<1>9. x \in Handle
  BY <1>2, <1>4, <1>5 DEF Handle, AuditLedger
<1>10. Follows(e, x)
  BY <1>7 DEF Follows, AuditLedger
<1>11. x.step = "writeLine" /\ x.window = handle[h].window /\ x.total = total /\ x.entry = <<e>>
  BY DEF AuditLedger
<1>12. HandleOK(x)
  BY <1>1, <1>4, <1>9, <1>10, <1>11 DEF HandleOK
<1> QED
  BY <1>4, <1>8, <1>10, <1>12

(* The entry being committed. *)
LEMMA Committed ==
    ASSUME JournalInv, NEW h \in Handles, handle[h].step \in Committing
    PROVE  \E e \in Entry : handle[h].entry = <<e>> /\ handle[h].entry[1] = e /\ Follows(e, handle[h])
BY DEF JournalInv, HandleOK

LEMMA WriteLineMoves ==
    ASSUME JournalInv, NEW h \in Handles, WriteLine(h)
    PROVE  LET x == AuditLedger("writeNewline", handle[h].window, handle[h].total, handle[h].trusted, handle[h].entry)
           IN  HandleOK(x) /\ Sets(h, x)
<1> DEFINE x == AuditLedger("writeNewline", handle[h].window, handle[h].total, handle[h].trusted, handle[h].entry)
<1>1. handle[h] \in Handle /\ HandleOK(handle[h]) /\ handle[h].step = "writeLine"
  BY InvParts DEF WriteLine
<1>2. x \in Handle
  BY <1>1 DEF Handle, AuditLedger
<1>3. /\ x.step = "writeNewline" /\ x.window = handle[h].window /\ x.total = handle[h].total
      /\ x.trusted = handle[h].trusted /\ x.entry = handle[h].entry
  BY DEF AuditLedger
<1>4. HandleOK(x)
  BY <1>1, <1>2, <1>3 DEF HandleOK, Follows, Committing
<1>5. Sets(h, x)
  <2>1. [handle[h] EXCEPT !.step = "writeNewline"] = x
    BY <1>1 DEF AuditLedger, Handle
  <2> QED
    BY <2>1 DEF Sets, WriteLine
<1> QED
  BY <1>4, <1>5

Pushed(window, e) ==
    LET grown == Append(window, e)
    IN  IF Len(grown) > 2 * ResidentCap THEN Suffix(grown, Len(grown) - ResidentCap) ELSE grown

LEMMA WriteNewlineMoves ==
    ASSUME JournalInv, NEW h \in Handles, WriteNewline(h), NEW e \in Entry,
           handle[h].entry[1] = e, Follows(e, handle[h])
    PROVE  LET x == AuditLedger("open", Pushed(handle[h].window, e), handle[h].total + 1, handle[h].trusted, <<>>)
           IN  HandleOK(x) /\ Sets(h, x)
<1> DEFINE x == AuditLedger("open", Pushed(handle[h].window, e), handle[h].total + 1, handle[h].trusted, <<>>)
<1>1. handle[h] \in Handle /\ HandleOK(handle[h]) /\ handle[h].step = "writeNewline"
  BY InvParts DEF WriteNewline
<1>2. WindowOK(handle[h].window, handle[h].total)
  BY <1>1 DEF HandleOK
<1>3. WindowOK(Pushed(handle[h].window, e), handle[h].total + 1)
  BY <1>2, GrownWindow DEF Pushed, Follows
<1>4. Pushed(handle[h].window, e) \in Seq(Entry) /\ handle[h].total + 1 \in Nat
  BY <1>3 DEF WindowOK, HonestSeq
<1>5. x \in Handle
  BY <1>1, <1>4 DEF Handle, AuditLedger
<1>6. HandleOK(x)
  BY <1>3, <1>5 DEF HandleOK, AuditLedger, Committing
<1>7. Sets(h, x)
  BY DEF WriteNewline, Pushed, Sets
<1> QED
  BY <1>6, <1>7

LEMMA FailMoves ==
    ASSUME JournalInv, NEW h \in Handles, WriteFails(h)
    PROVE  LET x == AuditLedger("open", handle[h].window, handle[h].total, handle[h].trusted, <<>>)
           IN  HandleOK(x) /\ Sets(h, x)
<1> DEFINE x == AuditLedger("open", handle[h].window, handle[h].total, handle[h].trusted, <<>>)
<1>1. handle[h] \in Handle /\ HandleOK(handle[h]) /\ handle[h].step \in Committing
  BY InvParts DEF WriteFails, Committing
<1>2. x \in Handle
  BY <1>1 DEF Handle, AuditLedger
<1>3. HandleOK(x)
  BY <1>1, <1>2 DEF HandleOK, AuditLedger, Committing
<1>4. Sets(h, x)
  BY DEF WriteFails, Sets
<1> QED
  BY <1>3, <1>4

(* Every step keeps the invariant. *)
LEMMA StepJournal ==
    ASSUME JournalInv, [Next]_vars
    PROVE  JournalInv'
<1>0. /\ journal \in Journals /\ JournalHonest(journal) /\ faults \in Nat
      /\ handle \in [Handles -> Handle] /\ (\A h \in Handles : HandleOK(handle[h]))
      /\ (\A e \in acked : Honest(e))
      /\ (pin # NoHead => pin \in [seq : Nat, hash : Hash, covers : SUBSET {e \in Entry : Honest(e)}])
      /\ setup.handles \subseteq Handles /\ setup.records \subseteq Records
      /\ setup.agents \subseteq Agents
  BY InvParts, SetupFacts DEF JournalInv
<1>1. ASSUME UNCHANGED vars PROVE JournalInv'
  BY <1>0, <1>1, InvFromParts DEF vars
<1>2. ASSUME NEW h \in Handles, NEW keys \in SUBSET Agents, Recover(h, keys) PROVE JournalInv'
  <2>1. /\ handle' \in [Handles -> Handle] /\ \A g \in Handles : HandleOK(handle'[g])
    BY <1>2, RecoverMoves, OneMoves
  <2>2. UNCHANGED <<setup, journal, acked, pin, faults>>
    BY <1>2 DEF Recover
  <2> QED
    BY <1>0, <2>1, <2>2, InvFromParts
<1>3. ASSUME NEW h \in Handles, NEW r \in Records, NEW a \in Agents \cup {NoAgent}, BeginAppend(h, r, a)
      PROVE  JournalInv'
  <2>1. /\ handle' \in [Handles -> Handle] /\ \A g \in Handles : HandleOK(handle'[g])
    BY <1>3, BeginMoves, OneMoves
  <2>2. UNCHANGED <<setup, journal, acked, pin, faults>>
    BY <1>3 DEF BeginAppend
  <2> QED
    BY <1>0, <2>1, <2>2, InvFromParts
<1>4. ASSUME NEW h \in Handles, WriteLine(h) PROVE JournalInv'
  <2>1. /\ handle' \in [Handles -> Handle] /\ \A g \in Handles : HandleOK(handle'[g])
    BY <1>4, WriteLineMoves, OneMoves
  <2>2. PICK e \in Entry : handle[h].entry[1] = e /\ Honest(e)
    BY <1>4, Committed DEF WriteLine, Committing, Follows
  <2>3. journal' \in Journals /\ JournalHonest(journal')
    BY <1>0, <1>4, <2>2, WriteHonest DEF WriteLine, Whole
  <2>4. UNCHANGED <<setup, acked, pin, faults>>
    BY <1>4 DEF WriteLine
  <2> QED
    BY <1>0, <2>1, <2>3, <2>4, InvFromParts
<1>5. ASSUME NEW h \in Handles, WriteNewline(h) PROVE JournalInv'
  <2>1. PICK e \in Entry : handle[h].entry[1] = e /\ Follows(e, handle[h])
    BY <1>5, Committed DEF WriteNewline, Committing
  <2>2. /\ handle' \in [Handles -> Handle] /\ \A g \in Handles : HandleOK(handle'[g])
    BY <1>5, <2>1, WriteNewlineMoves, OneMoves
  <2>3. journal' \in Journals /\ JournalHonest(journal')
    BY <1>0, <1>5, NewlineHonest DEF WriteNewline
  <2>4. UNCHANGED <<setup, pin, faults>> /\ acked' = acked \cup {e} /\ Honest(e)
    BY <1>5, <2>1 DEF WriteNewline, Follows
  <2> QED
    BY <1>0, <2>2, <2>3, <2>4, InvFromParts
<1>6. ASSUME NEW h \in Handles, Close(h) PROVE JournalInv'
  <2>1. /\ handle' \in [Handles -> Handle] /\ \A g \in Handles : HandleOK(handle'[g])
    BY <1>6, ClosedOK, OneMoves DEF Close, Sets
  <2>2. UNCHANGED <<setup, journal, acked, pin, faults>>
    BY <1>6 DEF Close
  <2> QED
    BY <1>0, <2>1, <2>2, InvFromParts
<1>7. ASSUME NEW h \in Handles, PinHead(h) PROVE JournalInv'
  <2> DEFINE head == Last(handle[h].window)
             covers == {e \in acked : OnJournal(journal, e)} \cup (IF pin = NoHead THEN {} ELSE pin.covers)
  <2>1. UNCHANGED <<setup, journal, handle, acked, faults>>
        /\ pin' = [seq |-> head.seq, hash |-> head.hash, covers |-> covers]
    BY <1>7 DEF PinHead
  <2>2. Honest(head)
    <3>1. handle[h].step = "open" /\ handle[h].total > 0 /\ WindowOK(handle[h].window, handle[h].total)
      BY <1>0, <1>7 DEF PinHead, HandleOK
    <3>2. Honest(handle[h].window[Len(handle[h].window)])
      BY <3>1, HeadOfWindow
    <3> QED
      BY <3>2 DEF Last
  <2>3. head.seq \in Nat /\ head.hash \in Hash
    BY <2>2, HashOfHonest
  <2>4. covers \subseteq {e \in Entry : Honest(e)}
    BY <1>0 DEF Honest
  <2> HIDE DEF head, covers
  <2>5. pin' \in [seq : Nat, hash : Hash, covers : SUBSET {e \in Entry : Honest(e)}]
    BY <2>1, <2>3, <2>4
  <2> QED
    BY <1>0, <2>1, <2>5, InvFromParts
<1>8. ASSUME NEW h \in Handles, WriteFails(h) PROVE JournalInv'
  <2>1. /\ handle' \in [Handles -> Handle] /\ \A g \in Handles : HandleOK(handle'[g])
    BY <1>8, FailMoves, OneMoves
  <2>2. PICK e \in Entry : handle[h].entry[1] = e /\ Honest(e)
    BY <1>8, Committed DEF WriteFails, Committing, Follows
  <2>3. journal' = journal \/ journal' = Write(journal, Torn(e))
    BY <1>8, <2>2 DEF WriteFails
  <2>4. journal' \in Journals /\ JournalHonest(journal')
    BY <1>0, <2>2, <2>3, WriteHonest DEF Torn
  <2>5. UNCHANGED <<setup, acked, pin>> /\ faults' \in Nat
    BY <1>0, <1>8 DEF WriteFails, Fault
  <2> QED
    BY <1>0, <2>1, <2>4, <2>5, InvFromParts
<1>9. ASSUME NEW h \in Handles, Crash(h) PROVE JournalInv'
  <2>1. /\ handle' \in [Handles -> Handle] /\ \A g \in Handles : HandleOK(handle'[g])
    BY <1>9, ClosedOK, OneMoves DEF Crash, Sets
  <2>2. journal' \in Journals /\ JournalHonest(journal')
    <3>1. CASE journal' = journal
      BY <1>0, <3>1
    <3>2. CASE journal' # journal
      <4>1. handle[h].step = "writeLine" /\ journal' = Write(journal, Torn(handle[h].entry[1]))
        BY <1>9, <3>2 DEF Crash
      <4>2. PICK e \in Entry : handle[h].entry[1] = e /\ Honest(e)
        BY <4>1, Committed DEF Committing, Follows
      <4> QED
        BY <1>0, <4>1, <4>2, WriteHonest DEF Torn
    <3> QED
      BY <3>1, <3>2
  <2>3. UNCHANGED <<setup, acked, pin>> /\ faults' \in Nat
    BY <1>0, <1>9 DEF Crash, Fault
  <2> QED
    BY <1>0, <2>1, <2>2, <2>3, InvFromParts
<1>10. ASSUME LoseTail PROVE JournalInv'
  <2>1. handle' \in [Handles -> Handle] /\ \A g \in Handles : HandleOK(handle'[g])
    <3>1. Closed \in Handle
      BY ClosedOK DEF HandleOK
    <3> QED
      BY <1>10, <3>1, ClosedOK DEF LoseTail
  <2>2. journal' \in Journals /\ JournalHonest(journal')
    BY <1>0, <1>10, TailIsCut, CutHonest DEF JournalInv
  <2>3. UNCHANGED <<setup, pin>> /\ faults' \in Nat /\ acked' \subseteq acked
    BY <1>0, <1>10 DEF LoseTail, Fault
  <2> QED
    BY <1>0, <2>1, <2>2, <2>3, InvFromParts
<1> QED
  BY <1>0, <1>1, <1>2, <1>3, <1>4, <1>5, <1>6, <1>7, <1>8, <1>9, <1>10 DEF Next

LEMMA JournalInvariant == Spec => []JournalInv
<1>1. JournalInv /\ [Next]_vars => JournalInv'
  BY StepJournal
<1> QED
  BY <1>1, InitJournal, PTL DEF Spec

(* What a ledger keeps in memory is the tail of the chain it verified and  *)
(* extended, whatever was written, lost or left torn in between.           *)
THEOREM WindowAlwaysTail == Spec => []WindowIsTail
<1>1. ASSUME JournalInv PROVE WindowIsTail
  BY <1>1, InvParts DEF WindowIsTail, HandleOK, WindowOK
<1> QED
  BY <1>1, JournalInvariant, PTL

(* A journal that verifies is one chain, whoever wrote its lines.          *)
THEOREM CleanAlwaysOneChain == Spec => []CleanIsOneChain
<1>1. ASSUME JournalInv PROVE CleanIsOneChain
  <2> DEFINE es == EntriesOf(journal)
  <2>1. SUFFICES ASSUME VerifiesClean(journal, Agents) PROVE Numbered(es)
    BY DEF CleanIsOneChain, Numbered
  <2>2. HonestSeq(es)
    BY <1>1, InvParts, EntriesAreHonest
  <2>3. Linked(es)
    BY <2>1, <2>2, CleanMeans DEF VerifiesClean, HonestSeq
  <2> QED
    BY <2>2, <2>3, ChainIsNumbered
<1> QED
  BY <1>1, JournalInvariant, PTL

------------------------------------------------------------------------------
(* One ledger on the journal. *)

ParsesBefore(j, n) == \A i \in 1 .. n - 1 : Parses(j[i])
PrevHash(j, i) == IF i = 1 THEN Genesis ELSE j[i - 1][1].entry.hash

(* Only the last line may be blank, and as far as the lines can be read,   *)
(* each goes on from the one before.                                       *)
NoBlanks(j) == \A i \in 1 .. Len(j) - 1 : NotBlank(j[i])
Chained(j) ==
    \A i \in DOMAIN j : ParsesBefore(j, i) /\ NotBlank(j[i]) => j[i][1].entry.prev = PrevHash(j, i)
Filled(j) == IF NotBlank(j[Len(j)]) THEN Len(j) ELSE Len(j) - 1

LEMMA ReadableEntries ==
    ASSUME NEW j \in Journals, NoBlanks(j), Readable(j)
    PROVE  /\ Filled(j) \in Nat /\ Filled(j) <= Len(j)
           /\ EntriesOf(j) = [k \in 1 .. Filled(j) |-> j[k][1].entry]
           /\ Len(EntriesOf(j)) = Filled(j) /\ DOMAIN EntriesOf(j) = 1 .. Filled(j)
           /\ \A i \in 1 .. Filled(j) : i \in DOMAIN j /\ NotBlank(j[i]) /\ Parses(j[i])
           /\ \A i \in DOMAIN j : NotBlank(j[i]) => i \in 1 .. Filled(j)
<1> DEFINE m == Filled(j)
           I == {i \in DOMAIN j : NotBlank(j[i])}
<1>1. Len(j) \in Nat /\ Len(j) >= 1 /\ DOMAIN j = 1 .. Len(j)
  BY LinesOf
<1>2. m \in Nat /\ m <= Len(j)
  BY <1>1 DEF Filled
<1>3. I = 1 .. m
  <2>1. ASSUME NEW i \in DOMAIN j PROVE NotBlank(j[i]) <=> i \in 1 .. m
    <3>1. CASE i = Len(j)
      BY <1>1, <3>1 DEF Filled
    <3>2. CASE i # Len(j)
      BY <1>1, <3>2 DEF Filled, NoBlanks
    <3> QED
      BY <3>1, <3>2
  <2>2. 1 .. m \subseteq DOMAIN j
    BY <1>1, <1>2
  <2> QED
    BY <2>1, <2>2
<1>4. ASSUME NEW i \in 1 .. m PROVE i \in DOMAIN j /\ NotBlank(j[i]) /\ Parses(j[i])
  BY <1>3 DEF Readable
<1>5. Kept(j, I) = [k \in 1 .. m |-> j[k]]
  <2>1. Kept(j, 1 .. m) = [k \in 1 .. (m - 1) + 1 |-> j[(k + 1) - 1]]
    BY <1>2, KeptRange
  <2>2. (m - 1) + 1 = m
    BY <1>2
  <2>3. \A k \in 1 .. m : (k + 1) - 1 = k
    OBVIOUS
  <2> HIDE DEF m
  <2> QED
    BY <1>3, <2>1, <2>2, <2>3
<1> HIDE DEF m
<1>6. EntriesOf(j) = [k \in 1 .. m |-> j[k][1].entry]
  BY <1>5 DEF EntriesOf
<1>7. EntriesOf(j) \in Seq(Entry)
  BY EntriesOfLines
<1>8. DOMAIN EntriesOf(j) = 1 .. m /\ Len(EntriesOf(j)) = m
  BY <1>2, <1>6, <1>7
<1> QED
  BY <1>2, <1>3, <1>4, <1>6, <1>8 DEF m

LEMMA ReadableChain ==
    ASSUME NEW j \in Journals, NoBlanks(j), Chained(j), Readable(j), JournalHonest(j)
    PROVE  /\ HonestSeq(EntriesOf(j)) /\ Linked(EntriesOf(j)) /\ Numbered(EntriesOf(j))
           /\ LastHash(EntriesOf(j)) = PrevHash(j, Filled(j) + 1)
<1> DEFINE es == EntriesOf(j)
           m == Filled(j)
<1>1. HonestSeq(es)
  BY EntriesAreHonest
<1>2. /\ m \in Nat /\ m <= Len(j) /\ Len(es) = m /\ DOMAIN es = 1 .. m
      /\ \A i \in 1 .. m : es[i] = j[i][1].entry /\ i \in DOMAIN j /\ NotBlank(j[i]) /\ Parses(j[i])
  BY ReadableEntries
<1>3. ASSUME NEW i \in 1 .. m PROVE es[i].prev = IF i = 1 THEN Genesis ELSE es[i - 1].hash
  <2>1. ParsesBefore(j, i)
    BY <1>2 DEF ParsesBefore
  <2>2. es[i].prev = PrevHash(j, i)
    BY <1>2, <2>1 DEF Chained
  <2>3. i # 1 => i - 1 \in 1 .. m
    BY <1>2
  <2> QED
    BY <1>2, <2>2, <2>3 DEF PrevHash
<1>4. Linked(es)
  BY <1>2, <1>3 DEF Linked
<1>5. LastHash(es) = PrevHash(j, m + 1)
  <2>1. CASE m = 0
    <3>1. es = <<>>
      BY <1>1, <1>2, <2>1 DEF HonestSeq
    <3> QED
      BY <2>1, <3>1 DEF LastHash, PrevHash
  <2>2. CASE m # 0
    <3>1. es # <<>> /\ m \in 1 .. m /\ m + 1 # 1 /\ (m + 1) - 1 = m
      BY <1>2, <2>2
    <3> QED
      BY <1>2, <3>1 DEF LastHash, PrevHash
  <2> QED
    BY <2>1, <2>2
<1> QED
  BY <1>1, <1>4, <1>5, ChainIsNumbered

(* What the changes of the journal leave of that. *)
LEMMA WriteChained ==
    ASSUME NEW j \in Journals, NoBlanks(j), Chained(j), NEW piece \in Piece,
           ParsesBefore(j, Len(j)) /\ j[Len(j)] = <<>> => piece.entry.prev = PrevHash(j, Len(j))
    PROVE  /\ NoBlanks(Write(j, piece)) /\ Chained(Write(j, piece))
           /\ NotBlank(Write(j, piece)[Len(j)])
           /\ \A i \in DOMAIN j : Parses(Write(j, piece)[i]) =>
                 IF i = Len(j) THEN /\ j[i] = <<>> /\ Write(j, piece)[i] = <<piece>> /\ piece.whole
                               ELSE Write(j, piece)[i] = j[i]
           /\ Readable(Write(j, piece)) => Readable(j) /\ j[Len(j)] = <<>> /\ piece.whole
<1> DEFINE w == Write(j, piece)
           n == Len(j)
<1>1. /\ w \in Journals /\ Len(w) = n /\ DOMAIN w = DOMAIN j
      /\ w[n] = Append(j[n], piece) /\ \A i \in 1 .. n - 1 : w[i] = j[i]
      /\ j[n] \in Seq(Piece)
  BY WriteLines
<1>2. n \in Nat /\ n >= 1 /\ DOMAIN j = 1 .. n
  BY LinesOf
<1> HIDE DEF w, n
<1>3. w[n] # <<>> /\ Len(w[n]) = Len(j[n]) + 1 /\ Len(j[n]) \in Nat
  BY <1>1
<1>4. ASSUME Parses(w[n]) PROVE j[n] = <<>> /\ w[n] = <<piece>> /\ piece.whole
  <2>0. Len(w[n]) = 1
    BY <1>4 DEF Parses
  <2>1. Len(j[n]) = 0
    <3>1. \A a \in Nat : 1 = a + 1 => a = 0
      OBVIOUS
    <3> QED
      BY <1>3, <2>0, <3>1, Zenon
  <2>2. j[n] = <<>>
    BY <1>1, <2>1
  <2>3. w[n] = <<piece>>
    BY <1>1, <2>2
  <2> QED
    BY <1>4, <2>2, <2>3 DEF Parses
<1>5. ASSUME NEW i \in 1 .. n - 1 PROVE w[i] = j[i]
  BY <1>1
<1>6. ASSUME NEW i \in DOMAIN w, ParsesBefore(w, i), NotBlank(w[i])
      PROVE  w[i][1].entry.prev = PrevHash(w, i)
  <2>1. ParsesBefore(j, i) /\ PrevHash(w, i) = PrevHash(j, i)
    <3>1. i \in 1 .. n
      BY <1>1, <1>2
    <3>2. \A k \in 1 .. i - 1 : w[k] = j[k]
      BY <1>2, <1>5, <3>1
    <3>3. i # 1 => i - 1 \in 1 .. i - 1
      BY <1>2, <3>1
    <3> QED
      BY <1>6, <3>2, <3>3 DEF ParsesBefore, PrevHash
  <2>2. CASE i # n
    <3>1. i \in 1 .. n - 1
      BY <1>1, <1>2, <2>2
    <3>2. w[i] = j[i] /\ i \in DOMAIN j
      BY <1>2, <1>5, <3>1
    <3> QED
      BY <1>6, <2>1, <3>2 DEF Chained
  <2>3. CASE i = n /\ j[n] = <<>>
    <3>1. w[i] = <<piece>>
      BY <1>1, <2>3
    <3> QED
      BY <2>1, <2>3, <3>1 DEF n
  <2>4. CASE i = n /\ j[n] # <<>>
    <3>1. 1 \in 1 .. Len(j[n])
      BY <1>3, <1>1, <2>4
    <3>2. w[i][1] = j[n][1]
      BY <1>1, <2>4, <3>1
    <3>3. i \in DOMAIN j /\ NotBlank(j[i])
      BY <1>1, <2>4 DEF NotBlank
    <3> QED
      BY <2>1, <2>4, <3>2, <3>3 DEF Chained
  <2> QED
    BY <2>2, <2>3, <2>4
<1>7. NoBlanks(w)
  BY <1>1, <1>5 DEF NoBlanks, n
<1>8. Chained(w)
  BY <1>6 DEF Chained
<1>9. ASSUME NEW i \in DOMAIN j, Parses(w[i])
      PROVE  IF i = n THEN j[i] = <<>> /\ w[i] = <<piece>> /\ piece.whole ELSE w[i] = j[i]
  <2>1. i # n => i \in 1 .. n - 1
    BY <1>2
  <2> QED
    BY <1>4, <1>5, <1>9, <2>1
<1>10. ASSUME Readable(w) PROVE Readable(j) /\ j[n] = <<>> /\ piece.whole
  <2>0. n \in DOMAIN w /\ NotBlank(w[n])
    BY <1>1, <1>2, <1>3 DEF NotBlank
  <2>1. Parses(w[n])
    BY <1>10, <2>0 DEF Readable
  <2>2. j[n] = <<>> /\ piece.whole
    BY <1>4, <2>1
  <2>3. ASSUME NEW i \in DOMAIN j, NotBlank(j[i]) PROVE Parses(j[i])
    <3>1. i \in 1 .. n - 1
      BY <1>2, <2>2, <2>3 DEF NotBlank
    <3>2. w[i] = j[i] /\ i \in DOMAIN w
      BY <1>1, <1>5, <3>1
    <3> QED
      BY <1>10, <2>3, <3>2 DEF Readable
  <2> QED
    BY <2>2, <2>3 DEF Readable
<1> QED
  BY <1>3, <1>7, <1>8, <1>9, <1>10 DEF w, n, NotBlank

LEMMA NewlineChained ==
    ASSUME NEW j \in Journals, NoBlanks(j), Chained(j), NotBlank(j[Len(j)])
    PROVE  /\ NoBlanks(Newline(j)) /\ Chained(Newline(j))
           /\ Readable(Newline(j)) => Readable(j) /\ Parses(j[Len(j)])
           /\ ParsesBefore(Newline(j), Len(j) + 1) => Parses(j[Len(j)])
           /\ PrevHash(Newline(j), Len(j) + 1) = j[Len(j)][1].entry.hash
<1> DEFINE w == Newline(j)
           n == Len(j)
<1>1. w \in Journals /\ Len(w) = n + 1 /\ w[n + 1] = <<>> /\ \A i \in DOMAIN j : w[i] = j[i]
  BY NewlineLines
<1>2. n \in Nat /\ n >= 1 /\ DOMAIN j = 1 .. n /\ DOMAIN w = 1 .. n + 1
  BY <1>1, LinesOf
<1> HIDE DEF w, n
<1>3. ASSUME NEW i \in 1 .. n PROVE w[i] = j[i] /\ i \in DOMAIN w /\ i \in DOMAIN j
  BY <1>1, <1>2
<1>4. n \in 1 .. n /\ (n + 1) - 1 = n /\ n + 1 # 1
  BY <1>2
<1>5. NoBlanks(w)
  <2>1. ASSUME NEW i \in 1 .. n PROVE NotBlank(w[i])
    <3>1. i = n \/ i \in 1 .. n - 1
      BY <1>2
    <3> QED
      BY <1>3, <3>1 DEF NoBlanks, n
  <2> QED
    BY <1>1, <1>4, <2>1 DEF NoBlanks
<1>6. ASSUME NEW i \in DOMAIN w, ParsesBefore(w, i), NotBlank(w[i])
      PROVE  w[i][1].entry.prev = PrevHash(w, i)
  <2>1. i \in 1 .. n
    BY <1>1, <1>2, <1>6 DEF NotBlank
  <2>2. \A k \in 1 .. i : w[k] = j[k]
    BY <1>2, <1>3, <2>1
  <2>3. \A k \in 1 .. i - 1 : k \in 1 .. i
    BY <1>2, <2>1
  <2>4. i # 1 => i - 1 \in 1 .. i
    BY <1>2, <2>1
  <2>5. i \in 1 .. i
    BY <1>2, <2>1
  <2>6. ParsesBefore(j, i) /\ PrevHash(w, i) = PrevHash(j, i) /\ NotBlank(j[i])
    BY <1>6, <2>2, <2>3, <2>4, <2>5 DEF ParsesBefore, PrevHash
  <2> QED
    BY <1>3, <2>1, <2>6 DEF Chained
<1>7. ASSUME Readable(w) PROVE Readable(j) /\ Parses(j[n])
  <2>1. Readable(j)
    BY <1>2, <1>3, <1>7 DEF Readable
  <2> QED
    BY <1>2, <1>4, <2>1 DEF Readable, n
<1>8. ParsesBefore(w, n + 1) => Parses(j[n])
  BY <1>3, <1>4 DEF ParsesBefore
<1>9. PrevHash(w, n + 1) = j[n][1].entry.hash
  BY <1>3, <1>4 DEF PrevHash
<1> QED
  BY <1>5, <1>6, <1>7, <1>8, <1>9 DEF Chained, w, n

LEMMA CutChained ==
    ASSUME NEW j \in Journals, NoBlanks(j), Chained(j), NEW n \in DOMAIN j, NEW line \in Left(j[n])
    PROVE  NoBlanks(CutAt(j, n, line)) /\ Chained(CutAt(j, n, line))
<1> DEFINE w == CutAt(j, n, line)
<1>1. /\ w \in Journals /\ Len(w) = n /\ w[n] = line
      /\ \A i \in 1 .. n - 1 : w[i] = j[i]
  BY CutLines
<1>2. Len(j) \in Nat /\ DOMAIN j = 1 .. Len(j) /\ DOMAIN w = 1 .. n /\ n \in 1 .. Len(j)
  BY <1>1, LinesOf
<1> HIDE DEF w
<1>3. NoBlanks(w)
  BY <1>1, <1>2 DEF NoBlanks
<1>4. ASSUME NEW i \in DOMAIN w, ParsesBefore(w, i), NotBlank(w[i])
      PROVE  w[i][1].entry.prev = PrevHash(w, i)
  <2>1. i \in 1 .. n /\ i \in DOMAIN j
    BY <1>2
  <2>2. \A k \in 1 .. i - 1 : w[k] = j[k]
    BY <1>1, <1>2, <2>1
  <2>3. i # 1 => i - 1 \in 1 .. i - 1
    BY <1>2, <2>1
  <2>4. ParsesBefore(j, i) /\ PrevHash(w, i) = PrevHash(j, i)
    BY <1>4, <2>2, <2>3 DEF ParsesBefore, PrevHash
  <2>5. NotBlank(j[i]) /\ w[i][1].entry = j[i][1].entry
    <3>1. CASE i # n
      <4>1. i \in 1 .. n - 1
        BY <1>2, <2>1, <3>1
      <4> QED
        BY <1>1, <1>4, <4>1
    <3>2. CASE i = n
      <4>1. line # <<>> /\ w[i] = line
        BY <1>1, <1>4, <3>2 DEF NotBlank
      <4>2. j[n] # <<>> /\ (line = <<j[n][1]>> \/ line = <<Torn(j[n][1].entry)>>)
        BY <4>1 DEF Left
      <4> QED
        BY <3>2, <4>1, <4>2 DEF NotBlank, Torn
    <3> QED
      BY <3>1, <3>2
  <2> QED
    BY <2>1, <2>4, <2>5 DEF Chained
<1> QED
  BY <1>3, <1>4 DEF Chained, w

------------------------------------------------------------------------------
(* What the one ledger holds, against the journal and what it promised.    *)

(* At a blank line it goes on from the line before; the line it has just   *)
(* written is its own, if it can be read at all.                           *)
AtEnd(j, x) ==
    ParsesBefore(j, Len(j)) /\ j[Len(j)] = <<>> /\ x.step \in {"open", "writeLine"} =>
        LastHash(x.window) = PrevHash(j, Len(j))
LineWritten(j, x) ==
    x.step = "writeNewline" =>
        NotBlank(j[Len(j)]) /\ (Parses(j[Len(j)]) => j[Len(j)] = <<Whole(x.entry[1])>>)

(* What it counts and keeps is on the journal, when that can be read, and  *)
(* signed by agents it trusts.                                             *)
InMemory(j, x) ==
    Readable(j) /\ x.step # "closed" =>
        /\ x.total <= Len(j)
        /\ \A i \in 1 .. x.total :
              NotBlank(j[i]) /\ j[i][1].entry.agent \in x.trusted \cup {NoAgent}
        /\ \A k \in DOMAIN x.window : x.window[k] = j[(x.total - Len(x.window)) + k][1].entry

(* What was acknowledged is on the journal, when that can be read, and in  *)
(* the chain the ledger goes on from.                                      *)
AckedOnJournal(j, a) == Readable(j) => \A e \in a : OnJournal(j, e)
AckedInMemory(x, a) == x.step # "closed" => \A e \in a : Covers(LastHash(x.window), e.hash)

Fits(j, x, a) ==
    AtEnd(j, x) /\ LineWritten(j, x) /\ InMemory(j, x) /\ AckedOnJournal(j, a) /\ AckedInMemory(x, a)

LEMMA ClosedFits ==
    ASSUME NEW j, NEW a, AckedOnJournal(j, a)
    PROVE  Fits(j, Closed, a)
BY DEF Fits, AtEnd, LineWritten, InMemory, AckedInMemory, Closed, AuditLedger

LEMMA LastOfSuffix ==
    ASSUME NEW es, HonestSeq(es), NEW n \in Nat, n >= 1, n <= Len(es)
    PROVE  LastHash(Suffix(es, n)) = LastHash(es)
<1>1. /\ Len(Suffix(es, n)) = n /\ \A i \in 1 .. n : Suffix(es, n)[i] = es[(Len(es) - n) + i]
      /\ HonestSeq(Suffix(es, n))
  BY SuffixElements
<1>2. Len(es) \in Nat /\ es # <<>>
  BY DEF HonestSeq
<1>3. Suffix(es, n) # <<>>
  BY <1>1
<1>4. n \in 1 .. n /\ (Len(es) - n) + n = Len(es)
  BY <1>2
<1>5. Suffix(es, n)[n] = es[Len(es)]
  BY <1>1, <1>4
<1> QED
  BY <1>1, <1>2, <1>3, <1>5 DEF LastHash

LEMMA LastOfRecovered ==
    ASSUME NEW es, HonestSeq(es)
    PROVE  /\ LastHash(RecoveredFrom(es)) = LastHash(es)
           /\ Len(RecoveredFrom(es)) \in Nat
           /\ DOMAIN RecoveredFrom(es) = 1 .. Len(RecoveredFrom(es))
           /\ Len(RecoveredFrom(es)) <= Len(es)
           /\ \A k \in DOMAIN RecoveredFrom(es) :
                 /\ (Len(es) - Len(RecoveredFrom(es))) + k \in 1 .. Len(es)
                 /\ RecoveredFrom(es)[k] = es[(Len(es) - Len(RecoveredFrom(es))) + k]
<1>1. ResidentCap \in Nat /\ ResidentCap >= 1
  BY AuditAssumption
<1>2. Len(es) \in Nat /\ DOMAIN es = 1 .. Len(es)
  BY DEF HonestSeq
<1>3. CASE Len(es) > 2 * ResidentCap
  <2> DEFINE w == Suffix(es, ResidentCap)
  <2>1. ResidentCap <= Len(es)
    BY <1>1, <1>2, <1>3
  <2>2. /\ Len(w) = ResidentCap /\ DOMAIN w = 1 .. ResidentCap
        /\ \A i \in 1 .. ResidentCap : w[i] = es[(Len(es) - ResidentCap) + i]
        /\ LastHash(w) = LastHash(es)
    BY <1>1, <2>1, SuffixElements, LastOfSuffix
  <2>3. RecoveredFrom(es) = w
    BY <1>3 DEF RecoveredFrom
  <2> HIDE DEF w
  <2>4. \A k \in 1 .. ResidentCap : (Len(es) - ResidentCap) + k \in 1 .. Len(es)
    BY <1>1, <1>2, <2>1
  <2> QED
    BY <1>1, <2>1, <2>2, <2>3, <2>4
<1>4. CASE ~(Len(es) > 2 * ResidentCap)
  <2>1. RecoveredFrom(es) = es
    BY <1>4 DEF RecoveredFrom
  <2>2. \A k \in 1 .. Len(es) : (Len(es) - Len(es)) + k = k
    BY <1>2
  <2> QED
    BY <1>2, <2>1, <2>2
<1> QED
  BY <1>3, <1>4

LEMMA RecoveredFits ==
    ASSUME NEW j \in Journals, NoBlanks(j), Chained(j), Readable(j), JournalHonest(j),
           NEW a, AckedOnJournal(j, a), NEW keys, SignedBy(EntriesOf(j), keys)
    PROVE  Fits(j, AuditLedger("open", RecoveredFrom(EntriesOf(j)), Len(EntriesOf(j)), keys, <<>>), a)
<1> DEFINE es == EntriesOf(j)
           w == RecoveredFrom(es)
           x == AuditLedger("open", w, Len(es), keys, <<>>)
           m == Filled(j)
<1>1. HonestSeq(es) /\ Linked(es) /\ LastHash(es) = PrevHash(j, m + 1)
  BY ReadableChain
<1>2. /\ m \in Nat /\ m <= Len(j) /\ Len(es) = m /\ DOMAIN es = 1 .. m
      /\ \A i \in 1 .. m : es[i] = j[i][1].entry /\ i \in DOMAIN j /\ NotBlank(j[i])
      /\ \A i \in DOMAIN j : NotBlank(j[i]) => i \in 1 .. m
  BY ReadableEntries
<1>3. /\ LastHash(w) = LastHash(es)
      /\ \A k \in DOMAIN w : /\ (Len(es) - Len(w)) + k \in 1 .. Len(es)
                             /\ w[k] = es[(Len(es) - Len(w)) + k]
  BY <1>1, LastOfRecovered
<1>4. x.step = "open" /\ x.window = w /\ x.total = m /\ x.trusted = keys
  BY <1>2 DEF AuditLedger
<1>5. AtEnd(j, x)
  <2>1. ASSUME j[Len(j)] = <<>> PROVE LastHash(w) = PrevHash(j, Len(j))
    <3>1. m = Len(j) - 1 /\ Len(j) \in Nat
      BY <2>1, LinesOf DEF Filled, NotBlank
    <3>2. m + 1 = Len(j)
      BY <3>1
    <3> QED
      BY <1>1, <1>3, <3>2
  <2> HIDE DEF x
  <2> QED
    BY <1>4, <2>1 DEF AtEnd
<1> HIDE DEF x, w, m, es
<1>6. LineWritten(j, x)
  BY <1>4 DEF LineWritten
<1>7. InMemory(j, x)
  <2>1. \A i \in 1 .. m : j[i][1].entry.agent \in keys \cup {NoAgent}
    BY <1>2 DEF SignedBy, es
  <2>2. \A k \in DOMAIN w : w[k] = j[(m - Len(w)) + k][1].entry
    BY <1>2, <1>3
  <2> QED
    BY <1>2, <1>4, <2>1, <2>2 DEF InMemory
<1>8. AckedInMemory(x, a)
  <2>1. ASSUME NEW e \in a PROVE Covers(LastHash(es), e.hash)
    <3>1. PICK i \in DOMAIN j : j[i] = <<Whole(e)>>
      BY DEF AckedOnJournal, OnJournal
    <3>2. i \in 1 .. m /\ es[i] = e
      <4>1. NotBlank(j[i]) /\ j[i][1].entry = e
        BY <3>1 DEF NotBlank, Whole
      <4>2. i \in 1 .. m
        BY <1>2, <4>1
      <4> QED
        BY <1>2, <4>1, <4>2
    <3>3. m \in 1 .. m /\ es # <<>>
      BY <1>2, <3>2
    <3>4. Covers(es[m].hash, es[i].hash)
      BY <1>1, <1>2, <3>2, <3>3, ChainCovers DEF ChainUpTo
    <3> QED
      BY <1>2, <3>2, <3>3, <3>4 DEF LastHash
  <2> QED
    BY <1>3, <1>4, <2>1 DEF AckedInMemory
<1>9. Fits(j, x, a)
  BY <1>5, <1>6, <1>7, <1>8 DEF Fits
<1> QED
  BY <1>9 DEF x, w, es

LEMMA BegunFits ==
    ASSUME NEW j, NEW x, NEW a, Fits(j, x, a), x.step = "open", NEW y, y.step = "writeLine",
           y.window = x.window, y.total = x.total, x.trusted \subseteq y.trusted
    PROVE  Fits(j, y, a)
<1>1. AtEnd(j, y) /\ LineWritten(j, y) /\ AckedInMemory(y, a)
  BY DEF Fits, AtEnd, LineWritten, AckedInMemory
<1>2. InMemory(j, y)
  <2>1. \A g : g \in x.trusted \cup {NoAgent} => g \in y.trusted \cup {NoAgent}
    OBVIOUS
  <2> QED
    BY <2>1 DEF Fits, InMemory
<1> QED
  BY <1>1, <1>2 DEF Fits

(* The indices of the window's entries on the journal. *)
LEMMA WindowPositions ==
    ASSUME NEW window, NEW total, WindowOK(window, total), NEW k \in DOMAIN window
    PROVE  (total - Len(window)) + k \in 1 .. total
<1>1. /\ window \in Seq(Entry) /\ Len(window) \in Nat /\ total \in Nat /\ k \in 1 .. Len(window)
      /\ 1 \in DOMAIN window /\ window[1].seq + 1 = (total - Len(window)) + 1
  BY DEF WindowOK, HonestSeq
<1>2. window[1].seq \in Nat
  BY <1>1, HashOfHonest DEF WindowOK, HonestSeq
<1> QED
  BY <1>1, <1>2

LEMMA LineFits ==
    ASSUME NEW j \in Journals, NoBlanks(j), Chained(j), NEW x, NEW a, Fits(j, x, a), HandleOK(x),
           x.step = "writeLine", NEW e \in Entry, x.entry[1] = e, Follows(e, x),
           NEW y, y.step = "writeNewline", y.window = x.window, y.total = x.total,
           y.trusted = x.trusted, y.entry = x.entry
    PROVE  LET w == Write(j, Whole(e)) IN NoBlanks(w) /\ Chained(w) /\ Fits(w, y, a)
<1> DEFINE w == Write(j, Whole(e))
           n == Len(j)
<1>1. Whole(e) \in Piece /\ Whole(e).entry = e
  BY DEF Whole, Piece
<1>2. ParsesBefore(j, n) /\ j[n] = <<>> => e.prev = PrevHash(j, n)
  BY DEF Fits, AtEnd, Follows
<1>3. /\ NoBlanks(w) /\ Chained(w) /\ NotBlank(w[n])
      /\ \A i \in DOMAIN j : Parses(w[i]) =>
            IF i = n THEN j[i] = <<>> /\ w[i] = <<Whole(e)>> ELSE w[i] = j[i]
      /\ Readable(w) => Readable(j) /\ j[n] = <<>>
  BY <1>1, <1>2, WriteChained
<1>4. /\ w \in Journals /\ Len(w) = n /\ DOMAIN w = DOMAIN j /\ DOMAIN j = 1 .. n
      /\ n \in DOMAIN j /\ n \in Nat /\ \A i \in 1 .. n - 1 : w[i] = j[i]
  BY <1>1, WriteLines, LinesOf
<1>5. WindowOK(x.window, x.total)
  BY DEF HandleOK
<1> HIDE DEF w, n
<1>6. AtEnd(w, y) /\ AckedInMemory(y, a)
  BY DEF AtEnd, AckedInMemory, Fits
<1>7. LineWritten(w, y)
  BY <1>3, <1>4 DEF LineWritten
<1>8. ASSUME NEW i \in DOMAIN j, NotBlank(j[i]), Readable(w) PROVE w[i] = j[i]
  <2>1. i # n
    BY <1>3, <1>8 DEF NotBlank
  <2>2. i \in 1 .. n - 1
    BY <1>4, <2>1
  <2> QED
    BY <1>4, <2>2
<1>9. ASSUME Readable(w)
      PROVE  /\ x.total <= n
             /\ \A i \in 1 .. x.total :
                   NotBlank(w[i]) /\ w[i][1].entry.agent \in x.trusted \cup {NoAgent}
             /\ \A k \in DOMAIN x.window :
                   x.window[k] = w[(x.total - Len(x.window)) + k][1].entry
  <2>1. /\ x.total <= n
        /\ \A i \in 1 .. x.total :
              NotBlank(j[i]) /\ j[i][1].entry.agent \in x.trusted \cup {NoAgent}
        /\ \A k \in DOMAIN x.window : x.window[k] = j[(x.total - Len(x.window)) + k][1].entry
    BY <1>3, <1>9 DEF Fits, InMemory, n
  <2>2. ASSUME NEW i \in 1 .. x.total PROVE w[i] = j[i]
    <3>1. x.total \in Nat
      BY <1>5 DEF WindowOK
    <3>2. i \in DOMAIN j
      BY <1>4, <2>1, <3>1
    <3> QED
      BY <1>8, <1>9, <2>1, <3>2
  <2> QED
    BY <1>5, <2>1, <2>2, WindowPositions
<1>10. InMemory(w, y)
  BY <1>4, <1>9 DEF InMemory
<1>11. AckedOnJournal(w, a)
  <2>1. ASSUME Readable(w), NEW b \in a PROVE OnJournal(w, b)
    <3>1. PICK i \in DOMAIN j : j[i] = <<Whole(b)>>
      BY <1>3, <2>1 DEF Fits, AckedOnJournal, OnJournal
    <3>2. NotBlank(j[i])
      BY <3>1 DEF NotBlank
    <3>3. w[i] = j[i]
      BY <1>8, <2>1, <3>2
    <3> QED
      BY <1>4, <3>1, <3>3 DEF OnJournal
  <2> QED
    BY <2>1 DEF AckedOnJournal
<1> QED
  BY <1>3, <1>6, <1>7, <1>10, <1>11 DEF Fits, w

LEMMA PushedElements ==
    ASSUME NEW window, NEW total, WindowOK(window, total), NEW e, Honest(e),
           e.prev = LastHash(window), e.seq = total
    PROVE  LET w == Pushed(window, e)
           IN  /\ LastHash(w) = e.hash
               /\ \A k \in DOMAIN w :
                     \/ ((total + 1) - Len(w)) + k = total + 1 /\ w[k] = e
                     \/ \E i \in DOMAIN window :
                           /\ w[k] = window[i]
                           /\ ((total + 1) - Len(w)) + k = (total - Len(window)) + i
<1> DEFINE grown == Append(window, e)
           w == Pushed(window, e)
           n == Len(window)
<1>1. /\ window \in Seq(Entry) /\ n \in Nat /\ total \in Nat /\ DOMAIN window = 1 .. n
      /\ n <= 2 * ResidentCap /\ \A i \in DOMAIN window : Honest(window[i])
  BY DEF WindowOK, HonestSeq
<1>2. e \in Entry
  BY DEF Honest
<1>3. /\ grown \in Seq(Entry) /\ grown # <<>> /\ Len(grown) = n + 1 /\ DOMAIN grown = 1 .. n + 1
      /\ \A i \in 1 .. n : grown[i] = window[i]
      /\ grown[n + 1] = e
  BY <1>1, <1>2
<1>4. HonestSeq(grown) /\ LastHash(grown) = e.hash
  BY <1>1, <1>3 DEF HonestSeq, LastHash
<1>5. ResidentCap \in Nat /\ ResidentCap >= 1
  BY AuditAssumption
<1> HIDE DEF grown, n, w
<1>6. /\ Len(w) \in Nat /\ Len(w) >= 1 /\ Len(w) <= n + 1 /\ DOMAIN w = 1 .. Len(w)
      /\ LastHash(w) = e.hash
      /\ \A k \in 1 .. Len(w) : w[k] = grown[((n + 1) - Len(w)) + k]
  <2>1. CASE Len(grown) > 2 * ResidentCap
    <3> DEFINE c == Len(grown) - ResidentCap
    <3>1. c \in Nat /\ c >= 1 /\ c <= Len(grown) /\ Len(grown) \in Nat
      BY <1>1, <1>3, <1>5, <2>1
    <3> HIDE DEF c
    <3>2. w = Suffix(grown, c)
      BY <2>1 DEF Pushed, grown, c, w
    <3>3. /\ Len(w) = c /\ DOMAIN w = 1 .. c /\ \A i \in 1 .. c : w[i] = grown[(Len(grown) - c) + i]
      BY <1>4, <3>1, <3>2, SuffixElements
    <3>4. LastHash(w) = e.hash
      BY <1>4, <3>1, <3>2, LastOfSuffix
    <3>5. ASSUME NEW k \in 1 .. Len(w) PROVE w[k] = grown[((n + 1) - Len(w)) + k]
      <4>1. ((n + 1) - Len(w)) + k = (Len(grown) - c) + k /\ k \in 1 .. c
        BY <1>1, <1>3, <3>1, <3>3
      <4> QED
        BY <3>3, <4>1
    <3>6. Len(w) \in Nat /\ Len(w) >= 1 /\ Len(w) <= n + 1 /\ DOMAIN w = 1 .. Len(w)
      BY <1>3, <3>1, <3>3
    <3> QED
      BY <3>4, <3>5, <3>6
  <2>2. CASE ~(Len(grown) > 2 * ResidentCap)
    <3>1. w = grown
      BY <2>2 DEF Pushed, grown, w
    <3>2. \A k \in 1 .. n + 1 : ((n + 1) - (n + 1)) + k = k
      BY <1>1
    <3> QED
      BY <1>1, <1>3, <1>4, <3>1, <3>2
  <2> QED
    BY <2>1, <2>2
<1>7. ASSUME NEW k \in DOMAIN w
      PROVE  \/ ((total + 1) - Len(w)) + k = total + 1 /\ w[k] = e
             \/ \E i \in DOMAIN window :
                   /\ w[k] = window[i]
                   /\ ((total + 1) - Len(w)) + k = (total - n) + i
  <2> DEFINE i == ((n + 1) - Len(w)) + k
  <2>1. k \in 1 .. Len(w) /\ w[k] = grown[i]
    BY <1>6
  <2>2. i \in 1 .. n + 1 /\ ((total + 1) - Len(w)) + k = (total - n) + i
    BY <1>1, <1>6, <2>1
  <2> HIDE DEF i
  <2>3. CASE i = n + 1
    BY <1>1, <1>3, <2>1, <2>2, <2>3
  <2>4. CASE i # n + 1
    <3>1. i \in 1 .. n
      BY <1>1, <2>2, <2>4
    <3> QED
      BY <1>1, <1>3, <2>1, <2>2, <3>1
  <2> QED
    BY <2>3, <2>4
<1> QED
  BY <1>6, <1>7 DEF w, n

LEMMA CoversGrows ==
    ASSUME NEW e, Honest(e), NEW part, Covers(e.prev, part), Len(part) \in Nat
    PROVE  Covers(e.hash, part)
BY HashOfHonest DEF Covers

LEMMA NewlineFits ==
    ASSUME NEW j \in Journals, NoBlanks(j), Chained(j), JournalHonest(j),
           NEW x, NEW a, Fits(j, x, a), HandleOK(x), \A b \in a : Honest(b),
           x.step = "writeNewline", NEW e \in Entry, x.entry[1] = e, Follows(e, x)
    PROVE  /\ NoBlanks(Newline(j)) /\ Chained(Newline(j))
           /\ Fits(Newline(j),
                   AuditLedger("open", Pushed(x.window, e), x.total + 1, x.trusted, <<>>), a \cup {e})
<1> DEFINE w == Newline(j)
           n == Len(j)
           pushed == Pushed(x.window, e)
           y == AuditLedger("open", pushed, x.total + 1, x.trusted, <<>>)
<1>1. NotBlank(j[n]) /\ (Parses(j[n]) => j[n] = <<Whole(e)>>)
  BY DEF Fits, LineWritten
<1>2. /\ NoBlanks(w) /\ Chained(w) /\ (Readable(w) => Readable(j) /\ Parses(j[n]))
      /\ (ParsesBefore(w, n + 1) => Parses(j[n]))
      /\ PrevHash(w, n + 1) = j[n][1].entry.hash
  BY <1>1, NewlineChained
<1>3. /\ w \in Journals /\ Len(w) = n + 1 /\ (\A i \in DOMAIN j : w[i] = j[i])
      /\ DOMAIN j = 1 .. n /\ n \in Nat /\ n >= 1 /\ DOMAIN w = 1 .. n + 1
  BY NewlineLines, LinesOf
<1>4. WindowOK(x.window, x.total) /\ Honest(e) /\ e.prev = LastHash(x.window) /\ e.seq = x.total
      /\ e.agent \in x.trusted \cup {NoAgent}
  BY DEF HandleOK, Follows
<1>5. LastHash(pushed) = e.hash
  BY <1>4, PushedElements
<1>6. y.step = "open" /\ y.window = pushed /\ y.total = x.total + 1 /\ y.trusted = x.trusted
  BY DEF AuditLedger
<1>7. x.total \in Nat
  BY <1>4 DEF WindowOK
<1> HIDE DEF w, n, y, pushed
<1>8. AtEnd(w, y)
  <2>1. ParsesBefore(w, n + 1) => PrevHash(w, n + 1) = e.hash
    BY <1>1, <1>2 DEF Whole
  <2> QED
    BY <1>3, <1>5, <1>6, <2>1 DEF AtEnd
<1>9. LineWritten(w, y)
  BY <1>6 DEF LineWritten
<1>10. ASSUME Readable(w)
       PROVE  /\ x.total + 1 = n /\ j[n] = <<Whole(e)>> /\ j[n][1].entry = e
              /\ \A i \in 1 .. x.total :
                    NotBlank(j[i]) /\ j[i][1].entry.agent \in x.trusted \cup {NoAgent}
              /\ \A k \in DOMAIN x.window :
                    x.window[k] = j[(x.total - Len(x.window)) + k][1].entry
  <2>1. Readable(j) /\ j[n] = <<Whole(e)>>
    BY <1>1, <1>2, <1>10
  <2>2. Filled(j) = n
    BY <1>1 DEF Filled, n
  <2>3. EntriesOf(j)[n] = j[n][1].entry /\ n \in DOMAIN EntriesOf(j)
    BY <1>3, <2>1, <2>2, ReadableEntries
  <2>4. EntriesOf(j)[n] = e
    BY <2>1, <2>3 DEF Whole
  <2>5. e.seq + 1 = n
    BY <2>1, <2>3, <2>4, ReadableChain DEF Numbered
  <2> QED
    BY <1>4, <2>1, <2>3, <2>4, <2>5 DEF Fits, InMemory
<1>11. InMemory(w, y)
  <2>1. ASSUME Readable(w)
        PROVE  /\ y.total <= Len(w)
               /\ \A i \in 1 .. y.total :
                     NotBlank(w[i]) /\ w[i][1].entry.agent \in y.trusted \cup {NoAgent}
               /\ \A k \in DOMAIN y.window :
                     y.window[k] = w[(y.total - Len(y.window)) + k][1].entry
    <3>1. y.total <= Len(w)
      BY <1>3, <1>6, <1>10, <2>1
    <3>2. ASSUME NEW i \in 1 .. y.total
          PROVE  NotBlank(w[i]) /\ w[i][1].entry.agent \in y.trusted \cup {NoAgent}
      <4>1. i \in 1 .. n /\ w[i] = j[i]
        BY <1>3, <1>6, <1>10, <2>1
      <4>2. CASE i = n
        BY <1>1, <1>4, <1>6, <1>10, <2>1, <4>1, <4>2
      <4>3. CASE i # n
        <5>1. i \in 1 .. x.total
          BY <1>7, <1>10, <2>1, <4>1, <4>3
        <5> QED
          BY <1>6, <1>10, <2>1, <4>1, <5>1
      <4> QED
        BY <4>2, <4>3
    <3>3. ASSUME NEW k \in DOMAIN pushed
          PROVE  pushed[k] = w[((x.total + 1) - Len(pushed)) + k][1].entry
      <4>1. CASE ((x.total + 1) - Len(pushed)) + k = x.total + 1 /\ pushed[k] = e
        <5>1. w[n] = j[n]
          BY <1>3
        <5> QED
          BY <1>10, <2>1, <4>1, <5>1
      <4>2. CASE \E i \in DOMAIN x.window :
                    /\ pushed[k] = x.window[i]
                    /\ ((x.total + 1) - Len(pushed)) + k = (x.total - Len(x.window)) + i
        <5>1. PICK i \in DOMAIN x.window :
                    /\ pushed[k] = x.window[i]
                    /\ ((x.total + 1) - Len(pushed)) + k = (x.total - Len(x.window)) + i
          BY <4>2
        <5>2. (x.total - Len(x.window)) + i \in 1 .. x.total
          BY <1>4, WindowPositions
        <5>3. (x.total - Len(x.window)) + i \in DOMAIN j
          BY <1>3, <1>7, <1>10, <2>1, <5>2
        <5> QED
          BY <1>3, <1>10, <2>1, <5>1, <5>3
      <4> QED
        BY <1>4, <4>1, <4>2, PushedElements DEF pushed
    <3>4. ASSUME NEW k \in DOMAIN y.window
          PROVE  y.window[k] = w[(y.total - Len(y.window)) + k][1].entry
      <4>1. k \in DOMAIN pushed /\ y.window[k] = pushed[k]
        BY <1>6, <3>4
      <4>2. (y.total - Len(y.window)) + k = ((x.total + 1) - Len(pushed)) + k
        BY <1>6
      <4>3. pushed[k] = w[((x.total + 1) - Len(pushed)) + k][1].entry
        BY <3>3, <4>1
      <4> QED
        BY <4>1, <4>2, <4>3
    <3> QED
      BY <3>1, <3>2, <3>4
  <2> QED
    BY <2>1 DEF InMemory
<1>12. AckedOnJournal(w, a \cup {e})
  <2>1. ASSUME Readable(w), NEW b \in a \cup {e} PROVE OnJournal(w, b)
    <3>1. CASE b = e
      <4>1. n \in DOMAIN w /\ w[n] = <<Whole(e)>>
        BY <1>3, <1>10, <2>1
      <4> QED
        BY <3>1, <4>1 DEF OnJournal
    <3>2. CASE b \in a
      <4>1. PICK i \in DOMAIN j : j[i] = <<Whole(b)>>
        BY <1>2, <2>1, <3>2 DEF Fits, AckedOnJournal, OnJournal
      <4>2. i \in DOMAIN w /\ w[i] = <<Whole(b)>>
        BY <1>3, <4>1
      <4> QED
        BY <4>2 DEF OnJournal
    <3> QED
      BY <2>1, <3>1, <3>2
  <2> QED
    BY <2>1 DEF AckedOnJournal
<1>13. AckedInMemory(y, a \cup {e})
  <2>1. ASSUME NEW b \in a \cup {e} PROVE Covers(e.hash, b.hash)
    <3>1. CASE b = e
      <4>1. Len(e.hash) \in Nat
        BY <1>4, HashOfHonest
      <4> QED
        BY <3>1, <4>1 DEF Covers
    <3>2. CASE b \in a
      <4>1. Covers(e.prev, b.hash)
        BY <1>4, <3>2 DEF Fits, AckedInMemory
      <4>2. Len(b.hash) \in Nat
        BY <3>2, HashOfHonest
      <4> QED
        BY <1>4, <4>1, <4>2, CoversGrows
    <3> QED
      BY <2>1, <3>1, <3>2
  <2> QED
    BY <1>5, <1>6, <2>1 DEF AckedInMemory
<1>14. Fits(w, y, a \cup {e})
  BY <1>8, <1>9, <1>11, <1>12, <1>13 DEF Fits
<1> QED
  BY <1>2, <1>14 DEF w, y, pushed

LEMMA FailedFits ==
    ASSUME NEW j, NEW x, NEW a, Fits(j, x, a), x.step \in Committing,
           NEW y, y.step = "open", y.window = x.window, y.total = x.total, y.trusted = x.trusted
    PROVE  Fits(j, y, a)
<1>1. InMemory(j, y) /\ AckedInMemory(y, a) /\ LineWritten(j, y) /\ AckedOnJournal(j, a)
  BY DEF Fits, InMemory, AckedInMemory, LineWritten, Committing
<1>2. AtEnd(j, y)
  <2>1. CASE x.step = "writeLine"
    BY <2>1 DEF Fits, AtEnd
  <2>2. CASE x.step = "writeNewline"
    BY <2>2 DEF Fits, AtEnd, LineWritten, NotBlank
  <2> QED
    BY <2>1, <2>2 DEF Committing
<1> QED
  BY <1>1, <1>2 DEF Fits

(* A line cut short makes the journal unreadable, so nothing is claimed of *)
(* it but that the ledger goes on.                                         *)
LEMMA TornFits ==
    ASSUME NEW j \in Journals, NoBlanks(j), Chained(j), NEW x, NEW a, Fits(j, x, a),
           x.step = "writeLine", NEW e \in Entry, x.entry[1] = e, Follows(e, x),
           NEW y, y.step = "closed" \/ (y.step = "open" /\ y.window = x.window)
    PROVE  LET w == Write(j, Torn(e)) IN NoBlanks(w) /\ Chained(w) /\ Fits(w, y, a)
<1> DEFINE w == Write(j, Torn(e))
           n == Len(j)
<1>1. Torn(e) \in Piece /\ Torn(e).entry = e /\ Torn(e).whole = FALSE
  BY DEF Torn, Piece
<1>2. ParsesBefore(j, n) /\ j[n] = <<>> => e.prev = PrevHash(j, n)
  BY DEF Fits, AtEnd, Follows
<1>3. NoBlanks(w) /\ Chained(w) /\ NotBlank(w[n]) /\ (Readable(w) => Torn(e).whole)
  BY <1>1, <1>2, WriteChained
<1>4. Len(w) = n
  BY <1>1, WriteLines
<1> HIDE DEF w, n
<1>5. ~Readable(w)
  BY <1>1, <1>3
<1>6. AtEnd(w, y) /\ LineWritten(w, y) /\ InMemory(w, y) /\ AckedOnJournal(w, a)
  BY <1>3, <1>4, <1>5 DEF AtEnd, LineWritten, InMemory, AckedOnJournal, NotBlank
<1>7. AckedInMemory(y, a)
  BY DEF AckedInMemory, Fits
<1> QED
  BY <1>3, <1>6, <1>7 DEF Fits, w

------------------------------------------------------------------------------
(* The invariant of a deployment with one ledger. *)

PinCovers(p) == p # NoHead => \A e \in p.covers : Covers(p.hash, e.hash)

SoloInv(w) ==
    /\ NoBlanks(journal) /\ Chained(journal)
    /\ \A h \in Handles \ {w} : handle[h] = Closed
    /\ Fits(journal, handle[w], acked)
    /\ PinCovers(pin)

AloneInv == \A w \in Handles : setup.handles = {w} => SoloInv(w)

LEMMA InitSolo ==
    ASSUME Init, NEW w \in Handles
    PROVE  SoloInv(w)
<1>1. /\ journal = <<<<>>>> /\ Len(journal) = 1 /\ journal[1] = <<>> /\ DOMAIN journal = 1 .. 1
      /\ acked = {} /\ pin = NoHead /\ \A h \in Handles : handle[h] = Closed
  BY DEF Init, EmptyJournal
<1>2. NoBlanks(journal)
  BY <1>1 DEF NoBlanks
<1>3. Chained(journal)
  BY <1>1 DEF Chained, NotBlank
<1>4. AckedOnJournal(journal, acked)
  BY <1>1 DEF AckedOnJournal
<1>5. Fits(journal, handle[w], acked)
  BY <1>1, <1>4, ClosedFits
<1> QED
  BY <1>1, <1>2, <1>3, <1>5 DEF SoloInv, PinCovers

LEMMA SoloFromParts ==
    ASSUME JournalInv, NEW w \in Handles, SoloInv(w), NEW x, HandleOK(x), Sets(w, x),
           NoBlanks(journal'), Chained(journal'), Fits(journal', x, acked'), PinCovers(pin')
    PROVE  SoloInv(w)'
<1>1. handle'[w] = x /\ \A g \in Handles \ {w} : handle'[g] = handle[g]
  BY OneMoves
<1> QED
  BY <1>1 DEF SoloInv

LEMMA CoversTransitive ==
    ASSUME NEW a, NEW b, NEW c, Covers(a, b), Covers(b, c), Len(c) \in Nat, Len(b) \in Nat, Len(a) \in Nat
    PROVE  Covers(a, c)
BY DEF Covers

LEMMA PrefixIsCovered ==
    ASSUME NEW a \in Hash, NEW b \in Hash, IsPrefix(b, a)
    PROVE  Covers(a, b)
<1>1. b \in Seq(Nat \X Records) /\ a \in Seq(Nat \X Records)
  BY DEF Hash
<1>2. Len(b) <= Len(a) /\ SubSeq(b, 1, Len(b)) = SubSeq(a, 1, Len(b)) /\ Len(b) \in Nat
  BY <1>1 DEF IsPrefix
<1>3. ASSUME NEW k \in 1 .. Len(b) PROVE b[k] = a[k]
  <2>1. /\ \A i \in 1 .. Len(b) : a[i] \in Nat \X Records
        /\ \A i \in 1 .. Len(b) : b[i] \in Nat \X Records
    <3>1. ASSUME NEW S, NEW s \in Seq(S), NEW i \in 1 .. Len(s) PROVE s[i] \in S
      OBVIOUS
    <3>2. \A i \in 1 .. Len(b) : i \in 1 .. Len(a)
      BY <1>1, <1>2
    <3> QED
      BY <1>1, <3>1, <3>2
  <2>2. SubSeq(a, 1, Len(b))[k] = a[k] /\ SubSeq(b, 1, Len(b))[k] = b[k]
    BY <1>1, <1>2, <2>1, SubSeqProperties
  <2> QED
    BY <1>2, <2>2
<1> QED
  BY <1>2, <1>3 DEF Covers


LEMMA PinKeepsCovers ==
    ASSUME JournalInv, NEW w \in Handles, SoloInv(w), PinHead(w)
    PROVE  PinCovers(pin')
<1> DEFINE head == Last(handle[w].window)
           new == {e \in acked : OnJournal(journal, e)}
<1>1. /\ handle[w].step = "open" /\ handle[w].total > 0
      /\ (pin # NoHead => IsPrefix(pin.hash, head.hash))
      /\ pin' = [seq |-> head.seq, hash |-> head.hash,
                 covers |-> new \cup (IF pin = NoHead THEN {} ELSE pin.covers)]
  BY DEF PinHead
<1>2. WindowOK(handle[w].window, handle[w].total)
  BY <1>1, InvParts DEF HandleOK
<1>3. Honest(head) /\ LastHash(handle[w].window) = head.hash
  BY <1>1, <1>2, HeadOfWindow DEF Last
<1>4. head.hash \in Hash /\ Len(head.hash) \in Nat
  BY <1>3, HashOfHonest
<1>5. pin'.hash = head.hash /\ pin'.covers = new \cup (IF pin = NoHead THEN {} ELSE pin.covers)
  BY <1>1
<1> HIDE DEF head
<1>6. ASSUME NEW e \in pin'.covers PROVE Covers(head.hash, e.hash)
  <2>1. CASE e \in acked
    BY <1>1, <1>3, <2>1 DEF SoloInv, Fits, AckedInMemory
  <2>2. CASE pin # NoHead /\ e \in pin.covers
    <3>1. Covers(pin.hash, e.hash)
      BY <2>2 DEF SoloInv, PinCovers
    <3>2. pin.hash \in Hash /\ Len(pin.hash) \in Nat /\ Honest(e)
      BY <2>2, InvParts DEF Hash
    <3>3. Covers(head.hash, pin.hash)
      BY <1>1, <1>4, <2>2, <3>2, PrefixIsCovered
    <3>4. Len(e.hash) \in Nat
      BY <3>2, HashOfHonest
    <3> QED
      BY <1>4, <3>1, <3>2, <3>3, <3>4, CoversTransitive
  <2> QED
    BY <1>5, <1>6, <2>1, <2>2
<1> QED
  BY <1>5, <1>6 DEF PinCovers

LEMMA StepSolo ==
    ASSUME JournalInv, [Next]_vars, NEW w \in Handles, setup.handles = {w}, SoloInv(w)
    PROVE  SoloInv(w)'
<1> DEFINE x == handle[w]
<1>0. /\ journal \in Journals /\ JournalHonest(journal) /\ HandleOK(x) /\ x \in Handle
      /\ (\A e \in acked : Honest(e))
      /\ NoBlanks(journal) /\ Chained(journal) /\ Fits(journal, x, acked) /\ PinCovers(pin)
      /\ AckedOnJournal(journal, acked)
      /\ setup.records \subseteq Records /\ setup.agents \subseteq Agents
  BY InvParts, SetupFacts DEF SoloInv, Fits, JournalInv
<1>1. ASSUME UNCHANGED vars PROVE SoloInv(w)'
  BY <1>1 DEF vars, SoloInv
<1>2. ASSUME NEW keys \in SUBSET Agents, Recover(w, keys) PROVE SoloInv(w)'
  <2> DEFINE es == EntriesOf(journal)
             y == AuditLedger("open", RecoveredFrom(es), Len(es), keys, <<>>)
  <2>1. HandleOK(y) /\ Sets(w, y) /\ SignedBy(es, keys)
    BY <1>2, RecoverMoves
  <2>2. UNCHANGED <<journal, acked, pin>> /\ Readable(journal)
    BY <1>2 DEF Recover, VerifiesClean
  <2>3. Fits(journal, y, acked)
    BY <1>0, <2>1, <2>2, RecoveredFits
  <2> HIDE DEF y
  <2> QED
    BY <1>0, <2>1, <2>2, <2>3, SoloFromParts
<1>3. ASSUME NEW r \in Records, NEW a \in Agents \cup {NoAgent}, BeginAppend(w, r, a)
      PROVE  SoloInv(w)'
  <2>1. PICK e \in Entry :
           LET y == AuditLedger("writeLine", x.window, x.total, x.trusted \cup ({a} \cap Agents), <<e>>)
           IN  HandleOK(y) /\ Sets(w, y)
    BY <1>3, BeginMoves
  <2> DEFINE y == AuditLedger("writeLine", x.window, x.total, x.trusted \cup ({a} \cap Agents), <<e>>)
  <2>2. UNCHANGED <<journal, acked, pin>> /\ x.step = "open"
    BY <1>3 DEF BeginAppend
  <2>3. /\ y.step = "writeLine" /\ y.window = x.window /\ y.total = x.total
        /\ x.trusted \subseteq y.trusted
    BY DEF AuditLedger
  <2>4. HandleOK(y) /\ Sets(w, y)
    BY <2>1
  <2> HIDE DEF y
  <2>5. Fits(journal, y, acked)
    BY <1>0, <2>2, <2>3, BegunFits
  <2> QED
    BY <1>0, <2>2, <2>4, <2>5, SoloFromParts
<1>4. ASSUME WriteLine(w) PROVE SoloInv(w)'
  <2> DEFINE y == AuditLedger("writeNewline", x.window, x.total, x.trusted, x.entry)
  <2>1. HandleOK(y) /\ Sets(w, y)
    BY <1>4, WriteLineMoves
  <2>2. PICK e \in Entry : x.entry[1] = e /\ Follows(e, x)
    BY <1>4, Committed DEF WriteLine, Committing
  <2>3. /\ UNCHANGED <<acked, pin>> /\ x.step = "writeLine" /\ journal' = Write(journal, Whole(e))
    BY <1>4, <2>2 DEF WriteLine
  <2>4. /\ y.step = "writeNewline" /\ y.window = x.window /\ y.total = x.total
        /\ y.trusted = x.trusted /\ y.entry = x.entry
    BY DEF AuditLedger
  <2> HIDE DEF y
  <2>5. NoBlanks(journal') /\ Chained(journal') /\ Fits(journal', y, acked)
    BY <1>0, <2>2, <2>3, <2>4, LineFits
  <2> QED
    BY <1>0, <2>1, <2>3, <2>5, SoloFromParts
<1>5. ASSUME WriteNewline(w) PROVE SoloInv(w)'
  <2>1. PICK e \in Entry : x.entry[1] = e /\ Follows(e, x)
    BY <1>5, Committed DEF WriteNewline, Committing
  <2> DEFINE y == AuditLedger("open", Pushed(x.window, e), x.total + 1, x.trusted, <<>>)
  <2>2. HandleOK(y) /\ Sets(w, y)
    BY <1>5, <2>1, WriteNewlineMoves
  <2>3. /\ UNCHANGED pin /\ x.step = "writeNewline" /\ journal' = Newline(journal)
        /\ acked' = acked \cup {e}
    BY <1>5, <2>1 DEF WriteNewline
  <2>4. NoBlanks(journal') /\ Chained(journal') /\ Fits(journal', y, acked')
    BY <1>0, <2>1, <2>3, NewlineFits
  <2> HIDE DEF y
  <2> QED
    BY <1>0, <2>2, <2>3, <2>4, SoloFromParts
<1>6. ASSUME Close(w) PROVE SoloInv(w)'
  <2>1. Sets(w, Closed) /\ UNCHANGED <<journal, acked, pin>>
    BY <1>6 DEF Close, Sets
  <2> QED
    BY <1>0, <2>1, ClosedOK, ClosedFits, SoloFromParts
<1>7. ASSUME PinHead(w) PROVE SoloInv(w)'
  <2>1. UNCHANGED <<journal, handle, acked>>
    BY <1>7 DEF PinHead
  <2>2. PinCovers(pin')
    BY <1>7, PinKeepsCovers
  <2> QED
    BY <2>1, <2>2 DEF SoloInv
<1>8. ASSUME WriteFails(w) PROVE SoloInv(w)'
  <2> DEFINE y == AuditLedger("open", x.window, x.total, x.trusted, <<>>)
  <2>1. HandleOK(y) /\ Sets(w, y)
    BY <1>8, FailMoves
  <2>2. PICK e \in Entry : x.entry[1] = e /\ Follows(e, x)
    BY <1>8, Committed DEF WriteFails, Committing
  <2>3. y.step = "open" /\ y.window = x.window /\ y.total = x.total /\ y.trusted = x.trusted
    BY DEF AuditLedger
  <2>4. UNCHANGED <<acked, pin>> /\ x.step \in Committing
    BY <1>8 DEF WriteFails, Committing
  <2> HIDE DEF y
  <2>5. NoBlanks(journal') /\ Chained(journal') /\ Fits(journal', y, acked)
    <3>1. CASE journal' = journal
      BY <1>0, <2>3, <2>4, <3>1, FailedFits
    <3>2. CASE x.step = "writeLine" /\ journal' = Write(journal, Torn(e))
      BY <1>0, <2>2, <2>3, <3>2, TornFits
    <3> QED
      BY <1>8, <2>2, <3>1, <3>2 DEF WriteFails
  <2> QED
    BY <1>0, <2>1, <2>4, <2>5, SoloFromParts
<1>9. ASSUME Crash(w) PROVE SoloInv(w)'
  <2>1. Sets(w, Closed) /\ UNCHANGED <<acked, pin>>
    BY <1>9 DEF Crash, Sets
  <2>2. NoBlanks(journal') /\ Chained(journal') /\ Fits(journal', Closed, acked)
    <3>1. CASE journal' = journal
      BY <1>0, <3>1, ClosedFits
    <3>2. CASE journal' # journal
      <4>1. x.step = "writeLine" /\ journal' = Write(journal, Torn(x.entry[1]))
        BY <1>9, <3>2 DEF Crash
      <4>2. PICK e \in Entry : x.entry[1] = e /\ Follows(e, x)
        BY <4>1, Committed DEF Committing
      <4>3. Closed.step = "closed"
        BY DEF Closed, AuditLedger
      <4>4. x.step = "writeLine" /\ journal' = Write(journal, Torn(e))
        BY <4>1, <4>2
      <4> QED
        BY <1>0, <4>2, <4>3, <4>4, TornFits
    <3> QED
      BY <3>1, <3>2
  <2> QED
    BY <1>0, <2>1, <2>2, ClosedOK, SoloFromParts
<1>10. ASSUME LoseTail PROVE SoloInv(w)'
  <2>1. /\ handle' = [h \in Handles |-> Closed] /\ UNCHANGED pin
        /\ acked' = {e \in acked : OnJournal(journal', e)}
    BY <1>10 DEF LoseTail
  <2>2. NoBlanks(journal') /\ Chained(journal')
    BY <1>0, <1>10, TailIsCut, CutChained DEF JournalInv
  <2>3. AckedOnJournal(journal', acked')
    BY <2>1 DEF AckedOnJournal
  <2>4. Fits(journal', Closed, acked')
    BY <2>3, ClosedFits
  <2> QED
    BY <1>0, <2>1, <2>2, <2>4 DEF SoloInv
<1> QED
  <2>1. CASE LoseTail
    BY <1>10, <2>1
  <2>2. CASE UNCHANGED vars
    BY <1>1, <2>2
  <2>3. CASE \/ \E keys \in SUBSET setup.agents : Recover(w, keys)
             \/ \E r \in setup.records, a \in setup.agents \cup {NoAgent} : BeginAppend(w, r, a)
             \/ WriteLine(w) \/ WriteNewline(w) \/ Close(w) \/ PinHead(w)
             \/ WriteFails(w) \/ Crash(w)
    BY <1>0, <1>2, <1>3, <1>4, <1>5, <1>6, <1>7, <1>8, <1>9, <2>3
  <2> QED
    BY <2>1, <2>2, <2>3 DEF Next

LEMMA SetupStays == [Next]_vars => setup' = setup
BY DEF Next, vars, Recover, BeginAppend, WriteLine, WriteNewline, Close, PinHead,
       WriteFails, Crash, LoseTail

LEMMA AloneInvariant == Spec => [](JournalInv /\ AloneInv)
<1>1. ASSUME Init PROVE JournalInv /\ AloneInv
  BY <1>1, InitJournal, InitSolo DEF AloneInv
<1>2. ASSUME JournalInv, AloneInv, [Next]_vars PROVE JournalInv' /\ AloneInv'
  <2>1. JournalInv'
    BY <1>2, StepJournal
  <2>2. setup' = setup
    BY <1>2, SetupStays
  <2>3. ASSUME NEW w \in Handles, setup'.handles = {w} PROVE SoloInv(w)'
    BY <1>2, <2>2, <2>3, StepSolo DEF AloneInv
  <2> QED
    BY <2>1, <2>3 DEF AloneInv
<1> QED
  BY <1>1, <1>2, PTL DEF Spec

(* With one ledger the journal is never a chain that fails to verify: when *)
(* every line can be read, they are one clean chain.                       *)
THEOREM ReadableAlwaysClean == Spec => []ReadableIsClean
<1>1. ASSUME JournalInv, AloneInv PROVE ReadableIsClean
  <2>1. SUFFICES ASSUME Alone, Readable(journal) PROVE Clean(EntriesOf(journal), Agents)
    BY DEF ReadableIsClean
  <2>2. PICK w \in Handles : setup.handles = {w}
    BY <2>1 DEF Alone
  <2>3. SoloInv(w) /\ journal \in Journals /\ JournalHonest(journal)
    BY <1>1, <2>2, InvParts DEF AloneInv
  <2>4. HonestSeq(EntriesOf(journal)) /\ Linked(EntriesOf(journal))
    BY <2>1, <2>3, ReadableChain DEF SoloInv
  <2>5. /\ SignedBy(EntriesOf(journal), Agents)
        /\ \A i \in DOMAIN EntriesOf(journal) :
              EntriesOf(journal)[i].hash = EntryHash(EntriesOf(journal)[i].seq,
                                                     EntriesOf(journal)[i].prev,
                                                     EntriesOf(journal)[i].record)
    BY <2>4 DEF HonestSeq, Honest, Entry, SignedBy
  <2> QED
    BY <2>4, <2>5, CleanMeans DEF HonestSeq
<1> QED
  BY <1>1, AloneInvariant, PTL

(* What a consumer saw acknowledged when it pinned a head is on the chain  *)
(* whenever that verifies at the pin, whatever tails were lost since.      *)
THEOREM PinAlwaysCatchesLoss == Spec => []PinCatchesLoss
<1>1. ASSUME JournalInv, AloneInv PROVE PinCatchesLoss
  <2> DEFINE es == EntriesOf(journal)
  <2>1. SUFFICES ASSUME Alone, pin # NoHead,
                        VerifiesCleanAt(journal, Agents, pin.seq, pin.hash), NEW e \in pin.covers
                 PROVE  \E i \in DOMAIN es :
                           es[i].seq = e.seq /\ es[i].record = e.record /\ es[i].hash = e.hash
    BY DEF PinCatchesLoss
  <2>2. HonestSeq(es)
    BY <1>1, InvParts, EntriesAreHonest
  <2>3. es \in Seq(Entry) /\ Len(es) \in Nat /\ DOMAIN es = 1 .. Len(es)
    BY <2>2 DEF HonestSeq
  <2>4. Linked(es) /\ es # <<>> /\ es[Len(es)].hash = pin.hash
    BY <2>1, <2>3, CleanMeans DEF VerifiesCleanAt, VerifiesClean, Last
  <2>5. Numbered(es) /\ Len(es) \in DOMAIN es
    BY <2>2, <2>3, <2>4, ChainIsNumbered
  <2>6. ChainUpTo(es, Len(es))
    BY <2>2, <2>4, <2>5, ChainCovers
  <2>7. Honest(e) /\ Covers(pin.hash, e.hash)
    BY <1>1, <2>1, InvParts DEF Alone, AloneInv, SoloInv, PinCovers
  <2> DEFINE i == e.seq + 1
  <2>8. e.seq \in Nat /\ Len(e.hash) = i /\ e.hash[i] = <<e.seq, e.record>> /\ e.hash \in Hash
    BY <2>7, HashOfHonest
  <2>9. Honest(es[Len(es)]) /\ es[Len(es)].seq + 1 = Len(es)
    BY <2>2, <2>5 DEF HonestSeq, Numbered
  <2>10. Len(pin.hash) = Len(es)
    BY <2>4, <2>9, HashOfHonest
  <2>11. i \in DOMAIN es /\ i \in 1 .. Len(es)
    BY <2>3, <2>7, <2>8, <2>10 DEF Covers
  <2>12. Honest(es[i]) /\ es[i].seq + 1 = i
    BY <2>2, <2>5, <2>11 DEF HonestSeq, Numbered
  <2>13. /\ es[i].seq \in Nat /\ Len(es[i].hash) = es[i].seq + 1 /\ es[i].hash \in Hash
         /\ es[i].hash[es[i].seq + 1] = <<es[i].seq, es[i].record>>
    BY <2>12, HashOfHonest
  <2>14. Covers(pin.hash, es[i].hash)
    BY <2>4, <2>6, <2>11 DEF ChainUpTo
  <2> HIDE DEF es
  <2>15. es[i].seq = e.seq
    BY <2>8, <2>12, <2>13
  <2>16. \A k \in 1 .. i : es[i].hash[k] = e.hash[k]
    BY <2>7, <2>8, <2>12, <2>13, <2>14 DEF Covers
  <2>17. es[i].hash = e.hash
    <3>1. es[i].hash \in Seq(Nat \X Records) /\ e.hash \in Seq(Nat \X Records)
      BY <2>8, <2>13 DEF Hash
    <3>2. Len(es[i].hash) = Len(e.hash)
      BY <2>8, <2>12, <2>13
    <3> QED
      BY <2>8, <2>16, <3>1, <3>2, SeqEqual
  <2>18. es[i].record = e.record
    BY <2>8, <2>13, <2>15, <2>17
  <2> QED
    BY <2>11, <2>15, <2>17, <2>18
<1> QED
  BY <1>1, AloneInvariant, PTL

------------------------------------------------------------------------------
(* Pages. *)

Page(s, a, b) == [k \in 1 .. b - a |-> s[a + k]]

LEMMA PageIsSubSeq ==
    ASSUME NEW s \in Seq(Entry), NEW a \in Nat, NEW b \in Nat, a <= b, b <= Len(s)
    PROVE  SubSeq(s, a + 1, b) = Page(s, a, b)
<1>1. \A i \in a + 1 .. b : s[i] \in Entry
  OBVIOUS
<1>2. /\ SubSeq(s, a + 1, b) \in Seq(Entry)
      /\ Len(SubSeq(s, a + 1, b)) = IF a + 1 <= b THEN b - (a + 1) + 1 ELSE 0
      /\ \A k \in 1 .. b - (a + 1) + 1 : SubSeq(s, a + 1, b)[k] = s[(a + 1) + k - 1]
  BY <1>1, SubSeqProperties
<1> DEFINE t == SubSeq(s, a + 1, b)
<1> HIDE DEF t
<1>3. Len(t) = b - a /\ t \in Seq(Entry)
  BY <1>2 DEF t
<1>4. ASSUME NEW k \in 1 .. b - a PROVE t[k] = s[a + k]
  <2>1. k \in 1 .. b - (a + 1) + 1 /\ (a + 1) + k - 1 = a + k
    OBVIOUS
  <2> QED
    BY <1>2, <2>1 DEF t
<1>5. t = [k \in 1 .. b - a |-> t[k]]
  BY <1>3
<1> QED
  BY <1>4, <1>5 DEF t, Page

(* Pages of the window and of the verified journal. *)
LEMMA PageOfWindow ==
    ASSUME NEW es \in Seq(Entry), NEW window \in Seq(Entry), NEW from \in Nat,
           from + Len(window) <= Len(es), \A k \in DOMAIN window : window[k] = es[from + k],
           NEW a \in Nat, NEW b \in Nat, a <= b, b <= from + Len(window), a >= from
    PROVE  SubSeq(window, (a - from) + 1, b - from) = SubSeq(es, a + 1, b)
<1>1. /\ Len(window) \in Nat /\ Len(es) \in Nat /\ DOMAIN window = 1 .. Len(window)
      /\ a - from \in Nat /\ b - from \in Nat
      /\ a - from <= b - from /\ b - from <= Len(window) /\ b <= Len(es)
      /\ (b - from) - (a - from) = b - a
  OBVIOUS
<1>2. SubSeq(window, (a - from) + 1, b - from) = Page(window, a - from, b - from)
  BY <1>1, PageIsSubSeq
<1>3. SubSeq(es, a + 1, b) = Page(es, a, b)
  BY <1>1, PageIsSubSeq
<1>4. ASSUME NEW k \in 1 .. b - a PROVE window[(a - from) + k] = es[a + k]
  <2>1. (a - from) + k \in DOMAIN window /\ from + ((a - from) + k) = a + k
    BY <1>1
  <2> QED
    BY <2>1
<1>5. Page(window, a - from, b - from) = Page(es, a, b)
  BY <1>1, <1>4 DEF Page
<1> QED
  BY <1>2, <1>3, <1>5

LEMMA PageOfJournal ==
    ASSUME NEW es, HonestSeq(es), Linked(es), NEW trusted, NEW a \in Nat, NEW b \in Nat, a < b, b <= Len(es),
           \A i \in 1 .. b : es[i].agent \in trusted \cup {NoAgent}
    PROVE  LET paged == Kept(es, {i \in DOMAIN es : es[i].seq < b})
           IN  /\ Clean(paged, trusted)
               /\ Kept(paged, {i \in DOMAIN paged : paged[i].seq >= a}) = SubSeq(es, a + 1, b)
<1> DEFINE paged == Kept(es, {i \in DOMAIN es : es[i].seq < b})
<1>1. /\ es \in Seq(Entry) /\ Len(es) \in Nat /\ DOMAIN es = 1 .. Len(es) /\ Numbered(es)
      /\ \A i \in DOMAIN es : Honest(es[i]) /\ es[i].seq \in Nat /\ es[i].seq + 1 = i
  BY ChainIsNumbered, HashOfHonest DEF HonestSeq, Numbered
<1>2. {i \in DOMAIN es : es[i].seq < b} = 1 .. b
  <2>1. ASSUME NEW i \in DOMAIN es PROVE es[i].seq < b <=> i \in 1 .. b
    BY <1>1
  <2>2. 1 .. b \subseteq DOMAIN es
    BY <1>1
  <2> QED
    BY <2>1, <2>2
<1>3. paged = [k \in 1 .. b |-> es[k]]
  <2>1. Kept(es, 1 .. b) = [k \in 1 .. (b - 1) + 1 |-> es[(k + 1) - 1]]
    BY KeptRange
  <2>2. (b - 1) + 1 = b /\ \A k \in 1 .. b : (k + 1) - 1 = k
    OBVIOUS
  <2> QED
    BY <1>2, <2>1, <2>2
<1> HIDE DEF paged
<1>4. /\ paged \in Seq(Entry) /\ Len(paged) = b /\ DOMAIN paged = 1 .. b
      /\ \A i \in 1 .. b : paged[i] = es[i] /\ i \in DOMAIN es
  <2>1. \A i \in 1 .. b : es[i] \in Entry /\ i \in DOMAIN es
    BY <1>1
  <2> QED
    BY <1>3, <2>1
<1>5. Linked(paged)
  <2>1. ASSUME NEW i \in 1 .. b PROVE paged[i].prev = IF i = 1 THEN Genesis ELSE paged[i - 1].hash
    <3>1. i # 1 => i - 1 \in 1 .. b
      OBVIOUS
    <3> QED
      BY <1>4, <3>1 DEF Linked
  <2> QED
    BY <1>4, <2>1 DEF Linked
<1>6. SignedBy(paged, trusted)
  BY <1>4 DEF SignedBy
<1>7. \A i \in DOMAIN paged : paged[i].hash = EntryHash(paged[i].seq, paged[i].prev, paged[i].record)
  BY <1>1, <1>4 DEF Honest
<1>8. Clean(paged, trusted)
  BY <1>4, <1>5, <1>6, <1>7, CleanMeans
<1>9. {i \in DOMAIN paged : paged[i].seq >= a} = a + 1 .. b
  <2>1. ASSUME NEW i \in 1 .. b PROVE paged[i].seq >= a <=> i \in a + 1 .. b
    <3>1. es[i].seq + 1 = i /\ es[i].seq \in Nat /\ paged[i] = es[i]
      BY <1>1, <1>4
    <3> QED
      BY <3>1
  <2>2. a + 1 .. b \subseteq 1 .. b
    OBVIOUS
  <2> QED
    BY <1>4, <2>1, <2>2
<1>10. Kept(paged, a + 1 .. b) = [k \in 1 .. (b - (a + 1)) + 1 |-> paged[(k + (a + 1)) - 1]]
  <2>1. a + 1 \in Nat /\ a + 1 > 0 /\ a + 1 <= b + 1
    OBVIOUS
  <2> QED
    BY <2>1, KeptRange
<1>11. [k \in 1 .. (b - (a + 1)) + 1 |-> paged[(k + (a + 1)) - 1]] = Page(es, a, b)
  <2>1. (b - (a + 1)) + 1 = b - a
    OBVIOUS
  <2>2. ASSUME NEW k \in 1 .. b - a PROVE paged[(k + (a + 1)) - 1] = es[a + k]
    <3>1. (k + (a + 1)) - 1 = a + k /\ a + k \in 1 .. b
      OBVIOUS
    <3> QED
      BY <1>4, <3>1
  <2> QED
    BY <2>1, <2>2 DEF Page
<1>12. SubSeq(es, a + 1, b) = Page(es, a, b)
  <2>1. a <= b
    OBVIOUS
  <2> QED
    BY <1>1, <2>1, PageIsSubSeq
<1> QED
  BY <1>8, <1>9, <1>10, <1>11, <1>12 DEF paged

(* What an open ledger holds of a journal that can be read. *)
LEMMA HeldOnJournal ==
    ASSUME JournalInv, NEW w \in Handles, SoloInv(w), Readable(journal), handle[w].step # "closed"
    PROVE  LET es == EntriesOf(journal)
               x == handle[w]
           IN  /\ HonestSeq(es) /\ Linked(es) /\ x.total \in Nat /\ x.total <= Len(es)
               /\ x.window \in Seq(Entry) /\ Len(x.window) <= x.total
               /\ \A i \in 1 .. x.total : es[i].agent \in x.trusted \cup {NoAgent}
               /\ \A k \in DOMAIN x.window : x.window[k] = es[(x.total - Len(x.window)) + k]
<1> DEFINE es == EntriesOf(journal)
           x == handle[w]
           m == Filled(journal)
<1>1. journal \in Journals /\ JournalHonest(journal) /\ WindowOK(x.window, x.total)
  BY InvParts DEF HandleOK
<1>2. NoBlanks(journal) /\ Chained(journal) /\ InMemory(journal, x)
  BY DEF SoloInv, Fits
<1>3. HonestSeq(es) /\ Linked(es)
  BY <1>1, <1>2, ReadableChain
<1>4. /\ m \in Nat /\ m <= Len(journal) /\ Len(es) = m
      /\ \A i \in 1 .. m : es[i] = journal[i][1].entry
      /\ \A i \in DOMAIN journal : NotBlank(journal[i]) => i \in 1 .. m
  BY <1>1, <1>2, ReadableEntries
<1>5. /\ x.total \in Nat /\ x.window \in Seq(Entry) /\ Len(x.window) \in Nat
      /\ DOMAIN x.window = 1 .. Len(x.window)
      /\ \A k \in DOMAIN x.window : (x.total - Len(x.window)) + k \in 1 .. x.total
  <2>1. x.total \in Nat /\ x.window \in Seq(Entry)
    BY <1>1 DEF WindowOK, HonestSeq
  <2>2. \A k \in DOMAIN x.window : (x.total - Len(x.window)) + k \in 1 .. x.total
    BY <1>1, WindowPositions
  <2> QED
    BY <2>1, <2>2
<1>6. /\ x.total <= Len(journal)
      /\ \A i \in 1 .. x.total :
            NotBlank(journal[i]) /\ journal[i][1].entry.agent \in x.trusted \cup {NoAgent}
      /\ \A k \in DOMAIN x.window :
            x.window[k] = journal[(x.total - Len(x.window)) + k][1].entry
  BY <1>2 DEF InMemory
<1>7. DOMAIN journal = 1 .. Len(journal) /\ Len(journal) \in Nat
  BY <1>1, LinesOf
<1> HIDE DEF es, x, m
<1>8. ASSUME NEW i \in 1 .. x.total PROVE i \in 1 .. m
  BY <1>4, <1>5, <1>6, <1>7
<1>9. x.total <= m
  <2>1. CASE x.total = 0
    BY <1>4, <2>1
  <2>2. CASE x.total # 0
    <3>1. x.total \in 1 .. x.total
      BY <1>5, <2>2
    <3> QED
      BY <1>8, <3>1
  <2> QED
    BY <2>1, <2>2
<1>10. Len(x.window) <= x.total
  <2>1. CASE Len(x.window) = 0
    BY <1>5, <2>1
  <2>2. CASE Len(x.window) # 0
    <3>1. 1 \in DOMAIN x.window
      BY <1>5, <2>2
    <3>2. (x.total - Len(x.window)) + 1 \in 1 .. x.total
      BY <1>5, <3>1
    <3> QED
      BY <1>5, <3>2
  <2> QED
    BY <2>1, <2>2
<1>11. \A i \in 1 .. x.total : es[i].agent \in x.trusted \cup {NoAgent}
  BY <1>4, <1>6, <1>8
<1>12. \A k \in DOMAIN x.window : x.window[k] = es[(x.total - Len(x.window)) + k]
  BY <1>4, <1>5, <1>6, <1>8
<1> QED
  BY <1>3, <1>4, <1>5, <1>9, <1>10, <1>11, <1>12 DEF es, x

(* What read_range returns is what the journal holds, from wherever it is. *)
THEOREM PagesAlwaysExact == Spec => []PagesAreExact
<1>1. ASSUME JournalInv, AloneInv PROVE PagesAreExact
  <2> DEFINE es == EntriesOf(journal)
             Upto(h, start, limit) == IF start + limit < handle[h].total THEN start + limit
                                                                         ELSE handle[h].total
  <2>1. SUFFICES ASSUME Alone, NEW h \in Handles, handle[h].step # "closed", Readable(journal),
                        NEW start \in 0 .. MaxEntries, NEW limit \in 0 .. MaxEntries
                 PROVE  ReadRange(h, start, limit) = SubSeq(es, start + 1, Upto(h, start, limit))
    BY DEF PagesAreExact
  <2>2. PICK w \in Handles : setup.handles = {w}
    BY <2>1 DEF Alone
  <2>3. SoloInv(w)
    BY <1>1, <2>2 DEF AloneInv
  <2>4. h = w
    BY <2>1, <2>3 DEF SoloInv, Closed, AuditLedger
  <2> DEFINE x == handle[h]
             total == x.total
             from == total - Len(x.window)
             end == Upto(h, start, limit)
             paged == Kept(es, {i \in DOMAIN es : es[i].seq < end})
  <2>5. /\ HonestSeq(es) /\ Linked(es) /\ total \in Nat /\ total <= Len(es)
        /\ x.window \in Seq(Entry) /\ Len(x.window) <= total
        /\ \A i \in 1 .. total : es[i].agent \in x.trusted \cup {NoAgent}
        /\ \A k \in DOMAIN x.window : x.window[k] = es[(total - Len(x.window)) + k]
    BY <1>1, <2>1, <2>3, <2>4, HeldOnJournal
  <2>6. setup.maxEntries \in Nat /\ start \in Nat /\ limit \in Nat
    BY <1>1, SetupFacts DEF JournalInv, MaxEntries
  <2>7. es \in Seq(Entry) /\ Len(es) \in Nat /\ Len(x.window) \in Nat
    BY <2>5 DEF HonestSeq
  <2>8. ReadRange(h, start, limit) =
          IF limit = 0 \/ start >= total THEN <<>>
          ELSE IF start >= from THEN SubSeq(x.window, start - from + 1, end - from)
          ELSE IF Readable(journal) /\ Clean(paged, x.trusted)
          THEN Kept(paged, {i \in DOMAIN paged : paged[i].seq >= start})
          ELSE <<<<>>>>
    BY Zenon DEF ReadRange
  <2>9. end \in Nat /\ end <= total
    BY <2>5, <2>6
  <2>10. CASE limit = 0 \/ start >= total
    <3>1. end < start + 1 /\ start + 1 \in Int /\ end \in Int
      BY <2>5, <2>6, <2>10
    <3>2. SubSeq(es, start + 1, end) = <<>>
      BY <3>1, SubSeqEmpty
    <3> QED
      BY <2>8, <2>10, <3>2
  <2>11. CASE limit # 0 /\ ~(start >= total)
    <3>1. start < end
      BY <2>5, <2>6, <2>11
    <3> HIDE DEF end, total, es, x
    <3>2. CASE start >= from
      <4>1. SubSeq(x.window, (start - from) + 1, end - from) = SubSeq(es, start + 1, end)
        <5>1. start <= end
          BY <2>6, <2>9, <3>1
        <5>2. from \in Nat /\ from + Len(x.window) = total
          BY <2>5, <2>7
        <5>3. \A k \in DOMAIN x.window : x.window[k] = es[from + k]
          BY <2>5
        <5> HIDE DEF from
        <5>4. from + Len(x.window) <= Len(es) /\ end <= from + Len(x.window)
          BY <2>5, <2>9, <5>2
        <5>5. x.window \in Seq(Entry) /\ end \in Nat
          BY <2>5, <2>9
        <5>6. ASSUME NEW a \in Nat, NEW b \in Nat, a <= b, b <= from + Len(x.window), a >= from
              PROVE  SubSeq(x.window, (a - from) + 1, b - from) = SubSeq(es, a + 1, b)
          BY <2>7, <5>2, <5>3, <5>4, <5>5, <5>6, PageOfWindow
        <5> QED
          BY <2>6, <3>2, <5>1, <5>4, <5>5, <5>6
      <4>2. start - from + 1 = (start - from) + 1
        OBVIOUS
      <4> QED
        BY <2>8, <2>11, <3>2, <4>1, <4>2 DEF end
    <3>3. CASE ~(start >= from)
      <4>1. end <= Len(es)
        BY <2>5, <2>7, <2>9
      <4>2. \A i \in 1 .. end : es[i].agent \in x.trusted \cup {NoAgent}
        BY <2>5, <2>9
      <4>3. /\ Clean(paged, x.trusted)
            /\ Kept(paged, {i \in DOMAIN paged : paged[i].seq >= start}) = SubSeq(es, start + 1, end)
        BY <2>5, <2>6, <2>9, <3>1, <4>1, <4>2, PageOfJournal
      <4> HIDE DEF paged
      <4> QED
        BY <2>1, <2>8, <2>11, <3>3, <4>3 DEF end
    <3> QED
      BY <3>2, <3>3
  <2> QED
    BY <2>10, <2>11
<1> QED
  BY <1>1, AloneInvariant, PTL
=============================================================================
