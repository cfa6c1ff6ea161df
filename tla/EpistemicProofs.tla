--------------------------- MODULE EpistemicProofs ---------------------------
(***************************************************************************)
(* Theorems about Epistemic, for every set of initial confidences, every   *)
(* number of updates and every width of the corroboration counter.         *)
(***************************************************************************)
EXTENDS Epistemic, TLAPS

------------------------------------------------------------------------------
(* The arithmetic of one update. *)

Rates == {0, 4, 20, 40, 50, 100, 150, 200}

(* Raising stays in range and never lowers; lowering the other way round.  *)
LEMMA RaiseBounds ==
    ASSUME NEW c \in 0 .. Scale, NEW lr \in Rates, NEW d, d = Raise(c, lr)
    PROVE  d \in 0 .. Scale /\ d >= c
<1>1. d = c + (lr * (10000 - c)) \div 1000
  BY DEF Raise, Scale
<1>2. c \in Int /\ 0 <= c /\ c <= 10000
  BY DEF Scale
<1>3. CASE lr \in {0, 4, 20, 40}
  BY <1>1, <1>2, <1>3 DEF Scale
<1>4. CASE lr \in {50, 100, 150, 200}
  BY <1>1, <1>2, <1>4 DEF Scale
<1> QED
  BY <1>3, <1>4 DEF Rates

LEMMA LowerBounds ==
    ASSUME NEW c \in 0 .. Scale, NEW lr \in Rates, NEW d, d = Lower(c, lr)
    PROVE  d \in 0 .. Scale /\ d <= c
BY DEF Lower, Scale, Rates

LEMMA ParamsOf ==
    ASSUME NEW o \in Origins
    PROVE  /\ Prior(o) \in 0 .. Scale
           /\ OriginParams[o].success_lr \in Rates
           /\ OriginParams[o].success_lr \div 5 \in Rates
           /\ OriginParams[o].failure_lr \in Rates
<1>1. OriginParams[o] \in {Params(9000, 20, 0), Params(6500, 100, 150), Params(5000, 100, 150),
                            Params(3500, 200, 200), Params(9000, 20, 150), Params(2000, 20, 150)}
  BY DEF Origins, OriginParams
<1> QED
  BY <1>1 DEF Prior, Params, Rates, Scale

LEMMA OutcomeBounds ==
    ASSUME NEW c \in 0 .. Scale, NEW o \in Origins, NEW r \in Results,
           NEW d, d = ApplyOutcome(c, r, o)
    PROVE  d \in 0 .. Scale /\ (r # "Failure" => d >= c)
<1>1. CASE r = "Success"
  <2>1. d = Raise(c, OriginParams[o].success_lr)
    BY <1>1 DEF ApplyOutcome
  <2> QED
    BY <2>1, ParamsOf, RaiseBounds
<1>2. CASE r = "Partial"
  <2>1. d = Raise(c, OriginParams[o].success_lr \div 5)
    BY <1>2 DEF ApplyOutcome
  <2> QED
    BY <2>1, ParamsOf, RaiseBounds
<1>3. CASE r = "Failure"
  <2>1. d = Lower(c, OriginParams[o].failure_lr)
    BY <1>3 DEF ApplyOutcome
  <2> QED
    BY <1>3, <2>1, ParamsOf, LowerBounds
<1> QED
  BY <1>1, <1>2, <1>3 DEF Results

LEMMA CorroborationBounds ==
    ASSUME NEW c \in 0 .. Scale, NEW d, d = ApplyCorroboration(c)
    PROVE  d \in 0 .. Scale /\ d >= c
BY RaiseBounds DEF ApplyCorroboration, CORROBORATION_LR, Rates

LEMMA ReclassifyType ==
    ASSUME NEW o \in Origins, NEW c, NEW n, NEW r
    PROVE  Reclassify(o, c, n, r) \in Origins
BY DEF Reclassify, Origins

------------------------------------------------------------------------------

(* What NeverFailedIsSurfaced rests on: without a failure the stored       *)
(* confidence has not fallen below what the learning was tagged with.      *)
NeverFailedHasRisen ==
    "Failure" \notin Range(outcomes) =>
        /\ confidence >= tagged
        /\ tagged >= CONTEST_CONFIDENCE => origin # "Contested"

(* The inductive invariant. *)
IInv == TypeOK /\ ValidatedIsEarned /\ NeverCrossesPrior /\ NeverFailedHasRisen

LEMMA RangeOfAppend ==
    ASSUME NEW s \in Seq(Results), NEW r \in Results,
           "Failure" \notin Range(Append(s, r))
    PROVE  "Failure" \notin Range(s) /\ r # "Failure"
<1>1. \A i \in 1 .. Len(s) + 1 : Append(s, r)[i] # "Failure"
  BY DEF Range
<1>2. Append(s, r)[Len(s) + 1] = r /\ \A i \in 1 .. Len(s) : Append(s, r)[i] = s[i]
  OBVIOUS
<1> QED
  BY <1>1, <1>2 DEF Range

LEMMA InitIInv == Init => IInv
<1> SUFFICES ASSUME Init PROVE IInv
  OBVIOUS
<1>1. tagged \in 0 .. Scale /\ CounterMax \in Nat
  BY EpistemicAssumption DEF Init
<1>2. TypeOK
  BY <1>1 DEF Init, TypeOK, Origins
<1>3. ValidatedIsEarned /\ NeverCrossesPrior /\ NeverFailedHasRisen
  <2>1. PICK p \in 0 .. Scale : p = Prior(origin)
    BY <1>2, ParamsOf DEF TypeOK
  <2>2. ValidatedIsEarned /\ NeverFailedHasRisen
    BY <1>1 DEF Init, ValidatedIsEarned, NeverFailedHasRisen, Scale
  <2>3. NeverCrossesPrior
    BY <1>1, <2>1 DEF Init, NeverCrossesPrior, Scale
  <2> QED
    BY <2>2, <2>3
<1> QED
  BY <1>2, <1>3 DEF IInv

(* Both updates leave the effective confidence at the stored one.          *)
LEMMA FreshNeverCrosses ==
    ASSUME confidence' \in 0 .. Scale, effective' = confidence', origin' \in Origins
    PROVE  NeverCrossesPrior'
<1>1. PICK p \in 0 .. Scale : p = Prior(origin')
  BY ParamsOf
<1> QED
  BY <1>1 DEF NeverCrossesPrior, Scale

LEMMA RecordOutcomeIInv ==
    ASSUME IInv, NEW result \in Results, RecordOutcome(result)
    PROVE  IInv'
<1>1. confidence' \in 0 .. Scale /\ (result # "Failure" => confidence' >= confidence)
  BY OutcomeBounds DEF IInv, TypeOK, RecordOutcome
<1>2. origin' = Reclassify(origin, confidence', corroboration, result)
  BY DEF RecordOutcome
<1>3. origin' \in Origins
  BY <1>2, ReclassifyType DEF IInv, TypeOK
<1>4. TypeOK'
  BY <1>1, <1>3 DEF IInv, TypeOK, RecordOutcome
<1>5. ValidatedIsEarned'
  <2> SUFFICES ASSUME origin' = "Validated"
               PROVE  confidence' >= PROMOTE_CONFIDENCE /\ corroboration >= PROMOTE_CORROBORATION
    BY DEF ValidatedIsEarned, RecordOutcome
  <2>1. CASE origin = "Validated"
    <3>1. result # "Failure"
      BY <2>1, <1>2 DEF Reclassify
    <3> QED
      BY <2>1, <3>1, <1>1 DEF IInv, TypeOK, ValidatedIsEarned, PROMOTE_CONFIDENCE, Scale
  <2>2. CASE origin # "Validated"
    BY <2>2, <1>2 DEF Reclassify
  <2> QED
    BY <2>1, <2>2
<1>6. NeverCrossesPrior'
  BY <1>1, <1>3, FreshNeverCrosses DEF RecordOutcome
<1>7. NeverFailedHasRisen'
  <2> SUFFICES ASSUME "Failure" \notin Range(outcomes')
               PROVE  /\ confidence' >= tagged
                      /\ tagged >= CONTEST_CONFIDENCE => origin' # "Contested"
    BY DEF NeverFailedHasRisen, RecordOutcome
  <2>1. "Failure" \notin Range(outcomes) /\ result # "Failure"
    BY RangeOfAppend DEF IInv, TypeOK, RecordOutcome
  <2>2. confidence' >= tagged
    BY <1>1, <2>1 DEF IInv, TypeOK, NeverFailedHasRisen, Scale
  <2>3. ASSUME tagged >= CONTEST_CONFIDENCE PROVE origin' # "Contested"
    <3>1. ~(confidence' < CONTEST_CONFIDENCE) /\ origin # "Contested"
      BY <1>1, <2>1, <2>2, <2>3 DEF IInv, TypeOK, NeverFailedHasRisen, CONTEST_CONFIDENCE, Scale
    <3> QED
      BY <1>2, <2>1, <3>1 DEF Reclassify
  <2> QED
    BY <2>2, <2>3
<1> QED
  BY <1>4, <1>5, <1>6, <1>7 DEF IInv

LEMMA RecordCorroborationIInv ==
    ASSUME IInv, RecordCorroboration
    PROVE  IInv'
<1>1. confidence' \in 0 .. Scale /\ confidence' >= confidence
  BY CorroborationBounds DEF IInv, TypeOK, RecordCorroboration
<1>2. corroboration' \in 0 .. CounterMax /\ corroboration' >= corroboration
  BY EpistemicAssumption DEF IInv, TypeOK, RecordCorroboration, SaturatingAdd
<1>3. origin' = Reclassify(origin, confidence', corroboration', "None")
  BY DEF RecordCorroboration
<1>4. origin' \in Origins
  BY <1>3, ReclassifyType DEF IInv, TypeOK
<1>5. TypeOK'
  BY <1>1, <1>2, <1>4 DEF IInv, TypeOK, RecordCorroboration
<1>6. ValidatedIsEarned'
  <2> SUFFICES ASSUME origin' = "Validated"
               PROVE  /\ confidence' >= PROMOTE_CONFIDENCE
                      /\ corroboration' >= PROMOTE_CORROBORATION
    BY DEF ValidatedIsEarned
  <2>1. CASE origin = "Validated"
    BY <2>1, <1>1, <1>2, EpistemicAssumption
       DEF IInv, TypeOK, ValidatedIsEarned, PROMOTE_CONFIDENCE, PROMOTE_CORROBORATION, Scale
  <2>2. CASE origin # "Validated"
    BY <2>2, <1>3 DEF Reclassify
  <2> QED
    BY <2>1, <2>2
<1>7. NeverCrossesPrior'
  BY <1>1, <1>4, FreshNeverCrosses DEF RecordCorroboration
<1>8. NeverFailedHasRisen'
  <2> SUFFICES ASSUME "Failure" \notin Range(outcomes)
               PROVE  /\ confidence' >= tagged
                      /\ tagged >= CONTEST_CONFIDENCE => origin' # "Contested"
    BY DEF NeverFailedHasRisen, RecordCorroboration
  <2>1. confidence' >= tagged
    BY <1>1 DEF IInv, TypeOK, NeverFailedHasRisen, Scale
  <2>2. ASSUME tagged >= CONTEST_CONFIDENCE PROVE origin' # "Contested"
    <3>1. ~(confidence' < CONTEST_CONFIDENCE) /\ origin # "Contested"
      BY <1>1, <2>1, <2>2 DEF IInv, TypeOK, NeverFailedHasRisen, CONTEST_CONFIDENCE, Scale
    <3> QED
      BY <1>3, <3>1 DEF Reclassify
  <2> QED
    BY <2>1, <2>2
<1> QED
  BY <1>5, <1>6, <1>7, <1>8 DEF IInv

LEMMA DisuseIInv ==
    ASSUME IInv, Disuse
    PROVE  IInv'
<1>1. PICK p \in 0 .. Scale : p = Prior(origin)
  BY ParamsOf DEF IInv, TypeOK
<1>2. effective' = IF effective >= p THEN p + (effective - p) \div 2 ELSE p - (p - effective) \div 2
  BY <1>1 DEF Disuse, Relax
<1>3. \/ p <= effective /\ effective <= confidence
      \/ confidence <= effective /\ effective <= p
  BY <1>1 DEF IInv, NeverCrossesPrior
<1>4. /\ effective' \in 0 .. Scale
      /\ \/ p <= effective' /\ effective' <= confidence
         \/ confidence <= effective' /\ effective' <= p
  <2>1. confidence \in 0 .. 10000 /\ effective \in 0 .. 10000 /\ p \in 0 .. 10000
    BY DEF IInv, TypeOK, Scale
  <2>2. CASE p <= effective /\ effective <= confidence
    BY <1>2, <2>1, <2>2 DEF Scale
  <2>3. CASE confidence <= effective /\ effective < p
    BY <1>2, <2>1, <2>3 DEF Scale
  <2>4. CASE confidence <= effective /\ effective = p
    BY <1>2, <2>1, <2>4 DEF Scale
  <2> QED
    BY <1>3, <2>1, <2>2, <2>3, <2>4
<1>5. NeverCrossesPrior'
  BY <1>1, <1>4 DEF NeverCrossesPrior, Disuse
<1> QED
  BY <1>4, <1>5 DEF IInv, TypeOK, ValidatedIsEarned, NeverFailedHasRisen, Disuse

LEMMA StepIInv == IInv /\ [Next]_vars => IInv'
<1> SUFFICES ASSUME IInv, [Next]_vars PROVE IInv'
  OBVIOUS
<1>1. CASE \E result \in Results : RecordOutcome(result)
  BY <1>1, RecordOutcomeIInv
<1>2. CASE RecordCorroboration
  BY <1>2, RecordCorroborationIInv
<1>3. CASE Disuse
  BY <1>3, DisuseIInv
<1>4. CASE UNCHANGED vars
  BY <1>4 DEF vars, IInv, TypeOK, ValidatedIsEarned, NeverCrossesPrior, NeverFailedHasRisen
<1> QED
  BY <1>1, <1>2, <1>3, <1>4 DEF Next

LEMMA AlwaysIInv == Spec => []IInv
BY InitIInv, StepIInv, PTL DEF Spec

(* Confidence stays in [0, 1] though no update is clamped                  *)
(* (confidence.rs:165-167, "Auto-bounded").                                *)
THEOREM ConfidenceIsBounded == Spec => []TypeOK
<1>1. IInv => TypeOK
  BY DEF IInv
<1> QED
  BY <1>1, AlwaysIInv, PTL

(* No history leaves a learning Validated that has not earned it           *)
(* (confidence.rs:211-228).                                                *)
THEOREM ValidationIsEarned == Spec => []ValidatedIsEarned
<1>1. IInv => ValidatedIsEarned
  BY DEF IInv
<1> QED
  BY <1>1, AlwaysIInv, PTL

(* Nothing but a failure takes a credibly tagged learning out of search    *)
(* (confidence.rs:225).                                                    *)
THEOREM QuarantineNeedsFailure == Spec => []NeverFailedIsSurfaced
<1>1. IInv => NeverFailedIsSurfaced
  BY DEF IInv, NeverFailedHasRisen, NeverFailedIsSurfaced
<1> QED
  BY <1>1, AlwaysIInv, PTL

(* Disuse never carries a learning across its prior                        *)
(* (confidence.rs:188-206).                                                *)
THEOREM DisuseNeverCrosses == Spec => []NeverCrossesPrior
<1>1. IInv => NeverCrossesPrior
  BY DEF IInv
<1> QED
  BY <1>1, AlwaysIInv, PTL

=============================================================================
