------------------------------ MODULE Epistemic ------------------------------
(***************************************************************************)
(* The life of one learning's confidence (cortex-core: confidence.rs, and  *)
(* record_outcome and record_corroboration of store.rs, each of which runs *)
(* under the lock of reinforcements.json).  Use moves the stored           *)
(* confidence and, past thresholds, the origin; disuse relaxes the         *)
(* effective confidence, which readers rank by, towards the origin's       *)
(* prior.  A Contested learning is left out of every search.               *)
(*                                                                         *)
(* Confidence is in units of 1/Scale, rounded down at each update: learning *)
(* rates are in thousandths, as the code's are, and time in half-lives.    *)
(***************************************************************************)
EXTENDS Integers, Sequences, SequencesExt

CONSTANTS
    Tagged,      \* the confidences a learning may be tagged or imported with
    CounterMax,  \* u32::MAX, where the corroboration counter saturates
    MaxUpdates   \* bound: outcomes recorded; corroborations need none, confidence converges

Scale == 10000

ASSUME EpistemicAssumption ==
    /\ Tagged \subseteq 0 .. Scale
    /\ CounterMax \in Nat /\ CounterMax >= 3
    /\ MaxUpdates \in Nat

VARIABLES
    tagged,         \* the learning's confidence in its block, which never changes
    confidence,     \* reinforcement.confidence
    origin,         \* reinforcement.origin
    corroboration,  \* reinforcement.corroboration
    outcomes,       \* the results of reinforcement.outcomes
    effective       \* effective_confidence_epistemic now

vars == <<tagged, confidence, origin, corroboration, outcomes, effective>>

Origins == {"Extracted", "Near", "Far", "Ambiguous", "Validated", "Contested"}
Results == {"Success", "Partial", "Failure"}

PROMOTE_CONFIDENCE == 8500
PROMOTE_CORROBORATION == 3
CONTEST_CONFIDENCE == 2500
CORROBORATION_LR == 50

Params(prior, success_lr, failure_lr) ==
    [prior |-> prior, success_lr |-> success_lr, failure_lr |-> failure_lr]

OriginParams ==
    [Extracted |-> Params(9000,  20,   0),
     Near      |-> Params(6500, 100, 150),
     Far       |-> Params(5000, 100, 150),
     Ambiguous |-> Params(3500, 200, 200),
     Validated |-> Params(9000,  20, 150),
     Contested |-> Params(2000,  20, 150)]

Prior(o) == OriginParams[o].prior

------------------------------------------------------------------------------
(* The updates. *)

(* Towards certainty, and towards 0, by a rate in thousandths. *)
Raise(c, lr) == c + (lr * (Scale - c)) \div 1000
Lower(c, lr) == (c * (1000 - lr)) \div 1000

(* Mutant: the flat model's failure, which is not clamped. *)
ApplyOutcomeFlat(c, result, o) ==
    IF result = "Success"      THEN Raise(c, OriginParams[o].success_lr)
    ELSE IF result = "Partial" THEN Raise(c, OriginParams[o].success_lr \div 5)
    ELSE c - 1500

ApplyOutcome(c, result, o) ==
    IF result = "Success"      THEN Raise(c, OriginParams[o].success_lr)
    ELSE IF result = "Partial" THEN Raise(c, OriginParams[o].success_lr \div 5)
    ELSE Lower(c, OriginParams[o].failure_lr)

ApplyCorroboration(c) == Raise(c, CORROBORATION_LR)

(* Mutant: the counter wraps. *)
WrappingAdd(n) == (n + 1) % (CounterMax + 1)

SaturatingAdd(n) == IF n = CounterMax THEN n ELSE n + 1

(* Mutant: whatever is not a success contests. *)
ReclassifyUnlessSuccess(o, c, n, result) ==
    LET earned    == c >= PROMOTE_CONFIDENCE /\ n >= PROMOTE_CORROBORATION
        contested == result # "Success" \/ c < CONTEST_CONFIDENCE
    IN  IF o \in {"Near", "Far", "Contested"} /\ earned THEN "Validated"
        ELSE IF o \in {"Extracted", "Validated"} /\ contested THEN "Contested"
        ELSE o

(* Where usage moves the origin; "None" is no outcome. *)
Reclassify(o, c, n, result) ==
    LET earned    == c >= PROMOTE_CONFIDENCE /\ n >= PROMOTE_CORROBORATION
        contested == result = "Failure" \/ c < CONTEST_CONFIDENCE
    IN  IF o \in {"Near", "Far", "Contested"} /\ earned THEN "Validated"
        ELSE IF o \in {"Extracted", "Validated"} /\ contested THEN "Contested"
        ELSE o

(* Mutant: every learning relaxes towards the default origin's prior. *)
RelaxToDefault(e, o) ==
    IF e >= Prior("Near") THEN Prior("Near") + (e - Prior("Near")) \div 2
                          ELSE Prior("Near") - (Prior("Near") - e) \div 2

(* One half-life of disuse: half the distance to the prior is left. *)
Relax(e, o) ==
    IF e >= Prior(o) THEN Prior(o) + (e - Prior(o)) \div 2
                     ELSE Prior(o) - (Prior(o) - e) \div 2

------------------------------------------------------------------------------

(* register_learnings stores the confidence the learning was tagged with,  *)
(* as Extracted when it cites a source; cortex-migrate imports as Near.    *)
Init ==
    /\ tagged \in Tagged
    /\ origin \in {"Extracted", "Near"}
    /\ confidence = tagged /\ effective = tagged
    /\ corroboration = 0 /\ outcomes = <<>>

RecordOutcome(result) ==
    LET c == ApplyOutcome(confidence, result, origin)
    IN  /\ Len(outcomes) < MaxUpdates
        /\ outcomes' = Append(outcomes, result)
        /\ confidence' = c /\ effective' = c
        /\ origin' = Reclassify(origin, c, corroboration, result)
        /\ UNCHANGED <<tagged, corroboration>>

RecordCorroboration ==
    LET c == ApplyCorroboration(confidence)
        n == SaturatingAdd(corroboration)
    IN  /\ corroboration' = n
        /\ confidence' = c /\ effective' = c
        /\ origin' = Reclassify(origin, c, n, "None")
        /\ UNCHANGED <<tagged, outcomes>>

(* Time passes without an update; nothing is written. *)
Disuse ==
    /\ effective' = Relax(effective, origin)
    /\ UNCHANGED <<tagged, confidence, origin, corroboration, outcomes>>

Next ==
    \/ \E result \in Results : RecordOutcome(result)
    \/ RecordCorroboration
    \/ Disuse

Spec == Init /\ [][Next]_vars

------------------------------------------------------------------------------
(* Properties. *)

(* Type invariant: confidence stays in [0, 1] without the code's clamps. *)
TypeOK ==
    /\ tagged \in 0 .. Scale
    /\ confidence \in 0 .. Scale
    /\ effective \in 0 .. Scale
    /\ origin \in Origins
    /\ corroboration \in 0 .. CounterMax
    /\ outcomes \in Seq(Results)

(* confidence.rs:220-226, models.rs:246 "An inference empirically          *)
(* confirmed by usage - observation-grade, earned": whatever happened      *)
(* since, a Validated learning has the corroborations and the confidence   *)
(* that promotion takes; a failure leaves none behind.                     *)
ValidatedIsEarned ==
    origin = "Validated" =>
        confidence >= PROMOTE_CONFIDENCE /\ corroboration >= PROMOTE_CORROBORATION

(* confidence.rs:225: quarantine answers a failure or a collapse.  A       *)
(* learning tagged above the threshold that never failed stays in every    *)
(* search, whatever successes, corroborations and disuse it has seen.      *)
NeverFailedIsSurfaced ==
    tagged >= CONTEST_CONFIDENCE /\ "Failure" \notin Range(outcomes) => origin # "Contested"

(* confidence.rs:188-191: "From above the prior it stays >= p0; from below *)
(* it stays <= p0; it never crosses", over a chain of updates whose        *)
(* origins, and so priors, change.                                         *)
NeverCrossesPrior ==
    \/ Prior(origin) <= effective /\ effective <= confidence
    \/ confidence <= effective /\ effective <= Prior(origin)

(* confidence.rs:223: "Rehabilitation: a re-confirmed Contested fact       *)
(* leaves quarantine".  A failure does not confirm: the step that records  *)
(* one leaves no learning Validated.                                       *)
FailureNeverPromotes ==
    [][outcomes' # outcomes /\ Last(outcomes') = "Failure" => origin' # "Validated"]_vars

=============================================================================
