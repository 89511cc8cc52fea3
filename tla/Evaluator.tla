------------------------------ MODULE Evaluator ------------------------------
(* One evaluation: the deterministic checks of a phase, the calls of the LLM *)
(* judge with their repairs and re-asks, and the scorecard made of both.     *)
(* Scores are hundredths; of a verdict's text only the scores matter.        *)
EXTENDS Phases, Naturals, FiniteSets, Functions

CONSTANTS
    ExtraKeys,      \* keys outside the rubric that a judge may score
    Marks,          \* scores a judge may give; the schema sets no range
    Overalls,       \* overall scores a judge may give
    Completions,    \* completions per call of the LLM (4)
    ReAsks          \* further calls after a verdict that is too low (2)

ASSUME EvaluatorAssumption ==
    /\ IsFiniteSet(ExtraKeys)
    /\ Marks \subseteq Nat /\ Overalls \subseteq Nat
    /\ Completions \in Nat \ {0}
    /\ ReAsks \in Nat

Threshold == 70

VARIABLES
    phase,      \* the phase that is evaluated
    evidence,   \* what the deterministic checks say: 0 or 100 for each key
    provider,   \* of the judge: mock, or a model behind LiteLLM
    asked,      \* completions of the call under way
    format,     \* the response format it asks for
    verdicts,   \* verdicts so far
    best,       \* the one among them with the highest overall score
    card,       \* the scorecard
    spent       \* completions of the whole evaluation (history)

vars == <<phase, evidence, provider, asked, format, verdicts, best, card, spent>>

Rubric(p) ==
    CASE p = "requirements" -> {"completeness", "testability", "compliance"}
      [] p = "design"       -> {"traceability", "dag"}
      [] p = "build"        -> {"implementation", "review", "static"}
      [] p = "test_eval"    -> {"quality", "coverage"}
      [] p = "deploy"       -> {"deployment", "soak"}

(* Keys whose checks compute the same: all items coded and approved, all     *)
(* requirements covered and all tests passed.                                *)
SameCheck(p) ==
    CASE p = "build"     -> {"implementation", "review"}
      [] p = "test_eval" -> {"quality", "coverage"}
      [] OTHER           -> {}

Evidence(p) ==
    {e \in [Rubric(p) -> {0, 100}] : \A i, j \in SameCheck(p) : e[i] = e[j]}

(* A scores object of any keys; a model need not keep to the rubric. *)
Verdicts(p) ==
    [overall : Overalls,
     scores : UNION {[keys -> Marks] : keys \in SUBSET (Rubric(p) \cup ExtraKeys)}]

(* mock_scorecard *)
MockVerdict(p) == [overall |-> 85, scores |-> [key \in Rubric(p) |-> 85]]

NoScores == [key \in {} |-> 0]
NoVerdict == [overall |-> 0, scores |-> NoScores]
NoCard == [scores |-> NoScores, flagged |-> FALSE]

Init ==
    /\ phase \in Phases
    /\ evidence \in Evidence(phase)
    /\ provider \in {"mock", "litellm"}
    /\ asked = 0
    /\ format = "json_schema"
    /\ verdicts = 0
    /\ best = NoVerdict
    /\ card = NoCard
    /\ spent = 0

-----------------------------------------------------------------------------
(* The sum of the scores, and whether their mean reaches the threshold. *)
Total(scores) == FoldFunction(+, 0, scores)
Passes(scores) ==
    scores # NoScores /\ Total(scores) >= Threshold * Cardinality(DOMAIN scores)

(* The checks alone, with the feedback that says so. *)
ChecksOnly == [scores |-> evidence, flagged |-> TRUE]

(* What a check found, or 100 for a key that no check knows. *)
Checked(key) == IF key \in Rubric(phase) THEN evidence[key] ELSE 100

(* A judge whose score stands where it has given one. *)
JudgeFirst(scores) ==
    [key \in Rubric(phase) \cup DOMAIN scores |->
        IF key \notin DOMAIN scores THEN Checked(key) ELSE scores[key]]

(* Checks that are averaged without the judge's doubts. *)
CheckFirst(scores) == [key \in Rubric(phase) \cup DOMAIN scores |-> Checked(key)]

(* Where the judge gave a score the lower one counts, elsewhere the check's. *)
Combined(scores) ==
    [key \in Rubric(phase) \cup DOMAIN scores |->
        IF key \notin DOMAIN scores \/ Checked(key) < scores[key]
        THEN Checked(key) ELSE scores[key]]

(* A verdict without scores, or of zeros only, counts as no judge. *)
Unusable(scores) == \A key \in DOMAIN scores : scores[key] = 0

Scorecard(verdict) ==
    IF Unusable(verdict.scores) THEN ChecksOnly
    ELSE [scores |-> Combined(verdict.scores), flagged |-> FALSE]

(* max keeps the first of equals. *)
Better(v) == IF verdicts = 0 \/ v.overall > best.overall THEN v ELSE best

(* The judge is asked again when all checks passed and it thinks otherwise. *)
AsksAgain(v) ==
    /\ \A key \in Rubric(phase) : evidence[key] = 100
    /\ v.overall < Threshold
    /\ verdicts < ReAsks

-----------------------------------------------------------------------------
(* A completion validates: the call returns verdict v. *)
Answer(v) ==
    /\ verdicts' = verdicts + 1
    /\ best' = Better(v)
    /\ asked' = 0
    /\ format' = "json_schema"
    /\ card' = IF AsksAgain(v) THEN NoCard ELSE Scorecard(Better(v))
    /\ spent' = spent + 1
    /\ UNCHANGED <<phase, evidence, provider>>

(* A failure that says what went wrong and does not count. *)
FailUncounted(fallback) ==
    /\ format' = fallback
    /\ spent' = spent + 1
    /\ UNCHANGED <<phase, evidence, provider, asked, verdicts, best, card>>

(* A last failure that leaves the verdicts before it in place. *)
FailKeepingVerdicts(fallback) ==
    /\ format' = fallback
    /\ IF asked + 1 < Completions
       THEN asked' = asked + 1 /\ UNCHANGED card
       ELSE /\ card' = IF verdicts = 0 THEN ChecksOnly ELSE Scorecard(best)
            /\ UNCHANGED asked
    /\ spent' = spent + 1
    /\ UNCHANGED <<phase, evidence, provider, verdicts, best>>

(* A completion fails and the next one is told why; after the last one the   *)
(* call raises, which leaves the checks alone, verdicts before it or not.    *)
Fail(fallback) ==
    /\ format' = fallback
    /\ IF asked + 1 < Completions
       THEN asked' = asked + 1 /\ UNCHANGED card
       ELSE card' = ChecksOnly /\ UNCHANGED asked
    /\ spent' = spent + 1
    /\ UNCHANGED <<phase, evidence, provider, verdicts, best>>

Judge ==
    /\ card = NoCard
    /\ provider = "litellm"
    /\ \/ \E v \in Verdicts(phase) : Answer(v)
       \/ Fail(format)          \* empty, or not what the schema asks for
       \/ Fail("json_object")   \* the provider refuses or is not reached

MockJudge ==
    /\ card = NoCard
    /\ provider = "mock"
    /\ Answer(MockVerdict(phase))

Next == Judge \/ MockJudge

Spec == Init /\ [][Next]_vars

-----------------------------------------------------------------------------
(* What holds.                                                               *)

Broken == \E key \in Rubric(phase) : evidence[key] = 0

(* The judge that counts kept to the rubric. *)
KeptToRubric == DOMAIN best.scores \subseteq Rubric(phase)

(* A phase with a failed check does not pass, whatever the judge thinks of   *)
(* it, misses out or repeats, and whether or not it answers, as long as it   *)
(* keeps to the rubric it was given (Evaluator.run; min and mean).           *)
FailedCheckFails == card # NoCard /\ Broken /\ KeptToRubric => ~Passes(card.scores)

(* The other way round, the checks never lift the judge: when the verdict    *)
(* that counts has a score for the whole rubric, with keys of its own or     *)
(* not, and these scores do not pass, the evaluation does not pass on it.    *)
(* One score that is too low may still be outvoted by the verdict's others,  *)
(* and a key that the judge left out counts as the check found it.           *)
ChecksLiftNoVerdict ==
    card # NoCard /\ ~card.flagged /\ Rubric(phase) \subseteq DOMAIN best.scores
        /\ Passes(card.scores)
        => Passes(best.scores)

(* A phase whose checks all passed fails on the judge's word only: after all *)
(* the calls there are, each of them in doubt, or on low scores under a high *)
(* overall one.  A judge that fails in any of its calls, whatever it said in *)
(* those before, does not fail the phase (Evaluator.run's one try around all *)
(* calls, the loop of re-asks and the max over the verdicts).                *)
DoubtNeedsAllVerdicts ==
    card # NoCard /\ ~Broken /\ ~Passes(card.scores)
        => verdicts = ReAsks + 1 \/ best.overall >= Threshold

(* Repairs and re-asks multiply, and together stay within their product, so  *)
(* that every evaluation ends, whatever the provider does: failures count    *)
(* whichever format they come under, and only verdicts start a new count.    *)
SpendIsBounded == spent <= Completions * (ReAsks + 1)

-----------------------------------------------------------------------------
(* What the documents say and the code does not do.                          *)

(* docs/DISTRIBUTED_DESIGN.md:595, "a weaker fallback judge can lower a      *)
(* score but cannot approve a broken build".  Keys of the judge's own count  *)
(* in the mean.                                                              *)
ChecksAreTheFloor == card # NoCard /\ Broken => ~Passes(card.scores)

-----------------------------------------------------------------------------
(* What makes it so, by induction on the steps.                              *)

(* Scores of keys that the schema allows; a mock judge has a mark of its own. *)
ScoreSets(p) == UNION {[keys -> Nat] : keys \in SUBSET (Rubric(p) \cup ExtraKeys)}

CountsFit ==
    /\ phase \in Phases /\ evidence \in Evidence(phase)
    /\ asked \in 0..(Completions - 1) /\ verdicts \in Nat /\ spent \in Nat
    /\ best.scores \in ScoreSets(phase) /\ best.overall \in Nat

(* While there is no scorecard another verdict may come, and those so far    *)
(* have cost one full call each at most.                                     *)
CallsFit ==
    card = NoCard =>
        /\ verdicts <= ReAsks
        /\ spent <= Completions * verdicts + asked

(* The scorecard is the checks alone, or what they and the best verdict give *)
(* when there is no reason to ask again.                                     *)
CardFits ==
    card # NoCard =>
        \/ card = ChecksOnly
        \/ /\ card = [scores |-> Combined(best.scores), flagged |-> FALSE]
           /\ Broken \/ best.overall >= Threshold \/ verdicts = ReAsks + 1

IInv == CountsFit /\ CallsFit /\ CardFits /\ SpendIsBounded
=============================================================================
