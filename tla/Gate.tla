-------------------------------- MODULE Gate --------------------------------
(* The gate at the end of every phase: GatePolicy.decide and what gate_node  *)
(* makes of its decision.  Scores are percentages.                           *)
EXTENDS Phases, Limits, Integers

PassMark == 70      \* an evaluator's threshold
AutoMark == 85      \* the score a low-risk run needs to pass unreviewed

Risks == {"low", "medium", "high"}

Decisions == {"auto", "review", "block"}

Statuses == {"running", "awaiting_approval", "completed", "blocked"}

Passed(overall) == overall >= PassMark

-----------------------------------------------------------------------------
(* A policy that lets any run with a high score through. *)
DecideIgnoringRisk(overall, risk, retries) ==
    IF ~Passed(overall) /\ retries >= MaxRetries THEN "block"
    ELSE IF Passed(overall) /\ overall >= AutoMark THEN "auto"
    ELSE "review"

(* GatePolicy.decide: a failure with no retry left blocks, a high score at   *)
(* low risk needs no human, everything else is for review.                   *)
Decide(overall, risk, retries) ==
    IF ~Passed(overall) /\ retries >= MaxRetries THEN "block"
    ELSE IF Passed(overall) /\ risk = "low" /\ overall >= AutoMark THEN "auto"
    ELSE "review"

(* A failed evaluation that is not blocked goes to retry, unreviewed. *)
GoesToRetry(overall, decision) == ~Passed(overall) /\ decision # "block"

(* gate_node in record mode: a review is settled by auto-approval, unless    *)
(* the evaluation failed, or recorded for the workflow to wait on.           *)
RecordedDecision(overall, risk, retries, auto) ==
    LET decision == Decide(overall, risk, retries)
    IN  IF decision = "review" /\ Passed(overall) /\ auto THEN "auto" ELSE decision

(* The status gate_node writes beside the decision it recorded. *)
GateStatus(phase, overall, decision) ==
    IF GoesToRetry(overall, decision) THEN "running"
    ELSE IF decision = "block" THEN "blocked"
    ELSE IF decision = "review" THEN "awaiting_approval"
    ELSE IF phase = LastPhase THEN "completed" ELSE "running"
=============================================================================
