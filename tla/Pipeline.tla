------------------------------ MODULE Pipeline ------------------------------
(* What routing promises, whichever orchestrator does it: a run visits the   *)
(* phases in order, repeats a phase or goes back from test_eval only within  *)
(* its limits, and ends completed after deploy or stops early.  How a visit  *)
(* is carried out, evaluated, approved and recorded is left to the           *)
(* specifications that implement this one.                                   *)
EXTENDS Phases, Limits

VARIABLES
    phase,      \* the phase being visited
    retries,    \* repetitions so far of each phase
    hops,       \* backward routes so far
    outcome     \* "running", then "completed", "blocked" or "failed" for good

vars == <<phase, retries, hops, outcome>>

Outcomes == {"running", "completed", "blocked", "failed"}

TypeOK ==
    /\ phase \in Phases
    /\ retries \in [Phases -> 0..MaxRetries]
    /\ hops \in 0..MaxHops
    /\ outcome \in Outcomes

Init ==
    /\ phase = FirstPhase
    /\ retries = [p \in Phases |-> 0]
    /\ hops = 0
    /\ outcome = "running"

(* On to the next phase. *)
Advance ==
    /\ outcome = "running"
    /\ phase # LastPhase
    /\ phase' = NextPhase(phase)
    /\ UNCHANGED <<retries, hops, outcome>>

(* The last phase was approved. *)
Finish ==
    /\ outcome = "running"
    /\ phase = LastPhase
    /\ outcome' = "completed"
    /\ UNCHANGED <<phase, retries, hops>>

(* The evaluation failed: the same phase again, with the feedback. *)
Retry ==
    /\ outcome = "running"
    /\ retries[phase] < MaxRetries
    /\ retries' = [retries EXCEPT ![phase] = @ + 1]
    /\ UNCHANGED <<phase, hops, outcome>>

(* Triage found a regression: back to the phase that caused it. *)
Hop ==
    /\ outcome = "running"
    /\ phase = "test_eval"
    /\ hops < MaxHops
    /\ hops' = hops + 1
    /\ phase' \in TriageTargets
    /\ UNCHANGED <<retries, outcome>>

(* A gate blocked, a limit was reached, or the visit could not be carried out. *)
Stop ==
    /\ outcome = "running"
    /\ outcome' \in {"blocked", "failed"}
    /\ UNCHANGED <<phase, retries, hops>>

Next == Advance \/ Finish \/ Retry \/ Hop \/ Stop

Spec == Init /\ [][Next]_vars

FairSpec == Spec /\ WF_vars(Next)

-----------------------------------------------------------------------------
(* How many routing steps are left at most: the retries still allowed, two   *)
(* extra visits and the hop itself for every backward route still allowed,   *)
(* the phases ahead and the end.                                             *)
Measure ==
    3 * (MaxHops - hops)
    + (MaxRetries - retries["requirements"])
    + (MaxRetries - retries["design"])
    + (MaxRetries - retries["build"])
    + (MaxRetries - retries["test_eval"])
    + (MaxRetries - retries["deploy"])
    + (5 - Position(phase))
    + (IF outcome = "running" THEN 1 ELSE 0)

(* Every routing step uses up some of what the limits allow, so no sequence  *)
(* of failed evaluations, approvals and regressions keeps a run going        *)
(* forever (the two counters in _route_update and _route).                   *)
Decreases == [][Measure' < Measure /\ Measure' >= 0]_vars
=============================================================================
