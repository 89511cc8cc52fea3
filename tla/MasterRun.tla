------------------------------ MODULE MasterRun ------------------------------
(* A local run: the master LangGraph of run_pipeline and resume_run, with    *)
(* its checkpoint, the process that executes it, and the run's history in    *)
(* the repository.                                                           *)
(*                                                                           *)
(* LangGraph is external and modelled by what the code relies on: a node's   *)
(* update is committed when the node is through; a process that dies leaves  *)
(* the last checkpoint, and the node it was in is executed again from its    *)
(* start; interrupt() ends the invocation unless an answer came with it; an  *)
(* answer is good for the node the run is resumed at.                        *)
EXTENDS Gate

CONSTANTS
    Overalls,       \* the scores each phase's evaluation can have, in percent
    RiskLevels,     \* the risk levels a run can be started with
    AutoModes,      \* AIDLC_AUTO_APPROVE in the environment of a process
    MaxCrashes,     \* bound on processes that die, or agents that raise
    MaxResumes      \* bound on calls of resume_run

ASSUME MasterAssumption ==
    /\ Overalls \in [Phases -> SUBSET Nat]
    /\ RiskLevels \subseteq Risks
    /\ AutoModes \subseteq BOOLEAN
    /\ MaxCrashes \in Nat
    /\ MaxResumes \in Nat

VARIABLES
    risk,       \* risk_level of the run's context
    \* the checkpoint
    node,       \* the node to execute next, within the phase
    phase, retries, hops,
    overall,    \* the latest scorecard's score
    target,     \* what the latest triage report asks for
    decision,   \* the latest gate decision
    status,
    shown,      \* the state's own "phase": the last one that was completed
    waiting,    \* the gate is interrupted
    \* the process
    proc,       \* executing, about to return, or none
    auto, answer,
    at,         \* how far it is in gate_node
    made,       \* the decision gate_node has made
    \* the repository
    row,        \* status and phase of the run
    lastRow,    \* the newest gate decision
    \* bounds and history
    crashes, resumes,
    consent     \* what settled the gate in hand: an answer, or auto-approval

checkpoint == <<node, phase, retries, hops, overall, target, decision, status,
                shown, waiting>>
process == <<proc, auto, answer, at, made>>
repository == <<row, lastRow>>
bounds == <<crashes, resumes>>
vars == <<risk, checkpoint, process, repository, bounds, consent>>

Attempts == 1 .. MaxRetries + 1
Answers == {"none", "yes", "no"}
Nodes == {"start", "work", "gate", "route", "end"}
NoRow == [phase |-> FirstPhase, attempt |-> 1, decision |-> "none"]
Rows == [phase : Phases, attempt : Attempts, decision : Decisions \cup {"none"}]

TypeOK ==
    /\ risk \in RiskLevels
    /\ node \in Nodes
    /\ phase \in Phases
    /\ retries \in [Phases -> 0..MaxRetries]
    /\ hops \in 0..MaxHops
    /\ overall \in Nat
    /\ target \in TriageTargets \cup {NoTarget}
    /\ decision \in Decisions
    /\ status \in Statuses
    /\ shown \in Phases
    /\ waiting \in BOOLEAN
    /\ proc \in {"running", "returning", "none"}
    /\ auto \in AutoModes
    /\ answer \in Answers
    /\ at \in {"enter", "asked", "recorded", "written"}
    /\ made \in Decisions
    /\ row \in [status : Statuses, phase : Phases]
    /\ lastRow \in Rows
    /\ crashes \in 0..MaxCrashes
    /\ resumes \in 0..MaxResumes
    /\ consent \in Answers \cup {"auto"}

TargetsOf(p) == IF p = "test_eval" THEN TriageTargets \cup {NoTarget} ELSE {target}

-----------------------------------------------------------------------------
(* run_pipeline has stored the run and is about to invoke the graph. *)
Init ==
    /\ risk \in RiskLevels
    /\ node = "start"
    /\ phase = FirstPhase
    /\ retries = [p \in Phases |-> 0]
    /\ hops = 0
    /\ overall = 0
    /\ target = NoTarget
    /\ decision = "review"
    /\ status = "running"
    /\ shown = FirstPhase
    /\ waiting = FALSE
    /\ proc = "running"
    /\ auto \in AutoModes
    /\ answer = "none"
    /\ at = "enter"
    /\ made = "review"
    /\ row = [status |-> "running", phase |-> FirstPhase]
    /\ lastRow = NoRow
    /\ crashes = 0
    /\ resumes = 0
    /\ consent = "none"

(* The first checkpoint. *)
Begin ==
    /\ proc = "running"
    /\ node = "start"
    /\ node' = "work"
    /\ UNCHANGED <<risk, phase, retries, hops, overall, target, decision, status,
                   shown, waiting, process, repository, bounds, consent>>

(* The agents of the phase up to its evaluator, each committed in turn. *)
Work ==
    /\ proc = "running"
    /\ node = "work"
    /\ overall' \in Overalls[phase]
    /\ target' \in TargetsOf(phase)
    /\ node' = "gate"
    /\ UNCHANGED <<risk, phase, retries, hops, decision, status, shown, waiting,
                   process, repository, bounds, consent>>

-----------------------------------------------------------------------------
(* gate_node, executed from its start whenever the run is resumed in it.     *)

PolicyDecision == Decide(overall, risk, retries[phase])

(* The policy wants a human and nothing speaks for it in the environment; a  *)
(* failed evaluation goes to retry without one.                              *)
NeedsAnswer == PolicyDecision = "review" /\ Passed(overall) /\ ~auto

InGate(stage) == proc = "running" /\ node = "gate" /\ at = stage

(* A row made before the answer or auto-approval is filled in. *)
AddPolicyDecision(d) ==
    lastRow' = [phase |-> phase, attempt |-> retries[phase] + 1,
                decision |-> PolicyDecision]

AddGateDecision(d) ==
    lastRow' = [phase |-> phase, attempt |-> retries[phase] + 1, decision |-> d]

(* A row for the review, every time the gate is executed. *)
Ask ==
    /\ InGate("enter")
    /\ NeedsAnswer
    /\ AddGateDecision("review")
    /\ at' = "asked"
    /\ UNCHANGED <<risk, checkpoint, proc, auto, answer, made, row, bounds, consent>>

(* interrupt() without an answer: invoke returns. *)
Interrupt ==
    /\ InGate("asked")
    /\ answer = "none"
    /\ waiting' = TRUE
    /\ proc' = "returning"
    /\ at' = "enter"
    /\ UNCHANGED <<risk, node, phase, retries, hops, overall, target, decision,
                   status, shown, auto, answer, made, repository, bounds, consent>>

(* interrupt() with one. *)
Answered ==
    /\ InGate("asked")
    /\ answer # "none"
    /\ made' = IF answer = "yes" THEN "auto" ELSE "block"
    /\ AddGateDecision(made')
    /\ consent' = answer
    /\ at' = "recorded"
    /\ UNCHANGED <<risk, checkpoint, proc, auto, answer, row, bounds>>

(* No human is asked. *)
Unasked ==
    /\ InGate("enter")
    /\ ~NeedsAnswer
    /\ made' = RecordedDecision(overall, risk, retries[phase], auto)
    /\ AddGateDecision(made')
    /\ consent' = IF auto THEN "auto" ELSE "none"
    /\ at' = "recorded"
    /\ UNCHANGED <<risk, checkpoint, proc, auto, answer, row, bounds>>

(* The status from before the gate. *)
RowOfOldStatus == [status |-> status, phase |-> phase]

RowOfDecision == [status |-> GateStatus(phase, overall, made), phase |-> phase]

UpdateStatus ==
    /\ InGate("recorded")
    /\ row' = RowOfDecision
    /\ at' = "written"
    /\ UNCHANGED <<risk, checkpoint, proc, auto, answer, made, lastRow, bounds, consent>>

(* The gate's update and, with it, the phase node's. *)
CommitGate ==
    /\ InGate("written")
    /\ decision' = made
    /\ status' = GateStatus(phase, overall, made)
    /\ shown' = phase
    /\ waiting' = FALSE
    /\ node' = "route"
    /\ at' = "enter"
    /\ answer' = "none"
    /\ UNCHANGED <<risk, phase, retries, hops, overall, target, proc, auto, made,
                   repository, bounds, consent>>

-----------------------------------------------------------------------------
(* The route node: _route_update and, on the state it leaves, _next_route.   *)

Failed == ~Passed(overall)

Regressed == phase = "test_eval" /\ Passed(overall) /\ target # NoTarget

(* Backward routes without a limit. *)
StopsButForHops ==
    \/ decision = "block" \/ status = "blocked"
    \/ Failed /\ retries[phase] >= MaxRetries

Stops ==
    \/ decision = "block" \/ status = "blocked"
    \/ Failed /\ retries[phase] >= MaxRetries
    \/ Regressed /\ hops >= MaxHops

(* The retry that forgets to count itself. *)
RetriesNotUpdated == retries

RetriesUpdated ==
    IF Failed /\ ~Stops THEN [retries EXCEPT ![phase] = @ + 1] ELSE retries

HopsUpdated == IF Regressed /\ ~Stops THEN hops + 1 ELSE hops

StatusUpdated == IF Stops THEN "blocked" ELSE status

NextRoute(updated) ==
    IF updated \in {"blocked", "awaiting_approval"} THEN "end"
    ELSE IF Failed THEN phase
    ELSE IF Regressed THEN target
    ELSE IF phase = LastPhase THEN "end" ELSE NextPhase(phase)

Route ==
    /\ proc = "running"
    /\ node = "route"
    /\ status' = StatusUpdated
    /\ retries' = RetriesUpdated
    /\ hops' = HopsUpdated
    /\ IF NextRoute(StatusUpdated) = "end"
       THEN node' = "end" /\ phase' = phase
       ELSE node' = "work" /\ phase' = NextRoute(StatusUpdated)
    /\ answer' = "none"
    /\ consent' = "none"
    /\ UNCHANGED <<risk, overall, target, decision, shown, waiting, proc, auto, at,
                   made, repository, bounds>>

-----------------------------------------------------------------------------
(* The end of run_pipeline and resume_run: the row gets what invoke returned.*)
Return ==
    /\ proc = "returning" \/ (proc = "running" /\ node = "end")
    /\ row' = [status |-> IF waiting THEN "awaiting_approval" ELSE status,
               phase |-> shown]
    /\ proc' = "none"
    /\ answer' = "none"
    /\ UNCHANGED <<risk, checkpoint, auto, at, made, lastRow, bounds, consent>>

(* The process dies, or an agent raises and nothing catches it. *)
Crash ==
    /\ proc # "none"
    /\ crashes < MaxCrashes
    /\ crashes' = crashes + 1
    /\ proc' = "none"
    /\ at' = "enter"
    /\ answer' = "none"
    /\ UNCHANGED <<risk, checkpoint, auto, made, repository, resumes, consent>>

(* resume_run, in a process with an environment of its own, whether or not   *)
(* the run waits for an answer; without a checkpoint it fails.               *)
Resume ==
    /\ proc = "none"
    /\ node # "start"
    /\ resumes < MaxResumes
    /\ resumes' = resumes + 1
    /\ proc' = "running"
    /\ answer' \in {"yes", "no"}
    /\ auto' \in AutoModes
    /\ UNCHANGED <<risk, checkpoint, at, made, repository, crashes, consent>>

-----------------------------------------------------------------------------
Step ==
    \/ Begin \/ Work
    \/ Ask \/ Interrupt \/ Answered \/ Unasked \/ UpdateStatus \/ CommitGate
    \/ Route \/ Return

Next == Step \/ Crash \/ Resume

Spec == Init /\ [][Next]_vars

(* A process works on unless it dies; nobody owes a run an answer. *)
FairSpec == Spec /\ WF_vars(Step)

-----------------------------------------------------------------------------
Outcome ==
    IF node # "end" THEN "running"
    ELSE IF status = "completed" THEN "completed" ELSE "blocked"

P == INSTANCE Pipeline WITH outcome <- Outcome

(* The counters _route_update keeps and the edge _next_route takes, which    *)
(* decide separately and on different states, together visit the phases as   *)
(* routing promises, through any number of crashes and resumptions.          *)
ImplementsPipeline == P!Spec

(* A run goes forward, or ends completed, only with an evaluation that       *)
(* passed and the consent of the policy, of a process with auto-approval or  *)
(* of an answer taken at this gate, whatever was answered, lost in a crash   *)
(* or executed again before (gate_node, interrupt).                          *)
ForwardNeedsConsent ==
    node = "route" /\ decision # "block" /\ Passed(overall) =>
        \/ consent \in {"yes", "auto"}
        \/ risk = "low" /\ overall >= AutoMark

(* The history of gate decisions ends with the one the run acts on, for this *)
(* phase and attempt, also when a crash made the gate run again and decide   *)
(* differently (gate_node adds its row before its update is committed).      *)
LastRowIsDecision ==
    node = "route" =>
        lastRow = [phase |-> phase, attempt |-> retries[phase] + 1,
                   decision |-> decision]

(* What a gate ended a run as is in the run's row as soon as the run is over,*)
(* even if the process dies before it returns; only the end that a backward  *)
(* limit brings waits for run_pipeline's own update (gate_node).             *)
EndedRunIsMirrored ==
    node = "end" /\ (decision = "block" \/ status = "completed") =>
        row = [status |-> status, phase |-> phase]

(* Every call of run_pipeline and resume_run comes back: retries and hops    *)
(* are bounded across all of them, and a gate without an answer ends one.    *)
CallReturns == proc = "running" ~> proc = "none"

-----------------------------------------------------------------------------
(* Why the first four hold: an inductive invariant.                          *)

(* gate_node is in progress only in a running gate; its row, and then the    *)
(* run's, show what it made.                                                 *)
GateInProgress ==
    /\ at # "enter" => proc = "running" /\ node = "gate"
    /\ at = "asked" => NeedsAnswer
    /\ at \in {"recorded", "written"} =>
          /\ lastRow = [phase |-> phase, attempt |-> retries[phase] + 1,
                        decision |-> made]
          /\ made = "review" => Failed
          /\ made = "auto" =>
                /\ Passed(overall)
                /\ \/ consent \in {"yes", "auto"}
                   \/ risk = "low" /\ overall >= AutoMark
    /\ at = "written" => row = RowOfDecision

(* A committed gate has its row and the run's, and its status fits.          *)
GateCommitted ==
    node = "route" =>
        /\ status = GateStatus(phase, overall, decision)
        /\ decision = "review" => Failed
        /\ decision = "auto" => Passed(overall)
        /\ row = [status |-> status, phase |-> phase]
        /\ shown = phase

(* A run is over for good, with its last phase shown.                        *)
EndIsSettled ==
    /\ node = "end" => status \in {"completed", "blocked"} /\ shown = phase
    /\ node = "end" /\ status = "completed" => phase = LastPhase
    /\ waiting => node = "gate"
    /\ proc = "returning" => node \in {"gate", "end"}

IInv ==
    /\ TypeOK
    /\ GateInProgress
    /\ GateCommitted
    /\ EndIsSettled
    /\ LastRowIsDecision
    /\ ForwardNeedsConsent
    /\ EndedRunIsMirrored

-----------------------------------------------------------------------------
(* What the documents say and the code does not do.                          *)

(* docs/DESIGN.md:120, "gate = block / rejected -> blocked": an interrupted  *)
(* gate that is resumed with a rejection blocks the run.  The gate, executed *)
(* again, looks at the environment of the resuming process before it looks   *)
(* for the answer.                                                           *)
RejectionBlocks ==
    [][ waiting /\ answer = "no" /\ node = "gate" /\ node' = "route"
            => decision' = "block" ]_vars
=============================================================================
