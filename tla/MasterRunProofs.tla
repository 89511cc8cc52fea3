--------------------------- MODULE MasterRunProofs ---------------------------
(* Proofs about MasterRun, for any limits, scores, crashes and resumptions.  *)
EXTENDS MasterRun, TLAPS

-----------------------------------------------------------------------------
(* Lemmas on the operators the actions are made of.                          *)

LEMMA LimitFacts ==
    MaxRetries \in Nat /\ MaxHops \in Nat /\ MaxCrashes \in Nat /\ MaxResumes \in Nat
BY LimitsAssumption, MasterAssumption

LEMMA PhaseFacts ==
    /\ FirstPhase \in Phases
    /\ TriageTargets \subseteq Phases
    /\ "end" \notin Phases
    /\ \A p \in Phases : NextPhase(p) \in Phases
BY DEF FirstPhase, TriageTargets, Phases, NextPhase

(* gate_node's decision is a review only of a failure, and auto only of a    *)
(* success that the policy or the environment lets through.                  *)
LEMMA GateFacts ==
    \A score, n, env :
        LET d == RecordedDecision(score, risk, n, env) IN
        /\ d \in Decisions
        /\ d = "auto" => /\ Passed(score)
                         /\ env \/ (risk = "low" /\ score >= AutoMark)
        /\ d = "review" => Decide(score, risk, n) = "review" /\ (Passed(score) => ~env)
BY DEF RecordedDecision, Decide, Decisions

LEMMA StatusFacts ==
    \A p, score, d :
        /\ GateStatus(p, score, d) \in Statuses
        /\ d = "block" => GateStatus(p, score, d) = "blocked"
        /\ d = "review" /\ ~Passed(score) => GateStatus(p, score, d) = "running"
        /\ d = "auto" /\ Passed(score) =>
              GateStatus(p, score, d) = IF p = LastPhase THEN "completed" ELSE "running"
BY DEF GateStatus, GoesToRetry, Statuses

(* Where _next_route leads when _route_update has not stopped the run.       *)
LEMMA RouteFacts ==
    ASSUME TypeOK
    PROVE  /\ RetriesUpdated \in [Phases -> 0..MaxRetries]
           /\ HopsUpdated \in 0..MaxHops
           /\ StatusUpdated \in Statuses
           /\ NextRoute(StatusUpdated) \in Phases \cup {"end"}
<1>1. RetriesUpdated \in [Phases -> 0..MaxRetries]
  <2>1. CASE Failed /\ ~Stops
    <3>1. retries[phase] + 1 \in 0..MaxRetries
      BY <2>1, LimitFacts DEF TypeOK, Stops
    <3> QED
      BY <2>1, <3>1 DEF RetriesUpdated, TypeOK
  <2>2. CASE ~(Failed /\ ~Stops)
    BY <2>2 DEF RetriesUpdated, TypeOK
  <2> QED
    BY <2>1, <2>2
<1>2. HopsUpdated \in 0..MaxHops
  BY LimitFacts DEF TypeOK, HopsUpdated, Stops
<1>3. StatusUpdated \in Statuses
  BY DEF TypeOK, StatusUpdated, Statuses
<1>4. NextRoute(StatusUpdated) \in Phases \cup {"end"}
  <2>1. Regressed => target \in Phases
    BY PhaseFacts DEF TypeOK, Regressed
  <2> QED
    BY <2>1, PhaseFacts DEF TypeOK, NextRoute
<1> QED
  BY <1>1, <1>2, <1>3, <1>4

-----------------------------------------------------------------------------
(* Type correctness.                                                         *)

LEMMA InitType == Init => TypeOK
<1> SUFFICES ASSUME Init PROVE TypeOK
  OBVIOUS
<1> USE DEF Init
<1>1. /\ risk \in RiskLevels /\ node \in Nodes /\ phase \in Phases
      /\ retries \in [Phases -> 0..MaxRetries] /\ hops \in 0..MaxHops
      /\ overall \in Nat /\ target \in TriageTargets \cup {NoTarget}
  BY LimitFacts, PhaseFacts DEF Nodes
<1>2. /\ decision \in Decisions /\ status \in Statuses /\ shown \in Phases
      /\ waiting \in BOOLEAN /\ proc \in {"running", "returning", "none"}
      /\ auto \in AutoModes /\ answer \in Answers /\ made \in Decisions
      /\ at \in {"enter", "asked", "recorded", "written"}
  BY PhaseFacts DEF Decisions, Statuses, Answers
<1>3. row \in [status : Statuses, phase : Phases]
  BY PhaseFacts DEF Statuses
<1>4. lastRow \in Rows
  BY LimitFacts, PhaseFacts DEF NoRow, Rows, Attempts
<1>5. /\ crashes \in 0..MaxCrashes /\ resumes \in 0..MaxResumes
      /\ consent \in Answers \cup {"auto"}
  BY LimitFacts DEF Answers
<1> QED
  BY <1>1, <1>2, <1>3, <1>4, <1>5 DEF TypeOK

LEMMA RowType ==
    ASSUME TypeOK, NEW d \in Decisions, AddGateDecision(d)
    PROVE  lastRow' \in Rows
<1>1. retries[phase] + 1 \in Attempts
  BY LimitFacts DEF TypeOK, Attempts
<1> QED
  BY <1>1 DEF TypeOK, AddGateDecision, Rows

(* The steps inside gate_node.                                               *)
LEMMA GateStepType ==
    ASSUME TypeOK, Ask \/ Interrupt \/ Answered \/ Unasked \/ UpdateStatus \/ CommitGate
    PROVE  TypeOK'
<1> USE DEF checkpoint, process, repository, bounds
<1>1. CASE Ask
  <2>1. lastRow' \in Rows
    BY <1>1, RowType DEF Ask, Decisions
  <2> QED
    BY <1>1, <2>1 DEF Ask, TypeOK
<1>2. CASE Interrupt
  BY <1>2 DEF Interrupt, TypeOK
<1>3. CASE Answered
  <2>1. made' \in Decisions
    BY <1>3 DEF Answered, Decisions
  <2>2. lastRow' \in Rows
    BY <1>3, <2>1, RowType DEF Answered
  <2> QED
    BY <1>3, <2>1, <2>2 DEF Answered, TypeOK
<1>4. CASE Unasked
  <2>1. made' \in Decisions
    BY <1>4, GateFacts DEF Unasked
  <2>2. lastRow' \in Rows
    BY <1>4, <2>1, RowType DEF Unasked
  <2> QED
    BY <1>4, <2>1, <2>2 DEF Unasked, TypeOK, Answers
<1>5. CASE UpdateStatus
  BY <1>5, StatusFacts DEF UpdateStatus, TypeOK, RowOfDecision
<1>6. CASE CommitGate
  BY <1>6, StatusFacts DEF CommitGate, TypeOK, Nodes, Answers
<1> QED
  BY <1>1, <1>2, <1>3, <1>4, <1>5, <1>6

LEMMA StepType == TypeOK /\ [Next]_vars => TypeOK'
<1> SUFFICES ASSUME TypeOK, [Next]_vars PROVE TypeOK'
  OBVIOUS
<1> USE DEF checkpoint, process, repository, bounds
<1>1. CASE Begin
  BY <1>1 DEF Begin, TypeOK, Nodes
<1>2. CASE Work
  <2>1. overall' \in Nat /\ target' \in TriageTargets \cup {NoTarget}
    BY <1>2, MasterAssumption DEF Work, TypeOK, TargetsOf
  <2> QED
    BY <1>2, <2>1 DEF Work, TypeOK, Nodes
<1>3. CASE Ask \/ Interrupt \/ Answered \/ Unasked \/ UpdateStatus \/ CommitGate
  BY <1>3, GateStepType
<1>4. CASE Route
  <2>1. /\ status' \in Statuses /\ retries' \in [Phases -> 0..MaxRetries]
        /\ hops' \in 0..MaxHops
    BY <1>4, RouteFacts DEF Route
  <2>2. node' \in Nodes /\ phase' \in Phases
    BY <1>4, RouteFacts DEF Route, Nodes, TypeOK
  <2> QED
    BY <1>4, <2>1, <2>2 DEF Route, TypeOK, Answers
<1>5. CASE Return
  <2>1. row' \in [status : Statuses, phase : Phases]
    BY <1>5 DEF Return, TypeOK, Statuses
  <2> QED
    BY <1>5, <2>1 DEF Return, TypeOK, Answers
<1>6. CASE Crash
  BY <1>6, LimitFacts DEF Crash, TypeOK, Answers
<1>7. CASE Resume
  BY <1>7, LimitFacts DEF Resume, TypeOK, Answers
<1>8. CASE UNCHANGED vars
  BY <1>8 DEF vars, TypeOK
<1> QED
  BY <1>1, <1>2, <1>3, <1>4, <1>5, <1>6, <1>7, <1>8 DEF Next, Step

(* Every variable keeps its type: counters and attempts stay within the      *)
(* limits and every gate row is one of this run's.                           *)
THEOREM MasterTypeOK == Spec => []TypeOK
<1>1. TypeOK /\ [Next]_vars => TypeOK'
  BY StepType
<1> QED
  BY InitType, <1>1, PTL DEF Spec

-----------------------------------------------------------------------------
(* The inductive invariant.                                                  *)

LEMMA InitIInv == Init => IInv
BY InitType DEF Init, IInv, GateInProgress, GateCommitted, EndIsSettled,
   LastRowIsDecision, ForwardNeedsConsent, EndedRunIsMirrored

(* Within the gate only GateInProgress is at stake.                          *)
LEMMA GateStepIInv ==
    ASSUME IInv, TypeOK', Ask \/ Interrupt \/ Answered \/ Unasked \/ UpdateStatus
    PROVE  IInv'
<1> USE DEF IInv, checkpoint, repository
<1>1. /\ node = "gate" /\ node' = "gate"
      /\ proc' \in {"running", "returning"}
      /\ UNCHANGED <<phase, retries, overall, risk, decision, status, shown>>
  BY DEF Ask, Interrupt, Answered, Unasked, UpdateStatus, InGate
<1>2. GateCommitted' /\ EndIsSettled' /\ LastRowIsDecision' /\ ForwardNeedsConsent'
      /\ EndedRunIsMirrored'
  BY <1>1 DEF GateCommitted, EndIsSettled, LastRowIsDecision, ForwardNeedsConsent,
              EndedRunIsMirrored
<1>3. CASE Ask
  BY <1>2, <1>3 DEF Ask, GateInProgress, InGate, NeedsAnswer, PolicyDecision
<1>4. CASE Interrupt
  BY <1>2, <1>4 DEF Interrupt, GateInProgress
<1>5. CASE Answered
  <2>1. /\ Passed(overall)
        /\ made' = IF answer = "yes" THEN "auto" ELSE "block"
        /\ consent' = answer /\ answer \in Answers \ {"none"}
        /\ lastRow' = [phase |-> phase, attempt |-> retries[phase] + 1,
                       decision |-> made']
    BY <1>5 DEF Answered, GateInProgress, InGate, NeedsAnswer, AddGateDecision, TypeOK
  <2> QED
    BY <1>1, <1>2, <1>5, <2>1 DEF Answered, GateInProgress, InGate, Answers
<1>6. CASE Unasked
  <2>1. /\ made' = RecordedDecision(overall, risk, retries[phase], auto)
        /\ consent' = IF auto THEN "auto" ELSE "none"
        /\ lastRow' = [phase |-> phase, attempt |-> retries[phase] + 1,
                       decision |-> made']
        /\ at' = "recorded" /\ proc' = "running"
    BY <1>6 DEF Unasked, AddGateDecision, InGate
  <2>2. made' = "review" => ~Passed(overall)
    BY <1>6, <2>1, GateFacts DEF Unasked, NeedsAnswer, PolicyDecision
  <2>3. made' = "auto" => /\ Passed(overall)
                          /\ \/ consent' \in {"yes", "auto"}
                             \/ risk = "low" /\ overall >= AutoMark
    <3>1. auto \in BOOLEAN
      BY MasterAssumption DEF TypeOK
    <3>2. CASE auto
      BY <2>1, <3>1, <3>2, GateFacts
    <3>3. CASE ~auto
      BY <2>1, <3>1, <3>3, GateFacts
    <3> QED
      BY <3>2, <3>3
  <2> QED
    BY <1>1, <1>2, <2>1, <2>2, <2>3 DEF GateInProgress, Failed
<1>7. CASE UpdateStatus
  BY <1>1, <1>2, <1>7 DEF UpdateStatus, GateInProgress, InGate, RowOfDecision, Failed
<1> QED
  BY <1>3, <1>4, <1>5, <1>6, <1>7

LEMMA CommitIInv == ASSUME IInv, TypeOK', CommitGate PROVE IInv'
<1> USE DEF IInv, repository
<1>1. /\ node' = "route" /\ at' = "enter" /\ proc' = "running" /\ waiting' = FALSE
      /\ decision' = made /\ status' = GateStatus(phase, overall, made)
      /\ shown' = phase
      /\ UNCHANGED <<phase, retries, overall, risk, consent, row, lastRow>>
  BY DEF CommitGate, InGate
<1>2. /\ lastRow = [phase |-> phase, attempt |-> retries[phase] + 1,
                    decision |-> made]
      /\ row = [status |-> GateStatus(phase, overall, made), phase |-> phase]
      /\ made = "review" => ~Passed(overall)
      /\ made = "auto" =>
            /\ Passed(overall)
            /\ \/ consent \in {"yes", "auto"}
               \/ risk = "low" /\ overall >= AutoMark
      /\ made \in {"auto", "review", "block"}
  BY DEF CommitGate, InGate, GateInProgress, RowOfDecision, Failed, TypeOK, Decisions
<1>3. GateInProgress' /\ EndIsSettled' /\ EndedRunIsMirrored'
  BY <1>1 DEF GateInProgress, EndIsSettled, EndedRunIsMirrored
<1>4. GateCommitted'
  BY <1>1, <1>2 DEF GateCommitted, Failed
<1>5. LastRowIsDecision' /\ ForwardNeedsConsent'
  BY <1>1, <1>2 DEF LastRowIsDecision, ForwardNeedsConsent
<1> QED
  BY <1>3, <1>4, <1>5

(* Routing ends a run only blocked, or completed from the last phase; what   *)
(* the gate left in the run's row stays right.                               *)
LEMMA RouteEnds ==
    ASSUME IInv, Route, node' = "end"
    PROVE  /\ status' \in {"completed", "blocked"} /\ phase' = phase
           /\ status' = "completed" => phase = LastPhase
           /\ decision = "block" \/ status' = "completed" => status' = status
<1> USE DEF IInv
<1>1. /\ phase' = phase /\ status' = StatusUpdated
      /\ NextRoute(StatusUpdated) = "end"
  BY PhaseFacts, RouteFacts DEF Route
<1>2. /\ node = "route" /\ status = GateStatus(phase, overall, decision)
      /\ decision \in {"auto", "review", "block"} /\ phase \in Phases
      /\ decision = "review" => ~Passed(overall)
      /\ decision = "auto" => Passed(overall)
  BY DEF Route, GateCommitted, Failed, TypeOK, Decisions
<1>3. CASE Stops
  <2>1. status' = "blocked"
    BY <1>1, <1>3 DEF StatusUpdated
  <2> QED
    BY <1>1, <1>2, <2>1, StatusFacts
<1>4. CASE ~Stops
  <2>1. status' = status /\ decision # "block" /\ status # "blocked"
    BY <1>1, <1>4 DEF StatusUpdated, Stops
  <2>2. status \in {"running", "completed"}
    BY <1>2, <2>1, StatusFacts
  <2>3. ~Failed /\ phase = LastPhase
    BY <1>1, <1>2, <2>1, <2>2, PhaseFacts
       DEF NextRoute, StatusUpdated, Regressed, TypeOK
  <2>4. status = "completed"
    BY <1>2, <2>1, <2>3, StatusFacts DEF Failed
  <2> QED
    BY <1>1, <2>1, <2>3, <2>4
<1> QED
  BY <1>3, <1>4

LEMMA RouteIInv == ASSUME IInv, TypeOK', Route PROVE IInv'
<1> USE DEF IInv, repository
<1>1. /\ node = "route" /\ node' \in {"work", "end"} /\ proc' = "running"
      /\ at = "enter" /\ ~waiting
      /\ UNCHANGED <<decision, shown, waiting, at, made, row, lastRow>>
      /\ row = [status |-> status, phase |-> phase] /\ shown = phase
  BY DEF Route, GateInProgress, GateCommitted, EndIsSettled, TypeOK
<1>2. GateInProgress' /\ GateCommitted' /\ LastRowIsDecision' /\ ForwardNeedsConsent'
  BY <1>1 DEF GateInProgress, GateCommitted, LastRowIsDecision, ForwardNeedsConsent
<1>3. CASE node' = "work"
  BY <1>1, <1>2, <1>3 DEF EndIsSettled, EndedRunIsMirrored
<1>4. CASE node' = "end"
  BY <1>1, <1>2, <1>4, RouteEnds DEF EndIsSettled, EndedRunIsMirrored
<1> QED
  BY <1>1, <1>3, <1>4

(* The process comes and goes; the checkpoint stays.                         *)
LEMMA ProcessStepIInv ==
    ASSUME IInv, TypeOK', Return \/ Crash \/ Resume
    PROVE  IInv'
<1> USE DEF IInv, checkpoint, repository
<1>1. UNCHANGED <<risk, checkpoint, lastRow, consent>>
  BY DEF Return, Crash, Resume
<1>2. CASE Return
  <2>1. at = "enter" /\ at' = "enter" /\ node \in {"gate", "end"}
    BY <1>2 DEF Return, process, GateInProgress, EndIsSettled, TypeOK
  <2>2. node = "end" => row' = [status |-> status, phase |-> phase]
    BY <1>2 DEF Return, EndIsSettled
  <2>3. GateInProgress' /\ GateCommitted' /\ EndIsSettled' /\ LastRowIsDecision'
        /\ ForwardNeedsConsent'
    BY <1>1, <1>2, <2>1 DEF Return, GateInProgress, GateCommitted, EndIsSettled,
                            LastRowIsDecision, ForwardNeedsConsent
  <2>4. EndedRunIsMirrored'
    BY <1>1, <2>2 DEF EndedRunIsMirrored
  <2> QED
    BY <2>3, <2>4
<1>3. CASE Crash \/ Resume
  <2>1. row' = row /\ at' = "enter" /\ proc' \in {"none", "running"}
    BY <1>3 DEF Crash, Resume, GateInProgress, TypeOK
  <2>2. GateInProgress' /\ GateCommitted' /\ EndIsSettled'
    BY <1>1, <2>1 DEF GateInProgress, GateCommitted, EndIsSettled, Failed
  <2>3. LastRowIsDecision' /\ ForwardNeedsConsent' /\ EndedRunIsMirrored'
    BY <1>1, <2>1 DEF LastRowIsDecision, ForwardNeedsConsent, EndedRunIsMirrored
  <2> QED
    BY <2>2, <2>3
<1> QED
  BY <1>2, <1>3

LEMMA StepIInv == IInv /\ [Next]_vars => IInv'
<1> SUFFICES ASSUME IInv, [Next]_vars PROVE IInv'
  OBVIOUS
<1>0. TypeOK'
  BY StepType DEF IInv
<1>1. CASE Begin \/ Work
  <2>1. /\ node \in {"start", "work"} /\ node' \in {"work", "gate"}
        /\ proc = "running" /\ UNCHANGED process
    BY <1>1 DEF Begin, Work, process
  <2>2. at' = "enter" /\ proc' = "running" /\ ~waiting /\ ~waiting'
    BY <1>1, <2>1 DEF IInv, GateInProgress, EndIsSettled, TypeOK, process, Begin, Work
  <2> QED
    BY <1>0, <2>1, <2>2 DEF IInv, GateInProgress, GateCommitted, EndIsSettled,
       LastRowIsDecision, ForwardNeedsConsent, EndedRunIsMirrored
<1>2. CASE Ask \/ Interrupt \/ Answered \/ Unasked \/ UpdateStatus
  BY <1>0, <1>2, GateStepIInv
<1>3. CASE CommitGate
  BY <1>0, <1>3, CommitIInv
<1>4. CASE Route
  BY <1>0, <1>4, RouteIInv
<1>5. CASE Return \/ Crash \/ Resume
  BY <1>0, <1>5, ProcessStepIInv
<1>6. CASE UNCHANGED vars
  BY <1>0, <1>6 DEF vars, checkpoint, process, repository, IInv, GateInProgress,
     GateCommitted, EndIsSettled, LastRowIsDecision, ForwardNeedsConsent,
     EndedRunIsMirrored, NeedsAnswer, PolicyDecision, RowOfDecision, Failed
<1> QED
  BY <1>1, <1>2, <1>3, <1>4, <1>5, <1>6 DEF Next, Step

(* What gate_node has written, what it has committed and what routing ends   *)
(* with belong together at every point a process can die.                    *)
THEOREM MasterInvariant == Spec => []IInv
<1>1. IInv /\ [Next]_vars => IInv'
  BY StepIInv
<1> QED
  BY InitIInv, <1>1, PTL DEF Spec

(* Nothing passes a gate without consent, across crashes and resumptions.    *)
THEOREM ForwardNeedsConsentHolds == Spec => []ForwardNeedsConsent
<1>1. IInv => ForwardNeedsConsent
  BY DEF IInv
<1> QED
  BY MasterInvariant, <1>1, PTL

(* The run acts on the decision its history ends with.                       *)
THEOREM LastRowIsDecisionHolds == Spec => []LastRowIsDecision
<1>1. IInv => LastRowIsDecision
  BY DEF IInv
<1> QED
  BY MasterInvariant, <1>1, PTL

(* A run a gate has ended is never shown as anything else.                   *)
THEOREM EndedRunIsMirroredHolds == Spec => []EndedRunIsMirrored
<1>1. IInv => EndedRunIsMirrored
  BY DEF IInv
<1> QED
  BY MasterInvariant, <1>1, PTL

-----------------------------------------------------------------------------
(* The run implements Pipeline.                                              *)

LEMMA InitImplements == Init => P!Init
BY DEF Init, P!Init, Outcome, Phases, P!Phases, FirstPhase, P!FirstPhase

(* The route node, where the two functions meet. *)
LEMMA RouteImplements == ASSUME IInv, Route PROVE P!Next
<1> USE DEF IInv, P!Next
<1>1. /\ Outcome = "running" /\ phase \in Phases
      /\ status' = StatusUpdated /\ retries' = RetriesUpdated /\ hops' = HopsUpdated
  BY DEF Route, Outcome, TypeOK
<1>2. CASE node' = "end"
  <2>1. phase' = phase /\ status' \in {"completed", "blocked"}
    BY <1>2, RouteEnds
  <2>2. UNCHANGED <<retries, hops>>
    <3>1. CASE Stops
      BY <1>1, <3>1 DEF RetriesUpdated, HopsUpdated
    <3>2. CASE ~Stops
      <4>1. StatusUpdated \notin {"blocked", "awaiting_approval"}
        BY <1>1, <2>1, <3>2 DEF StatusUpdated, Stops
      <4>2. NextRoute(StatusUpdated) = "end"
        BY <1>2, RouteFacts DEF Route
      <4>3. ~Failed /\ ~Regressed
        BY <1>1, <4>1, <4>2, PhaseFacts DEF NextRoute, Regressed, TypeOK
      <4> QED
        BY <1>1, <4>3 DEF RetriesUpdated, HopsUpdated
    <3> QED
      BY <3>1, <3>2
  <2>3. CASE status' = "completed"
    <3>1. P!Finish
      BY <1>1, <1>2, <2>1, <2>2, <2>3, RouteEnds
         DEF P!Finish, Outcome, LastPhase, P!LastPhase
    <3> QED
      BY <3>1
  <2>4. CASE status' = "blocked"
    <3>1. P!Stop
      BY <1>1, <1>2, <2>1, <2>2, <2>4 DEF P!Stop, Outcome
    <3> QED
      BY <3>1
  <2> QED
    BY <2>1, <2>3, <2>4
<1>3. CASE node' # "end"
  <2>1. Outcome' = "running" /\ NextRoute(StatusUpdated) # "end"
        /\ phase' = NextRoute(StatusUpdated)
    BY <1>3 DEF Outcome, Route
  <2>2. ~Stops /\ StatusUpdated # "blocked"
    BY <2>1 DEF NextRoute, StatusUpdated
  <2>3. CASE Failed
    <3>1. /\ phase' = phase /\ hops' = hops /\ retries[phase] < MaxRetries
          /\ retries' = [retries EXCEPT ![phase] = @ + 1]
      BY <1>1, <2>1, <2>2, <2>3, LimitFacts
         DEF NextRoute, RetriesUpdated, HopsUpdated, Regressed, Failed, Stops, TypeOK
    <3>2. P!Retry
      BY <1>1, <2>1, <3>1 DEF P!Retry
    <3> QED
      BY <3>2
  <2>4. CASE ~Failed /\ Regressed
    <3>1. /\ phase' = target /\ hops' = hops + 1 /\ retries' = retries
          /\ hops < MaxHops /\ phase = "test_eval" /\ target \in TriageTargets
      BY <1>1, <2>1, <2>2, <2>4, LimitFacts
         DEF NextRoute, RetriesUpdated, HopsUpdated, Regressed, Stops, TypeOK
    <3>2. P!Hop
      BY <1>1, <2>1, <3>1 DEF P!Hop, TriageTargets, P!TriageTargets
    <3> QED
      BY <3>2
  <2>5. CASE ~Failed /\ ~Regressed
    <3>1. /\ phase # LastPhase /\ phase' = NextPhase(phase)
          /\ retries' = retries /\ hops' = hops
      BY <1>1, <2>1, <2>2, <2>5 DEF NextRoute, RetriesUpdated, HopsUpdated
    <3>2. P!Advance
      BY <1>1, <2>1, <3>1
         DEF P!Advance, LastPhase, P!LastPhase, NextPhase, P!NextPhase
    <3> QED
      BY <3>2
  <2> QED
    BY <2>3, <2>4, <2>5
<1> QED
  BY <1>2, <1>3

(* Everything else is invisible: the gate commits a status that Pipeline does*)
(* not look at while the run goes on.                                        *)
LEMMA InvisibleStep ==
    ASSUME UNCHANGED <<phase, retries, hops>>,
           UNCHANGED <<node, status>> \/ (node # "end" /\ node' # "end")
    PROVE  UNCHANGED P!vars
BY DEF P!vars, Outcome

LEMMA StepImplements == IInv /\ [Next]_vars => [P!Next]_P!vars
<1> SUFFICES ASSUME IInv, [Next]_vars PROVE P!Next \/ UNCHANGED P!vars
  OBVIOUS
<1> USE DEF checkpoint
<1>1. CASE Begin \/ Work \/ CommitGate
  BY <1>1, InvisibleStep DEF Begin, Work, CommitGate, InGate
<1>2. CASE Ask \/ Interrupt \/ Answered \/ Unasked \/ UpdateStatus
  BY <1>2, InvisibleStep DEF Ask, Interrupt, Answered, Unasked, UpdateStatus, InGate
<1>3. CASE Route
  BY <1>3, RouteImplements
<1>4. CASE Return \/ Crash \/ Resume
  BY <1>4, InvisibleStep DEF Return, Crash, Resume
<1>5. CASE UNCHANGED vars
  BY <1>5, InvisibleStep DEF vars
<1> QED
  BY <1>1, <1>2, <1>3, <1>4, <1>5 DEF Next, Step

(* However often it dies and is resumed, a local run routes as promised.     *)
THEOREM MasterImplementsPipeline == Spec => ImplementsPipeline
BY InitImplements, MasterInvariant, StepImplements, PTL
   DEF Spec, ImplementsPipeline, P!Spec
=============================================================================
