-------------------------- MODULE RunWorkflowProofs --------------------------
(* Proofs about RunWorkflow, for any number of slots, reviewers, retries,    *)
(* hops, attempts and losses.                                                *)
EXTENDS RunWorkflow, FiniteSetTheorems, TLAPS

PP == INSTANCE PipelineProofs WITH outcome <- Outcome

-----------------------------------------------------------------------------
(* Lemmas on the operators the actions are made of.                          *)

LEMMA LimitFacts == MaxRetries \in Nat /\ MaxHops \in Nat /\ MaxAttempts \in Nat \ {0}
BY LimitsAssumption, WorkflowAssumption

LEMMA PhaseFacts ==
    /\ FirstPhase \in Phases
    /\ TriageTargets \subseteq Phases
    /\ \A p \in Phases : NextPhase(p) \in Phases
    /\ \A j \in Jobs : TargetsOf(j) \subseteq TriageTargets \cup {NoTarget}
<1>1. \A j \in Jobs : TargetsOf(j) \subseteq TriageTargets \cup {NoTarget}
  BY DEF TargetsOf, Jobs, Results
<1> QED
  BY <1>1 DEF FirstPhase, TriageTargets, Phases, NextPhase

LEMMA GateTypes ==
    \A p, overall, risk, n, auto :
        /\ RecordedDecision(overall, risk, n, auto) \in Decisions
        /\ \A d : GateStatus(p, overall, d) \in Statuses
<1> SUFFICES ASSUME NEW p, NEW overall, NEW risk, NEW n, NEW auto, NEW d
             PROVE  /\ RecordedDecision(overall, risk, n, auto) \in Decisions
                    /\ GateStatus(p, overall, d) \in Statuses
  OBVIOUS
<1>1. RecordedDecision(overall, risk, n, auto) \in Decisions
  BY DEF RecordedDecision, Decide, Decisions
<1>2. GateStatus(p, overall, d) \in Statuses
  BY DEF GateStatus, Statuses
<1> QED
  BY <1>1, <1>2

LEMMA SettledType == \A d : SettledStatus(d) \in Statuses
BY DEF SettledStatus, Statuses

LEMMA IdleType == NoResult \in Results /\ Idle \in Jobs /\ Idle.stage = "idle"
                  /\ Idle.known = {} /\ Idle.requests = 0
<1>1. NoResult \in Results
  BY DEF NoResult, Results, Decisions
<1> QED
  BY <1>1, LimitFacts, PhaseFacts DEF Idle, Jobs, Stages, Attempts, Statuses

(* What Dispatch gives a slot to do. *)
LEMMA NewJobTypes ==
    ASSUME TypeOK
    PROVE  PhaseJob \in Jobs /\ RecordJob \in Jobs
<1>1. Attempt(phase) \in Attempts
  BY LimitFacts DEF TypeOK, Attempt, Attempts
<1>2. Len(crs) \in 0..MaxHops
  BY LimitFacts DEF TypeOK
<1> QED
  BY <1>1, <1>2, IdleType DEF TypeOK, PhaseJob, RecordJob, Idle, Jobs, Stages

LEMMA KeyType == ASSUME TypeOK PROVE Key \in Keys /\ AwaitedKey \in Keys
BY LimitFacts, PhaseFacts DEF TypeOK, Key, AwaitedKey, Keys, Attempt, Attempts

LEMMA StoredType == ASSUME TypeOK PROVE Stored \subseteq RequestIds
BY DEF TypeOK, Stored

-----------------------------------------------------------------------------
(* Type correctness.                                                         *)

LEMMA InitType == Init => TypeOK
<1> SUFFICES ASSUME Init PROVE TypeOK
  OBVIOUS
<1> USE DEF Init
<1>1. /\ request \in [auto : AutoModes, risk : RiskLevels]
      /\ pc \in PCs /\ phase \in Phases /\ status \in Statuses
      /\ retries \in [Phases -> 0..MaxRetries] /\ hops \in 0..MaxHops
  BY LimitFacts, PhaseFacts DEF PCs, Statuses
<1>2. /\ crs \in Seq(TriageTargets) /\ Len(crs) = hops /\ result \in Results
      /\ approvals \in [Keys -> Answers] /\ owner \in Workers \cup {NoWorker}
      /\ tries \in 1..MaxAttempts /\ job \in [Workers -> Jobs]
  BY LimitFacts, IdleType DEF Answers
<1>3. /\ row \in [status : Statuses, phase : Phases]
      /\ crRows \in Seq(RequestIds) /\ gateRows \in [Keys -> Nat]
      /\ looked \in [Reviewers -> Keys \cup {NoKey}]
  BY PhaseFacts DEF Statuses
<1>4. rowLate \in BOOLEAN
  OBVIOUS
<1>5. /\ queries \in 0..MaxQueries /\ lost \in 0..MaxLost /\ overtaken \in 0..lost
      /\ consent \in Answers /\ spent \subseteq Keys /\ verified \subseteq Phases
  BY WorkflowAssumption DEF Answers
<1> QED
  BY <1>1, <1>2, <1>3, <1>4, <1>5 DEF TypeOK

(* A slot at work: ReadRun, StoreRequest, RunGraph, WriteStatus, Discard, and*)
(* the two ways it is interrupted or given work.                             *)
LEMMA SlotStepType ==
    ASSUME TypeOK, NEW w \in Workers,
           WorkerStep(w) \/ Crash(w) \/ Dispatch(w)
    PROVE  TypeOK'
<1> USE DEF control, activity, database, clients, history, losses
<1>0. /\ UNCHANGED <<control, approvals, tries, clients, history>>
      /\ job[w] \in Jobs
  BY DEF TypeOK, WorkerStep, ReadRun, StoreRequest, RunGraph, WriteStatus,
         Discard, Crash, Dispatch
<1>1. CASE ReadRun(w)
  <2> DEFINE j == [job[w] EXCEPT !.stage = "store", !.known = Stored,
                                 !.result.target = triage]
  <2>1. j \in Jobs
    <3>1. [job[w].result EXCEPT !.target = triage] \in Results
      BY <1>0 DEF TypeOK, Jobs, Results
    <3> QED
      BY <1>0, <3>1, StoredType DEF Jobs, Stages
  <2>2. job' = [job EXCEPT ![w] = j]
    BY <1>0, <1>1 DEF ReadRun, TypeOK, Jobs
  <2>3. job' \in [Workers -> Jobs]
    BY <2>1, <2>2 DEF TypeOK
  <2> QED
    BY <1>0, <1>1, <2>3 DEF ReadRun, TypeOK
<1>2. CASE StoreRequest(w)
  <2>1. PICK id \in Unrecorded(job[w]) :
          /\ crRows' = Append(crRows, id)
          /\ job' = [job EXCEPT ![w].known = @ \cup {id}]
    BY <1>2 DEF StoreRequest
  <2>2. id \in RequestIds
    BY <1>0, LimitFacts DEF Unrecorded, Jobs, RequestIds
  <2>3. job' \in [Workers -> Jobs]
    BY <2>1, <2>2 DEF TypeOK, Jobs
  <2>4. crRows' \in Seq(RequestIds)
    BY <2>1, <2>2 DEF TypeOK
  <2> QED
    BY <1>0, <1>2, <2>3, <2>4 DEF StoreRequest, TypeOK
<1>3. CASE RunGraph(w)
  <2>1. PICK overall \in Overalls[job[w].phase], target \in TargetsOf(job[w]),
             decision \in Decisions :
          job' = [job EXCEPT
            ![w].stage = "status",
            ![w].status = GateStatus(job[w].phase, overall, decision),
            ![w].result = [overall |-> overall, target |-> target,
                           decision |-> decision]]
    BY <1>3, GateTypes DEF RunGraph
  <2>2. overall \in Nat /\ target \in TriageTargets \cup {NoTarget}
    BY <1>0, WorkflowAssumption, PhaseFacts DEF Jobs
  <2>3. [overall |-> overall, target |-> target, decision |-> decision] \in Results
    BY <2>2 DEF Results
  <2> DEFINE j == [job[w] EXCEPT
                     !.stage = "status",
                     !.status = GateStatus(job[w].phase, overall, decision),
                     !.result = [overall |-> overall, target |-> target,
                                 decision |-> decision]]
  <2>4. j \in Jobs
    <3>1. GateStatus(job[w].phase, overall, decision) \in Statuses
      BY GateTypes
    <3> QED
      BY <1>0, <2>3, <3>1 DEF Jobs, Stages
  <2>5. job' = [job EXCEPT ![w] = j]
    BY <1>0, <2>1 DEF TypeOK, Jobs
  <2>6. job' \in [Workers -> Jobs]
    BY <2>4, <2>5 DEF TypeOK
  <2>7. gateRows' \in [Keys -> Nat]
    BY <1>0, <1>3 DEF RunGraph, WithGateRow, TypeOK, Jobs, Keys
  <2>8. triage' \in TriageTargets \cup {NoTarget}
    BY <1>0, <1>3, PhaseFacts DEF RunGraph, TypeOK
  <2> QED
    BY <1>0, <1>3, <2>6, <2>7, <2>8 DEF RunGraph, TypeOK
<1>4. CASE WriteStatus(w)
  <2> DEFINE next == IF job[w].stage = "status" THEN "write" ELSE "return"
             j == [job[w] EXCEPT !.stage = next]
  <2>1. job' \in [Workers -> Jobs]
    <3>1. job' = [job EXCEPT ![w] = j]
      BY <1>0, <1>4 DEF WriteStatus, TypeOK, Jobs
    <3>2. j \in Jobs
      BY <1>0 DEF Jobs, Stages
    <3> QED
      BY <3>1, <3>2 DEF TypeOK
  <2>2. row' \in [status : Statuses, phase : Phases]
    BY <1>0, <1>4 DEF WriteStatus, Jobs
  <2> QED
    BY <1>0, <1>4, <2>1, <2>2 DEF WriteStatus, TypeOK
<1>5. CASE Discard(w)
  BY <1>0, <1>5, IdleType DEF Discard, TypeOK
<1>6. CASE Crash(w)
  <2>1. lost' \in 0..MaxLost /\ overtaken' \in 0..lost'
    BY <1>6, WorkflowAssumption DEF Crash, TypeOK
  <2> QED
    BY <1>0, <1>6, <2>1, IdleType DEF Crash, TypeOK
<1>7. CASE Dispatch(w)
  BY <1>0, <1>7, NewJobTypes DEF Dispatch, TypeOK
<1> QED
  BY <1>1, <1>2, <1>3, <1>4, <1>5, <1>6, <1>7 DEF WorkerStep

(* Completes, GiveUp and the actions of the workflow and of _route.          *)
LEMMA CompletesType ==
    ASSUME TypeOK, NEW w \in Workers, Completes(w)
    PROVE  /\ owner' \in Workers \cup {NoWorker}
           /\ tries' \in 1..MaxAttempts
           /\ job' \in [Workers -> Jobs]
           /\ job[w].result \in Results
BY LimitFacts, IdleType DEF TypeOK, Completes, Jobs

LEMMA GiveUpType ==
    ASSUME TypeOK, GiveUp, lost' \in 0..MaxLost, overtaken' \in 0..lost'
    PROVE  TypeOK'
<1>1. owner' \in Workers \cup {NoWorker} /\ tries' \in 1..MaxAttempts /\ pc' \in PCs
  BY LimitFacts DEF GiveUp, TypeOK, PCs
<1> QED
  BY <1>1 DEF GiveUp, TypeOK, database, clients, history, losses

LEMMA WorkflowStepType ==
    ASSUME TypeOK,
           \/ \E w \in Workers : ReturnPhase(w) \/ AwaitApproval(w)
           \/ NoticeLoss \/ Timeout \/ Resume \/ ApprovalTimeout
    PROVE  TypeOK'
<1> USE DEF activity, database, clients, history, losses
<1>1. ASSUME NEW w \in Workers, ReturnPhase(w) PROVE TypeOK'
  <2>1. Completes(w)
    BY <1>1 DEF ReturnPhase
  <2>2. status' \in Statuses /\ result' \in Results /\ pc' \in PCs
    BY <1>1, <2>1, CompletesType, SettledType DEF ReturnPhase, PCs
  <2> QED
    BY <1>1, <2>1, <2>2, CompletesType DEF ReturnPhase, TypeOK
<1>2. ASSUME NEW w \in Workers, AwaitApproval(w) PROVE TypeOK'
  <2>1. Completes(w) /\ pc' \in PCs
    BY <1>2 DEF AwaitApproval, PCs
  <2> QED
    BY <1>2, <2>1, CompletesType DEF AwaitApproval, TypeOK
<1>3. CASE NoticeLoss
  BY <1>3, GiveUpType DEF NoticeLoss, TypeOK
<1>4. CASE Timeout
  <2>1. lost' \in 0..MaxLost /\ overtaken' \in 0..lost'
    BY <1>4, WorkflowAssumption DEF Timeout, TypeOK
  <2> QED
    BY <1>4, <2>1, GiveUpType DEF Timeout
<1>5. CASE Resume
  <2>1. consent' \in Answers /\ spent' \subseteq Keys
    BY <1>5, KeyType DEF Resume, TypeOK
  <2>2. status' \in Statuses /\ result' \in Results /\ pc' \in PCs
    BY <1>5 DEF Resume, TypeOK, Results, Decisions, Statuses, PCs
  <2> QED
    BY <1>5, <2>1, <2>2 DEF Resume, TypeOK
<1>6. CASE ApprovalTimeout
  <2>1. status' \in Statuses /\ result' \in Results /\ pc' \in PCs
    BY <1>6 DEF ApprovalTimeout, TypeOK, Results, Decisions, Statuses, PCs
  <2> QED
    BY <1>6, <2>1 DEF ApprovalTimeout, TypeOK
<1> QED
  BY <1>1, <1>2, <1>3, <1>4, <1>5, <1>6

LEMMA RouteType ==
    ASSUME TypeOK, NEW w \in Workers, Route(w)
    PROVE  TypeOK'
<1> USE DEF database, clients, history, losses
<1>0. Completes(w)
  BY DEF Route, RouteBlocked, RouteRetry, RouteLimit, RouteHop, RouteNext,
         RouteEnd, Routes
<1>1. CASE RouteBlocked(w)
  <2>1. pc' \in PCs
    BY <1>1 DEF RouteBlocked, PCs
  <2> QED
    BY <1>0, <1>1, <2>1, CompletesType DEF RouteBlocked, TypeOK
<1>2. CASE RouteRetry(w)
  <2>1. retries' \in [Phases -> 0..MaxRetries] /\ pc' \in PCs
    BY <1>2, LimitFacts DEF RouteRetry, RetryCounted, TypeOK, PCs
  <2>2. result' \in Results /\ consent' \in Answers
    BY <1>2, IdleType DEF RouteRetry, Leave, Answers
  <2> QED
    BY <1>0, <1>2, <2>1, <2>2, CompletesType DEF RouteRetry, Routes, TypeOK
<1>3. CASE RouteLimit(w)
  <2>1. status' \in Statuses /\ pc' \in PCs
    BY <1>3 DEF RouteLimit, Statuses, PCs
  <2> QED
    BY <1>0, <1>3, <2>1, CompletesType DEF RouteLimit, Routes, TypeOK
<1>4. CASE RouteHop(w)
  <2>1. result.target \in TriageTargets
    BY <1>4 DEF RouteHop, TriageAsks, TypeOK, Results
  <2>2. /\ crs' \in Seq(TriageTargets) /\ Len(crs') = hops'
        /\ hops' \in 0..MaxHops
    BY <1>4, <2>1, LimitFacts DEF RouteHop, HopCounted, HopsLeft, TypeOK
  <2>3. phase' \in Phases /\ verified' \subseteq Phases /\ pc' \in PCs
    BY <1>4, <2>1, PhaseFacts DEF RouteHop, TypeOK, PCs
  <2>4. result' \in Results /\ consent' \in Answers
    BY <1>4, IdleType DEF RouteHop, Leave, Answers
  <2> QED
    BY <1>0, <1>4, <2>2, <2>3, <2>4, CompletesType DEF RouteHop, Routes, TypeOK
<1>5. CASE RouteNext(w)
  <2>1. phase' \in Phases /\ verified' \subseteq Phases /\ pc' \in PCs
    BY <1>5, PhaseFacts DEF RouteNext, TypeOK, PCs
  <2>2. result' \in Results /\ consent' \in Answers
    BY <1>5, IdleType DEF RouteNext, Leave, Answers
  <2> QED
    BY <1>0, <1>5, <2>1, <2>2, CompletesType DEF RouteNext, Routes, TypeOK
<1>6. CASE RouteEnd(w)
  <2>1. verified' \subseteq Phases /\ pc' \in PCs
    BY <1>6 DEF RouteEnd, TypeOK, PCs
  <2> QED
    BY <1>0, <1>6, <2>1, CompletesType DEF RouteEnd, Routes, TypeOK
<1> QED
  BY <1>1, <1>2, <1>3, <1>4, <1>5, <1>6 DEF Route

LEMMA ReviewerStepType ==
    ASSUME TypeOK, NEW r \in Reviewers, Look(r) \/ Answer(r)
    PROVE  TypeOK'
<1> USE DEF control, activity, database, history, losses
<1>1. CASE Look(r)
  <2>1. looked' \in [Reviewers -> Keys \cup {NoKey}] /\ queries' \in 0..MaxQueries
    BY <1>1, KeyType, WorkflowAssumption DEF Look, TypeOK
  <2> QED
    BY <1>1, <2>1 DEF Look, TypeOK
<1>2. CASE Answer(r)
  <2>1. /\ looked' \in [Reviewers -> Keys \cup {NoKey}]
        /\ approvals' \in [Keys -> Answers] /\ spent' \subseteq Keys
    BY <1>2 DEF Answer, TypeOK, Answers
  <2> QED
    BY <1>2, <2>1 DEF Answer, TypeOK
<1> QED
  BY <1>1, <1>2

LEMMA StepType == TypeOK /\ [Next]_vars => TypeOK'
<1> SUFFICES ASSUME TypeOK, [Next]_vars PROVE TypeOK'
  OBVIOUS
<1>1. CASE UNCHANGED vars
  BY <1>1 DEF vars, control, activity, database, clients, history, losses, TypeOK
<1>2. CASE Next
  BY <1>2, SlotStepType, WorkflowStepType, RouteType, ReviewerStepType
     DEF Next, WorkflowStep
<1> QED
  BY <1>1, <1>2

(* Counters stay within their limits, attempts and keys within theirs, and   *)
(* there is one change request for every hop.                                *)
THEOREM WorkflowTypeOK == Spec => []TypeOK
BY InitType, StepType, PTL DEF Spec

-----------------------------------------------------------------------------
(* The inductive invariant.  TypeOK alone does not see that the result the   *)
(* workflow acts on comes from a gate that was told the right number of      *)
(* retries, nor that the status fits that result; IInv adds both.            *)

(* When the gate decides by itself, and when it must block. *)
LEMMA GateFacts ==
    ASSUME NEW overall \in Nat, NEW risk, NEW n \in Nat, NEW auto \in BOOLEAN
    PROVE  /\ RecordedDecision(overall, risk, n, auto) = "auto" /\ ~auto
                 => risk = "low" /\ overall >= AutoMark
           /\ ~Passed(overall) /\ n = MaxRetries
                 => RecordedDecision(overall, risk, n, auto) = "block"
BY LimitFacts DEF RecordedDecision, Decide

LEMMA SettledFacts ==
    ASSUME NEW d \in Decisions
    PROVE  /\ d = "block" <=> SettledStatus(d) = "blocked"
           /\ SettledStatus(d) \in {"running", "completed"} =>
                 /\ SettledStatus(d) = IF phase = LastPhase THEN "completed" ELSE "running"
                 /\ d = "auto" \/ request.auto
<1>1. CASE d = "block"
  <2>1. SettledStatus(d) = "blocked"
    BY <1>1 DEF SettledStatus
  <2> QED
    BY <1>1, <2>1
<1>2. CASE d # "block" /\ (d = "auto" \/ request.auto)
  <2>1. SettledStatus(d) = IF phase = LastPhase THEN "completed" ELSE "running"
    BY <1>2 DEF SettledStatus
  <2> QED
    BY <1>2, <2>1
<1>3. CASE d # "block" /\ ~(d = "auto" \/ request.auto)
  <2>1. SettledStatus(d) = "awaiting_approval"
    BY <1>3 DEF SettledStatus
  <2> QED
    BY <1>3, <2>1
<1> QED
  BY <1>1, <1>2, <1>3

LEMMA InitIInv == Init => IInv
<1> SUFFICES ASSUME Init PROVE IInv
  OBVIOUS
<1>1. AttemptIsCurrent
  BY WorkflowAssumption DEF Init, AttemptIsCurrent
<1>2. StatusFitsResult /\ GateSpendsRetries /\ ConsentGiven
  BY DEF Init, StatusFitsResult, GateSpendsRetries, ConsentGiven
<1>3. PrefixVerified
  BY DEF Init, PrefixVerified, Before, Position, Phases, FirstPhase
<1>4. KnownIsStored
  BY IdleType DEF Init, KnownIsStored
<1> QED
  BY <1>1, <1>2, <1>3, <1>4, InitType DEF IInv

(* Nobody is waited for, so there is no attempt to be current. *)
LEMMA NoOwner ==
    ASSUME owner' = NoWorker \/ pc' # "activity"
    PROVE  AttemptIsCurrent'
BY WorkflowAssumption DEF AttemptIsCurrent

(* What is stored stays stored. *)
LEMMA StoredGrows ==
    ASSUME TypeOK, crRows' = crRows \/ \E id : crRows' = Append(crRows, id)
    PROVE  Stored \subseteq Stored'
<1>1. CASE crRows' = crRows
  BY <1>1 DEF Stored
<1>2. ASSUME NEW id, crRows' = Append(crRows, id) PROVE Stored \subseteq Stored'
  <2>1. /\ Len(crRows') = Len(crRows) + 1
        /\ \A i \in 1..Len(crRows) : crRows'[i] = crRows[i]
        /\ Len(crRows) \in Nat
    BY <1>2 DEF TypeOK
  <2> QED
    BY <2>1 DEF Stored
<1> QED
  BY <1>1, <1>2

(* Slots that keep their job, or are emptied, keep to KnownIsStored. *)
LEMMA OneSlotChanges ==
    ASSUME TypeOK, KnownIsStored, NEW w \in Workers, NEW j,
           job' = [job EXCEPT ![w] = j],
           Stored \subseteq Stored',
           j.known \subseteq Stored',
           j.stage \in {"status", "write", "return"} => 1..j.requests \subseteq Stored'
    PROVE  KnownIsStored'
<1> SUFFICES ASSUME NEW v \in Workers
             PROVE  /\ job'[v].known \subseteq Stored'
                    /\ job'[v].stage \in {"status", "write", "return"} =>
                          1..job'[v].requests \subseteq Stored'
  BY DEF KnownIsStored
<1>1. CASE v = w
  BY <1>1 DEF TypeOK
<1>2. CASE v # w
  <2>1. job'[v] = job[v]
    BY <1>2 DEF TypeOK
  <2> QED
    BY <2>1 DEF KnownIsStored
<1> QED
  BY <1>1, <1>2

(* Steps of a slot leave the workflow's own state alone, so they can disturb *)
(* only what is said about attempts.                                         *)
LEMMA SlotFrame ==
    ASSUME IInv, UNCHANGED <<control, history>>
    PROVE  StatusFitsResult' /\ GateSpendsRetries' /\ ConsentGiven' /\ PrefixVerified'
<1> USE DEF IInv, control, history, losses
<1>1. StatusFitsResult'
  BY DEF StatusFitsResult
<1>2. GateSpendsRetries'
  BY DEF GateSpendsRetries
<1>3. ConsentGiven'
  BY DEF ConsentGiven
<1>4. PrefixVerified'
  BY DEF PrefixVerified
<1> QED
  BY <1>1, <1>2, <1>3, <1>4

LEMMA SlotTypes ==
    ASSUME TypeOK, NEW w \in Workers
    PROVE  /\ job[w] \in Jobs
           /\ Attempt(phase) \in Attempts
           /\ retries[phase] \in 0..MaxRetries
BY LimitFacts DEF TypeOK, Attempt, Attempts

LEMMA SlotStepIInv ==
    ASSUME IInv, TypeOK', NEW w \in Workers,
           WorkerStep(w) \/ Crash(w) \/ Dispatch(w)
    PROVE  IInv'
<1> USE DEF IInv
<1>0. UNCHANGED <<control, history>>
  BY DEF WorkerStep, ReadRun, StoreRequest, RunGraph, WriteStatus,
         Discard, Crash, Dispatch, control
<1>1. StatusFitsResult' /\ GateSpendsRetries' /\ ConsentGiven' /\ PrefixVerified'
  BY <1>0, SlotFrame
<1>2. job[w] \in Jobs /\ Attempt(phase) \in Attempts /\ retries[phase] \in 0..MaxRetries
  BY SlotTypes
<1>3. Stored \subseteq Stored'
  BY StoredGrows DEF WorkerStep, ReadRun, StoreRequest, RunGraph, WriteStatus,
         Discard, Crash, Dispatch, database
<1>4. CASE ReadRun(w)
  <2> DEFINE j == [job[w] EXCEPT !.stage = "store", !.known = Stored,
                                 !.result.target = triage]
  <2>1. /\ job' = [job EXCEPT ![w] = j]
        /\ j.stage = "store" /\ j.known = Stored
        /\ j.phase = job[w].phase /\ j.attempt = job[w].attempt
    BY <1>2, <1>4 DEF ReadRun, TypeOK, Jobs
  <2>2. KnownIsStored'
    BY <2>1, <1>3, OneSlotChanges
  <2>3. AttemptIsCurrent'
    BY <1>0, <1>4, <2>1 DEF ReadRun, AttemptIsCurrent, control, TypeOK, Attempt
  <2> QED
    BY <1>1, <2>2, <2>3
<1>5. CASE StoreRequest(w)
  <2>1. PICK id \in Unrecorded(job[w]) :
          /\ crRows' = Append(crRows, id)
          /\ job' = [job EXCEPT ![w].known = @ \cup {id}]
    BY <1>5 DEF StoreRequest
  <2> DEFINE j == [job[w] EXCEPT !.known = @ \cup {id}]
  <2>2. /\ job' = [job EXCEPT ![w] = j]
        /\ j.stage = "store" /\ j.known = job[w].known \cup {id}
        /\ j.phase = job[w].phase /\ j.attempt = job[w].attempt
    BY <1>2, <1>5, <2>1 DEF StoreRequest, TypeOK, Jobs
  <2>3. id \in Stored'
    <3>1. Len(crRows') = Len(crRows) + 1 /\ crRows'[Len(crRows')] = id /\ Len(crRows) \in Nat
      BY <2>1 DEF TypeOK
    <3> QED
      BY <3>1 DEF Stored
  <2>4. KnownIsStored'
    BY <2>2, <2>3, <1>3, OneSlotChanges DEF KnownIsStored
  <2>5. AttemptIsCurrent'
    BY <1>0, <1>5, <2>2 DEF StoreRequest, AttemptIsCurrent, control, TypeOK, Attempt
  <2> QED
    BY <1>1, <2>4, <2>5
<1>6. CASE RunGraph(w)
  <2>1. PICK overall \in Overalls[job[w].phase], target \in TargetsOf(job[w]) :
          LET d == RecordedDecision(overall, request.risk, GateRetries(job[w]), request.auto)
          IN  job' = [job EXCEPT
                ![w].stage = "status",
                ![w].status = GateStatus(job[w].phase, overall, d),
                ![w].result = [overall |-> overall, target |-> target,
                               decision |-> d]]
    BY <1>6 DEF RunGraph
  <2> DEFINE d == RecordedDecision(overall, request.risk, GateRetries(job[w]), request.auto)
             res == [overall |-> overall, target |-> target, decision |-> d]
             j == [job[w] EXCEPT
                     !.stage = "status",
                     !.status = GateStatus(job[w].phase, overall, d),
                     !.result = res]
  <2>2. /\ job' = [job EXCEPT ![w] = j]
        /\ j.stage = "status" /\ j.known = job[w].known /\ j.result = res
        /\ j.phase = job[w].phase /\ j.attempt = job[w].attempt
        /\ j.requests = job[w].requests
    BY <1>2, <2>1 DEF TypeOK, Jobs
  <2>3. 1..job[w].requests \subseteq job[w].known
    BY <1>6 DEF RunGraph, Unrecorded
  <2>4. KnownIsStored'
    BY <2>2, <2>3, <1>3, OneSlotChanges DEF KnownIsStored
  <2>5. job'[w].result.decision = d /\ job'[w].result.overall = overall
    BY <2>2 DEF TypeOK
  <2>6. ASSUME owner = w, pc = "activity"
        PROVE  /\ job[w].phase = phase /\ job[w].attempt = Attempt(phase)
               /\ GateRetries(job[w]) = retries[phase]
    BY <1>2, <1>6, <2>6 DEF RunGraph, AttemptIsCurrent, GateRetries, Attempt
  <2>7. AttemptIsCurrent'
    <3>1. SUFFICES ASSUME owner = w, pc = "activity"
                   PROVE  /\ job'[w].phase = phase
                          /\ job'[w].attempt = Attempt(phase)
                          /\ job'[w].result.decision =
                                RecordedDecision(job'[w].result.overall, request.risk,
                                                 retries[phase], request.auto)
      BY <1>0, <1>6, <2>2 DEF RunGraph, AttemptIsCurrent, control, TypeOK, Attempt
    <3>2. job'[w].phase = phase /\ job'[w].attempt = Attempt(phase)
      BY <2>2, <2>6, <3>1 DEF TypeOK
    <3> QED
      BY <2>5, <2>6, <3>1, <3>2
  <2> QED
    BY <1>1, <2>4, <2>7
<1>7. CASE WriteStatus(w)
  <2> DEFINE next == IF job[w].stage = "status" THEN "write" ELSE "return"
             j == [job[w] EXCEPT !.stage = next]
  <2>1. /\ job' = [job EXCEPT ![w] = j]
        /\ j.known = job[w].known /\ j.result = job[w].result
        /\ j.phase = job[w].phase /\ j.attempt = job[w].attempt
        /\ j.requests = job[w].requests
    BY <1>2, <1>7 DEF WriteStatus, TypeOK, Jobs
  <2>2. 1..job[w].requests \subseteq Stored /\ job[w].known \subseteq Stored
    BY <1>7 DEF KnownIsStored, WriteStatus
  <2>3. KnownIsStored'
    BY <2>1, <2>2, <1>3, OneSlotChanges
  <2>4. AttemptIsCurrent'
    BY <1>0, <1>7, <2>1 DEF WriteStatus, AttemptIsCurrent, control, TypeOK, Attempt
  <2> QED
    BY <1>1, <2>3, <2>4
<1>8. CASE Discard(w) \/ Crash(w)
  <2>1. job' = [job EXCEPT ![w] = Idle]
    BY <1>8 DEF Discard, Crash
  <2>2. KnownIsStored'
    BY <2>1, <1>3, IdleType, OneSlotChanges
  <2>3. AttemptIsCurrent'
    BY <1>0, <1>8, <2>1, IdleType DEF Discard, Crash, AttemptIsCurrent, control, TypeOK, Attempt
  <2> QED
    BY <1>1, <2>2, <2>3
<1>9. CASE Dispatch(w)
  <2> DEFINE j == IF pc = "activity" THEN PhaseJob ELSE RecordJob
  <2>1. job' = [job EXCEPT ![w] = j] /\ owner' = w
    BY <1>9 DEF Dispatch
  <2>2. /\ PhaseJob.stage = "read" /\ PhaseJob.phase = phase
        /\ PhaseJob.attempt = Attempt(phase) /\ PhaseJob.known = {}
        /\ RecordJob.stage = "write" /\ RecordJob.known = {} /\ RecordJob.requests = 0
    BY DEF PhaseJob, RecordJob, Idle
  <2>3. KnownIsStored'
    <3>1. j.known = {} /\ (j.stage = "read" \/ j.requests = 0)
      BY <2>2
    <3>2. j.stage \in {"status", "write", "return"} => 1..j.requests = {}
      <4>1. CASE j.stage = "read"
        BY <4>1
      <4>2. CASE j.requests = 0
        BY <4>2
      <4> QED
        BY <3>1, <4>1, <4>2
    <3> HIDE DEF j
    <3> QED
      BY <2>1, <3>1, <3>2, <1>3, OneSlotChanges
  <2>4. AttemptIsCurrent'
    BY <1>0, <2>1, <2>2 DEF AttemptIsCurrent, control, TypeOK, Attempt
  <2> QED
    BY <1>1, <2>3, <2>4
<1> QED
  BY <1>4, <1>5, <1>6, <1>7, <1>8, <1>9 DEF WorkerStep

(* The workflow's steps take no new work, store nothing, and at most empty a *)
(* slot; after each of them nobody is waited for, or no phase is run.        *)
LEMMA WorkflowFrame ==
    ASSUME IInv, crRows' = crRows,
           \/ job' = job
           \/ \E w \in Workers : job' = [job EXCEPT ![w] = Idle]
    PROVE  KnownIsStored'
<1> USE DEF IInv
<1>1. Stored' = Stored
  BY DEF Stored
<1>2. CASE job' = job
  BY <1>1, <1>2 DEF KnownIsStored
<1>3. ASSUME NEW w \in Workers, job' = [job EXCEPT ![w] = Idle] PROVE KnownIsStored'
  BY <1>1, <1>3, IdleType, OneSlotChanges
<1> QED
  BY <1>2, <1>3

(* run_phase returned: its decision is the gate's, so it fits the retries    *)
(* spent, and what _gate makes of it fits the decision.                      *)
LEMMA ReturnPhaseIInv ==
    ASSUME IInv, TypeOK', NEW w \in Workers, ReturnPhase(w)
    PROVE  IInv'
<1> USE DEF IInv
<1> DEFINE r == job[w].result
<1>1. /\ pc = "activity" /\ pc' = "record" /\ owner = w /\ job[w].stage = "return"
      /\ result' = r /\ status' = SettledStatus(r.decision)
      /\ job' = [job EXCEPT ![w] = Idle] /\ owner' = NoWorker
      /\ UNCHANGED <<request, phase, retries, crRows, consent, verified>>
  BY DEF ReturnPhase, Completes, database, history, losses
<1>2. /\ r.overall \in Nat /\ r.decision \in Decisions /\ request.auto \in BOOLEAN
      /\ retries[phase] \in Nat
  <2>1. r \in Results
    BY DEF TypeOK, Jobs
  <2>2. r.overall \in Nat /\ r.decision \in Decisions
    BY <2>1 DEF Results
  <2>3. request.auto \in BOOLEAN
    BY WorkflowAssumption DEF TypeOK
  <2>4. retries[phase] \in Nat
    BY LimitFacts DEF TypeOK
  <2> QED
    BY <2>2, <2>3, <2>4
<1>3. r.decision = RecordedDecision(r.overall, request.risk, retries[phase], request.auto)
  BY <1>1 DEF AttemptIsCurrent
<1>4. AttemptIsCurrent' /\ KnownIsStored' /\ PrefixVerified'
  BY <1>1, NoOwner, WorkflowFrame DEF PrefixVerified
<1>5. StatusFitsResult'
  BY <1>1, <1>2, SettledFacts DEF StatusFitsResult
<1>6. GateSpendsRetries'
  <2>1. SUFFICES ASSUME ~Passed(r.overall), retries[phase] = MaxRetries
                 PROVE  status' = "blocked"
    BY <1>1 DEF GateSpendsRetries
  <2>2. r.decision = "block"
    BY <1>2, <1>3, <2>1, GateFacts
  <2> QED
    BY <1>1, <1>2, <2>2, SettledFacts
<1>7. ConsentGiven'
  <2>1. SUFFICES ASSUME SettledStatus(r.decision) \in {"running", "completed"},
                        ~request.auto
                 PROVE  request.risk = "low" /\ r.overall >= AutoMark
    BY <1>1 DEF ConsentGiven
  <2>2. r.decision = "auto"
    BY <1>2, <2>1, SettledFacts
  <2>3. RecordedDecision(r.overall, request.risk, retries[phase], request.auto) = "auto"
    BY <1>3, <2>2
  <2> HIDE DEF r
  <2> QED
    BY <1>2, <2>1, <2>3, GateFacts
<1> QED
  BY <1>4, <1>5, <1>6, <1>7

LEMMA WaitStepIInv ==
    ASSUME IInv, TypeOK',
           \/ \E w \in Workers : AwaitApproval(w)
           \/ NoticeLoss \/ Timeout \/ Resume \/ ApprovalTimeout
    PROVE  IInv'
<1> USE DEF IInv, activity, database, history, losses
<1>1. ASSUME NEW w \in Workers, AwaitApproval(w) PROVE IInv'
  <2>1. AttemptIsCurrent' /\ KnownIsStored'
    BY <1>1, NoOwner, WorkflowFrame DEF AwaitApproval, Completes
  <2>2. StatusFitsResult' /\ GateSpendsRetries'
    BY <1>1 DEF AwaitApproval, StatusFitsResult, GateSpendsRetries
  <2>3. ConsentGiven' /\ PrefixVerified'
    BY <1>1 DEF AwaitApproval, ConsentGiven, PrefixVerified
  <2> QED
    BY <2>1, <2>2, <2>3
<1>2. CASE NoticeLoss \/ Timeout
  <2>0. GiveUp
    BY <1>2 DEF NoticeLoss, Timeout
  <2>1. AttemptIsCurrent' /\ KnownIsStored'
    BY <2>0, NoOwner, WorkflowFrame DEF GiveUp
  <2>2. StatusFitsResult' /\ GateSpendsRetries'
    BY <2>0 DEF GiveUp, StatusFitsResult, GateSpendsRetries
  <2>3. ConsentGiven' /\ PrefixVerified'
    BY <2>0 DEF GiveUp, ConsentGiven, PrefixVerified
  <2> QED
    BY <2>1, <2>2, <2>3
<1>3. CASE Resume
  <2>0. /\ pc = "wait" /\ pc' = "record" /\ status = "awaiting_approval"
        /\ result.decision # "block"
    BY <1>3 DEF Resume, StatusFitsResult
  <2>1. AttemptIsCurrent' /\ KnownIsStored'
    BY <1>3, NoOwner, WorkflowFrame DEF Resume
  <2>2. StatusFitsResult'
    BY <1>3, <2>0 DEF Resume, StatusFitsResult, TypeOK, Results
  <2>3. GateSpendsRetries'
    BY <1>3, <2>0 DEF Resume, GateSpendsRetries, TypeOK, Results
  <2>4. ConsentGiven' /\ PrefixVerified'
    BY <1>3 DEF Resume, ConsentGiven, PrefixVerified
  <2> QED
    BY <2>1, <2>2, <2>3, <2>4
<1>4. CASE ApprovalTimeout
  <2>1. AttemptIsCurrent' /\ KnownIsStored'
    BY <1>4, NoOwner, WorkflowFrame DEF ApprovalTimeout
  <2>2. StatusFitsResult' /\ GateSpendsRetries'
    BY <1>4 DEF ApprovalTimeout, StatusFitsResult, GateSpendsRetries, TypeOK, Results
  <2>3. ConsentGiven' /\ PrefixVerified'
    BY <1>4 DEF ApprovalTimeout, ConsentGiven, PrefixVerified
  <2> QED
    BY <2>1, <2>2, <2>3
<1> QED
  BY <1>1, <1>2, <1>3, <1>4

(* What every branch of _route has in common: it leaves nobody waited for    *)
(* and no result to act on, so only PrefixVerified has to be looked at.      *)
LEMMA RouteFrame ==
    ASSUME IInv, NEW w \in Workers, Route(w)
    PROVE  /\ pc = "record" /\ pc' \in {"activity", "done"}
           /\ AttemptIsCurrent' /\ KnownIsStored'
           /\ StatusFitsResult' /\ GateSpendsRetries' /\ ConsentGiven'
<1>1. /\ pc = "record" /\ pc' \in {"activity", "done"}
      /\ owner' = NoWorker /\ crRows' = crRows
      /\ job' = [job EXCEPT ![w] = Idle]
  BY DEF Route, RouteBlocked, RouteRetry, RouteLimit, RouteHop, RouteNext,
         RouteEnd, Routes, Completes, database
<1>2. AttemptIsCurrent' /\ KnownIsStored'
  BY <1>1, NoOwner, WorkflowFrame
<1>3. StatusFitsResult' /\ GateSpendsRetries' /\ ConsentGiven'
  BY <1>1 DEF StatusFitsResult, GateSpendsRetries, ConsentGiven
<1> QED
  BY <1>1, <1>2, <1>3

(* Positions put a phase's predecessors in place for the next phase, and for *)
(* a triage target.                                                          *)
LEMMA BeforeFacts ==
    /\ \A p \in Phases : p # LastPhase => Before(NextPhase(p)) = Before(p) \cup {p}
    /\ \A t \in TriageTargets : Before(t) \subseteq Before("test_eval")
<1>1. /\ Before("requirements") = {}
      /\ Before("design") = {"requirements"}
      /\ Before("build") = {"requirements", "design"}
      /\ Before("test_eval") = {"requirements", "design", "build"}
      /\ Before("deploy") = {"requirements", "design", "build", "test_eval"}
  <2>1. /\ Position("requirements") = 1 /\ Position("design") = 2 /\ Position("build") = 3
        /\ Position("test_eval") = 4 /\ Position("deploy") = 5
    BY DEF Position
  <2> QED
    BY <2>1 DEF Before, Phases
<1>2. /\ NextPhase("requirements") = "design" /\ NextPhase("design") = "build"
      /\ NextPhase("build") = "test_eval" /\ NextPhase("test_eval") = "deploy"
  BY DEF NextPhase
<1> QED
  BY <1>1, <1>2 DEF Phases, LastPhase, TriageTargets

LEMMA RouteIInv ==
    ASSUME IInv, TypeOK', NEW w \in Workers, Route(w)
    PROVE  IInv'
<1> USE DEF IInv, history, losses
<1>1. CASE RouteBlocked(w) \/ RouteRetry(w) \/ RouteLimit(w)
  BY <1>1, RouteFrame DEF PrefixVerified, RouteBlocked, RouteRetry, RouteLimit
<1>2. CASE RouteHop(w)
  <2>1. /\ phase = "test_eval" /\ phase' \in TriageTargets
        /\ verified' = verified \cap Before(phase')
    BY <1>2 DEF RouteHop, TriageAsks, TypeOK, Results
  <2>2. Before(phase') \subseteq verified'
    BY <2>1, BeforeFacts DEF PrefixVerified
  <2>3. PrefixVerified'
    BY <2>2 DEF PrefixVerified, Before
  <2> QED
    BY <2>3, RouteFrame
<1>3. CASE RouteNext(w)
  <2>1. /\ phase \in Phases /\ phase # LastPhase /\ phase' = NextPhase(phase)
        /\ verified' = verified \cup {phase}
    BY <1>3 DEF RouteNext, TypeOK
  <2>2. Before(phase') \subseteq verified'
    BY <2>1, BeforeFacts DEF PrefixVerified
  <2>3. PrefixVerified'
    BY <2>2 DEF PrefixVerified, Before
  <2> QED
    BY <2>3, RouteFrame
<1>4. CASE RouteEnd(w)
  <2>1. PrefixVerified'
    BY <1>4 DEF RouteEnd, PrefixVerified
  <2> QED
    BY <2>1, RouteFrame
<1> QED
  BY <1>1, <1>2, <1>3, <1>4 DEF Route

LEMMA ReviewerStepIInv ==
    ASSUME IInv, TypeOK', NEW r \in Reviewers, Look(r) \/ Answer(r)
    PROVE  IInv'
<1> USE DEF IInv
<1>1. UNCHANGED <<control, activity, crRows, consent, verified>>
  BY DEF Look, Answer, database, history, losses
<1>2. AttemptIsCurrent' /\ KnownIsStored'
  BY <1>1 DEF AttemptIsCurrent, KnownIsStored, control, activity, Attempt, Stored
<1>3. StatusFitsResult' /\ GateSpendsRetries' /\ ConsentGiven' /\ PrefixVerified'
  BY <1>1 DEF StatusFitsResult, GateSpendsRetries, ConsentGiven, PrefixVerified, control
<1> QED
  BY <1>2, <1>3

LEMMA StutterIInv == ASSUME IInv, TypeOK', UNCHANGED vars PROVE IInv'
<1> USE DEF IInv, vars, control, activity, database, history, losses
<1>1. AttemptIsCurrent' /\ KnownIsStored'
  BY DEF AttemptIsCurrent, KnownIsStored, Attempt, Stored
<1>2. StatusFitsResult' /\ GateSpendsRetries' /\ ConsentGiven' /\ PrefixVerified'
  BY DEF StatusFitsResult, GateSpendsRetries, ConsentGiven, PrefixVerified
<1> QED
  BY <1>1, <1>2

LEMMA StepIInv == IInv /\ [Next]_vars => IInv'
<1> SUFFICES ASSUME IInv, [Next]_vars PROVE IInv'
  OBVIOUS
<1>1. TypeOK'
  BY StepType DEF IInv
<1>2. CASE UNCHANGED vars
  BY <1>1, <1>2, StutterIInv
<1>3. CASE Next
  BY <1>1, <1>3, SlotStepIInv, ReturnPhaseIInv, WaitStepIInv, RouteIInv, ReviewerStepIInv
     DEF Next, WorkflowStep
<1> QED
  BY <1>2, <1>3

(* The invariant everything below follows from. *)
THEOREM WorkflowInvariant == Spec => []IInv
BY InitIInv, StepIInv, PTL DEF Spec

-----------------------------------------------------------------------------
(* The properties.                                                           *)

(* When a phase has no retry left the gate blocks its failure: the retry     *)
(* limit in _route is never what stops a run.                                *)
THEOREM GateSpendsRetriesHolds == Spec => []GateSpendsRetries
<1>1. IInv => GateSpendsRetries
  BY DEF IInv
<1> QED
  BY <1>1, WorkflowInvariant, PTL

(* A run reaches deploy only with every earlier phase verified since the     *)
(* last hop.                                                                 *)
THEOREM DeployIsVerifiedHolds == Spec => []DeployIsVerified
<1>1. IInv => DeployIsVerified
  BY DEF IInv, PrefixVerified, DeployIsVerified
<1> QED
  BY <1>1, WorkflowInvariant, PTL

(* A phase's graph runs only with the change requests it was given stored,   *)
(* for any number of slots and lost attempts.                                *)
THEOREM RequestsStoredFirstHolds == Spec => []RequestsStoredFirst
<1>1. IInv => RequestsStoredFirst
  BY DEF IInv, KnownIsStored, RequestsStoredFirst
<1> QED
  BY <1>1, WorkflowInvariant, PTL

(* No phase is left forward without a passing evaluation and somebody's      *)
(* consent.                                                                  *)
THEOREM ForwardNeedsConsentHolds == Spec => ForwardNeedsConsent
<1> DEFINE Justified == /\ Passed(result.overall)
                        /\ \/ request.auto
                           \/ request.risk = "low" /\ result.overall >= AutoMark
                           \/ consent = "yes"
<1>1. IInv /\ [Next]_vars => [verified' # verified => Justified]_vars
  <2> SUFFICES ASSUME IInv, Next, verified' # verified PROVE Justified
    BY DEF vars
  <2>1. PICK w \in Workers : RouteHop(w) \/ RouteNext(w) \/ RouteEnd(w)
    BY DEF Next, WorkflowStep, WorkerStep, ReadRun, StoreRequest, RunGraph,
           WriteStatus, Discard, Crash, Dispatch, ReturnPhase, AwaitApproval,
           NoticeLoss, Timeout, GiveUp, Resume, ApprovalTimeout, Look, Answer,
           Route, RouteBlocked, RouteRetry, RouteLimit, history, losses
  <2>2. Routes(w) /\ Passed(result.overall)
    BY <2>1 DEF RouteHop, RouteNext, RouteEnd
  <2>3. pc = "record" /\ status \in {"running", "completed"}
    BY <2>2 DEF Routes, IInv, TypeOK, Statuses
  <2> QED
    BY <2>2, <2>3 DEF IInv, ConsentGiven
<1> QED
  BY <1>1, WorkflowInvariant, PTL DEF Spec, ForwardNeedsConsent

-----------------------------------------------------------------------------
(* What a step does to attempts, to what they write and to the count of the  *)
(* lost ones.                                                                *)

Moved(w, j, from, to) ==
    /\ job[w].stage = from /\ j.stage = to
    /\ j.phase = job[w].phase /\ j.attempt = job[w].attempt
    /\ j.requests = job[w].requests

Reads(w, j) ==
    /\ Moved(w, j, "read", "store") /\ j.known = Stored
    /\ UNCHANGED <<owner, lost, overtaken, row, rowLate, crRows, gateRows>>

Stores(w, j) ==
    /\ Moved(w, j, "store", "store")
    /\ \E id \in Unrecorded(job[w]) :
          /\ \A other \in Unrecorded(job[w]) : id <= other
          /\ crRows' = Append(crRows, id)
          /\ j.known = job[w].known \cup {id}
    /\ UNCHANGED <<owner, lost, overtaken, row, rowLate, gateRows>>

Runs(w, j) ==
    /\ Moved(w, j, "store", "status")
    /\ gateRows' = WithGateRow(<<job[w].phase, job[w].attempt>>)
    /\ UNCHANGED <<owner, lost, overtaken, row, rowLate, crRows>>

Updates(w, j) ==
    /\ Moved(w, j, "status", "write") \/ Moved(w, j, "write", "return")
    /\ j.status = job[w].status
    /\ row' = [status |-> job[w].status, phase |-> job[w].phase]
    /\ rowLate' = (owner # w)
    /\ UNCHANGED <<owner, lost, overtaken, crRows, gateRows>>

Ends(w, j) ==
    /\ j = Idle /\ job[w].stage # "idle"
    /\ lost' = IF owner = w THEN lost + 1 ELSE lost
    /\ UNCHANGED <<owner, overtaken, row, rowLate, crRows, gateRows>>

Begins(w, j) ==
    /\ pc \in {"activity", "record"} /\ owner = NoWorker /\ owner' = w
    /\ job[w].stage = "idle"
    /\ j = IF pc = "activity" THEN PhaseJob ELSE RecordJob
    /\ UNCHANGED <<lost, overtaken, row, rowLate, crRows, gateRows>>

LEMMA SlotStepFacts ==
    ASSUME TypeOK, NEW w \in Workers,
           WorkerStep(w) \/ Crash(w) \/ Dispatch(w)
    PROVE  /\ UNCHANGED control
           /\ \E j \in Jobs :
                 /\ job' = [job EXCEPT ![w] = j]
                 /\ \/ Reads(w, j) \/ Stores(w, j) \/ Runs(w, j) \/ Updates(w, j)
                    \/ Ends(w, j) \/ Begins(w, j)
<1>1. UNCHANGED control /\ job[w] \in Jobs
  BY DEF TypeOK, WorkerStep, ReadRun, StoreRequest, RunGraph, WriteStatus,
         Discard, Crash, Dispatch, control
<1>2. TypeOK' /\ job' \in [Workers -> Jobs]
  BY SlotStepType DEF TypeOK
<1>3. ASSUME NEW j, job' = [job EXCEPT ![w] = j] PROVE j \in Jobs
  BY <1>2, <1>3 DEF TypeOK
<1>4. CASE ReadRun(w)
  <2> DEFINE j == [job[w] EXCEPT !.stage = "store", !.known = Stored,
                                 !.result.target = triage]
  <2>1. job' = [job EXCEPT ![w] = j] /\ Reads(w, j)
    BY <1>1, <1>4 DEF ReadRun, Reads, Moved, TypeOK, Jobs, database, losses
  <2> QED
    BY <1>1, <1>3, <2>1
<1>5. CASE StoreRequest(w)
  <2>1. PICK id \in Unrecorded(job[w]) :
          /\ \A other \in Unrecorded(job[w]) : id <= other
          /\ crRows' = Append(crRows, id)
          /\ job' = [job EXCEPT ![w].known = @ \cup {id}]
    BY <1>5 DEF StoreRequest
  <2> DEFINE j == [job[w] EXCEPT !.known = @ \cup {id}]
  <2>2. job' = [job EXCEPT ![w] = j] /\ Stores(w, j)
    BY <1>1, <1>5, <2>1 DEF StoreRequest, Stores, Moved, TypeOK, Jobs, losses
  <2> QED
    BY <1>1, <1>3, <2>2
<1>6. CASE RunGraph(w)
  <2>0. PICK overall \in Overalls[job[w].phase], target \in TargetsOf(job[w]) :
          \E decision : job' = [job EXCEPT
            ![w].stage = "status",
            ![w].status = GateStatus(job[w].phase, overall, decision),
            ![w].result = [overall |-> overall, target |-> target, decision |-> decision]]
    BY <1>6 DEF RunGraph
  <2>1. PICK decision :
          job' = [job EXCEPT
            ![w].stage = "status",
            ![w].status = GateStatus(job[w].phase, overall, decision),
            ![w].result = [overall |-> overall, target |-> target, decision |-> decision]]
    BY <2>0
  <2> DEFINE j == [job[w] EXCEPT
                     !.stage = "status",
                     !.status = GateStatus(job[w].phase, overall, decision),
                     !.result = [overall |-> overall, target |-> target,
                                 decision |-> decision]]
  <2>2. job' = [job EXCEPT ![w] = j]
    BY <1>1, <2>1 DEF TypeOK, Jobs
  <2>3. Runs(w, j)
    BY <1>1, <1>6 DEF RunGraph, Runs, Moved, Jobs, losses
  <2> QED
    BY <1>1, <1>3, <2>2, <2>3
<1>7. CASE WriteStatus(w)
  <2> DEFINE j == [job[w] EXCEPT !.stage = IF job[w].stage = "status" THEN "write"
                                           ELSE "return"]
  <2>1. job' = [job EXCEPT ![w] = j]
    BY <1>1, <1>7 DEF WriteStatus, TypeOK, Jobs
  <2>2. Updates(w, j)
    BY <1>1, <1>7 DEF WriteStatus, Updates, Moved, Jobs, losses
  <2> QED
    BY <1>1, <1>3, <2>1, <2>2
<1>8. CASE Discard(w)
  BY <1>1, <1>8, IdleType DEF Discard, Ends, database, losses
<1>9. CASE Crash(w)
  BY <1>1, <1>9, IdleType DEF Crash, Ends, database
<1>10. CASE Dispatch(w)
  BY <1>1, <1>10, NewJobTypes DEF Dispatch, Begins, database, losses
<1> QED
  BY <1>4, <1>5, <1>6, <1>7, <1>8, <1>9, <1>10 DEF WorkerStep

(* What Dispatch gives a slot to do, in fields. *)
LEMMA NewJobFacts ==
    ASSUME TypeOK
    PROVE  /\ PhaseJob.stage = "read" /\ PhaseJob.phase = phase
           /\ PhaseJob.attempt = Attempt(phase) /\ PhaseJob.requests = Len(crs)
           /\ RecordJob.stage = "write" /\ RecordJob.phase = phase
           /\ RecordJob.status = status /\ RecordJob.requests = 0
BY DEF PhaseJob, RecordJob, Idle

(* An attempt that the workflow takes the result of is through. *)
LEMMA TakenFacts ==
    ASSUME TypeOK, NEW w \in Workers, ReturnPhase(w) \/ AwaitApproval(w) \/ Route(w)
    PROVE  /\ owner = w /\ job[w].stage = "return" /\ owner' = NoWorker
           /\ job' = [job EXCEPT ![w] = Idle]
           /\ UNCHANGED <<row, rowLate, crRows, gateRows, lost, overtaken>>
BY DEF ReturnPhase, AwaitApproval, Route, RouteBlocked, RouteRetry, RouteLimit, RouteHop,
       RouteNext, RouteEnd, Routes, Completes, database, losses

(* The steps in which no attempt moves. *)
Elsewhere ==
    \/ NoticeLoss \/ Timeout \/ Resume \/ ApprovalTimeout
    \/ \E r \in Reviewers : Look(r) \/ Answer(r)
    \/ UNCHANGED vars

LEMMA ElsewhereFacts ==
    ASSUME TypeOK, Elsewhere
    PROVE  /\ UNCHANGED <<phase, retries, hops, crs, job, row, rowLate, crRows, gateRows>>
           /\ lost' \in {lost, lost + 1}
           /\ pc \in {"done", "failed"} => pc' = pc
           /\ pc = "activity" => pc' \in {"activity", "failed"}
           /\ pc = "record" => pc' = "record"
           /\ pc = "wait" => pc' \in {"wait", "record"}
           /\ pc' = pc => UNCHANGED <<status, result>>
           /\ \/ owner' = owner /\ lost' = lost /\ overtaken' = overtaken
              \/ owner' = NoWorker /\ job[owner].stage = "idle" /\ lost' = lost /\ overtaken' = overtaken
              \/ owner' = NoWorker /\ lost' = lost + 1 /\ overtaken' = overtaken + 1
<1> USE DEF control, activity, database, clients, history, losses
<1>1. CASE NoticeLoss
  BY <1>1 DEF NoticeLoss, GiveUp
<1>2. CASE Timeout
  BY <1>2 DEF Timeout, GiveUp
<1>3. CASE Resume
  BY <1>3 DEF Resume
<1>4. CASE ApprovalTimeout
  BY <1>4 DEF ApprovalTimeout
<1>5. ASSUME NEW r \in Reviewers, Look(r) \/ Answer(r)
      PROVE  UNCHANGED <<control, activity, database, losses>>
  BY <1>5 DEF Look, Answer
<1>6. CASE \E r \in Reviewers : Look(r) \/ Answer(r)
  BY <1>5, <1>6 DEF TypeOK, PCs
<1>7. CASE UNCHANGED vars
  BY <1>7 DEF vars, TypeOK, PCs
<1> QED
  BY <1>1, <1>2, <1>3, <1>4, <1>6, <1>7 DEF Elsewhere

LEMMA StepCases ==
    ASSUME [Next]_vars
    PROVE  \/ \E w \in Workers : WorkerStep(w) \/ Crash(w) \/ Dispatch(w)
           \/ \E w \in Workers : ReturnPhase(w) \/ AwaitApproval(w) \/ Route(w)
           \/ Elsewhere
BY DEF Next, WorkflowStep, Elsewhere

LEMMA OtherSlots ==
    ASSUME TypeOK, NEW w \in Workers, NEW j, job' = [job EXCEPT ![w] = j]
    PROVE  job'[w] = j /\ \A v \in Workers \ {w} : job'[v] = job[v]
BY DEF TypeOK

-----------------------------------------------------------------------------
(* Sets of slots that differ in one slot.                                    *)

LEMMA OneElement ==
    ASSUME NEW S, NEW T, NEW w, IsFiniteSet(S), S \ {w} = T \ {w}
    PROVE  /\ Cardinality(S) \in Nat /\ Cardinality(T) \in Nat
           /\ (w \in S <=> w \in T) => T = S
           /\ w \notin T => Cardinality(T) <= Cardinality(S)
           /\ w \in S /\ w \notin T => Cardinality(T) = Cardinality(S) - 1
           /\ w \notin S /\ w \in T => Cardinality(T) = Cardinality(S) + 1
<1>1. Cardinality(S) \in Nat
  BY FS_CardinalityType
<1>2. /\ Cardinality(S \ {w}) = IF w \in S THEN Cardinality(S) - 1 ELSE Cardinality(S)
      /\ Cardinality(S \cup {w}) = IF w \in S THEN Cardinality(S) ELSE Cardinality(S) + 1
      /\ w \in S => Cardinality(S) >= 1
  <2>1. w \in S => S # {}
    OBVIOUS
  <2> QED
    BY <1>1, <2>1, FS_RemoveElement, FS_AddElement, FS_EmptySet
<1>3. CASE w \in S <=> w \in T
  <2>1. T = S
    BY <1>3
  <2> QED
    BY <1>1, <1>3, <2>1
<1>4. CASE w \in S /\ w \notin T
  <2>1. T = S \ {w}
    BY <1>4
  <2> QED
    BY <1>1, <1>2, <1>4, <2>1
<1>5. CASE w \notin S /\ w \in T
  <2>1. T = S \cup {w}
    BY <1>5
  <2> QED
    BY <1>1, <1>2, <1>5, <2>1
<1> QED
  BY <1>3, <1>4, <1>5

-----------------------------------------------------------------------------
(* Attempts that nobody waits for, and the row they may leave.               *)

LEMMA StrayFacts ==
    ASSUME TypeOK
    PROVE  /\ IsFiniteSet(Strays) /\ Cardinality(Strays) \in Nat /\ overtaken \in Nat
           /\ \A w \in Strays : Cardinality(Strays) >= 1
<1>1. IsFiniteSet(Strays) /\ Cardinality(Strays) \in Nat
  BY WorkflowAssumption, FS_Subset, FS_CardinalityType DEF Strays
<1>2. overtaken \in Nat
  BY DEF TypeOK
<1>3. ASSUME NEW w \in Strays PROVE Cardinality(Strays) >= 1
  BY <1>1, <1>3, FS_EmptySet
<1> QED
  BY <1>1, <1>2, <1>3

LEMMA InitStrays == Init => StraysWereOvertaken
<1> SUFFICES ASSUME Init PROVE StraysWereOvertaken
  OBVIOUS
<1>1. Strays = {}
  BY IdleType DEF Init, Strays
<1> QED
  BY <1>1, FS_EmptySet DEF Init, StraysWereOvertaken

LEMMA StraysSlot ==
    ASSUME TypeOK, TypeOK', StraysWereOvertaken, NEW w \in Workers,
           WorkerStep(w) \/ Crash(w) \/ Dispatch(w)
    PROVE  StraysWereOvertaken'
<1>1. PICK j \in Jobs :
        /\ job' = [job EXCEPT ![w] = j]
        /\ \/ Reads(w, j) \/ Stores(w, j) \/ Runs(w, j) \/ Updates(w, j)
           \/ Ends(w, j) \/ Begins(w, j)
  BY SlotStepFacts
<1>2. job'[w] = j /\ \A v \in Workers \ {w} : job'[v] = job[v]
  BY <1>1, OtherSlots
<1>3. /\ overtaken' = overtaken
      /\ owner' = owner \/ (owner = NoWorker /\ owner' = w)
  BY <1>1, Zenon DEF Reads, Stores, Runs, Updates, Ends, Begins
<1>4. Strays \ {w} = Strays' \ {w}
  BY <1>2, <1>3, WorkflowAssumption DEF Strays
<1>5. w \in Strays' => w \in Strays
  <2>1. CASE Reads(w, j) \/ Stores(w, j) \/ Runs(w, j) \/ Updates(w, j)
    BY <2>1 DEF Reads, Stores, Runs, Updates, Moved, Strays
  <2>2. CASE Ends(w, j)
    BY <1>2, <2>2, IdleType DEF Ends, Strays
  <2>3. CASE Begins(w, j)
    BY <2>3 DEF Begins, Strays
  <2> QED
    BY <1>1, <2>1, <2>2, <2>3
<1>6. Cardinality(Strays') <= overtaken'
  <2>1. PICK S : S = Strays'
    OBVIOUS
  <2>2. /\ Cardinality(S) \in Nat
        /\ (w \in Strays <=> w \in S) => S = Strays
        /\ w \notin S => Cardinality(S) <= Cardinality(Strays)
    BY <1>4, <2>1, StrayFacts, OneElement
  <2>3. Cardinality(S) <= Cardinality(Strays)
    BY <1>5, <2>1, <2>2
  <2> QED
    BY <1>3, <2>1, <2>2, <2>3, StrayFacts DEF StraysWereOvertaken
<1>7. rowLate' => overtaken' > 0
  <2>1. CASE Updates(w, j)
    <3>1. rowLate' => w \in Strays
      BY <2>1 DEF Updates, Moved, Strays
    <3>2. w \in Strays => overtaken >= 1
      BY StrayFacts DEF StraysWereOvertaken
    <3> QED
      BY <1>3, <3>1, <3>2, StrayFacts
  <2>2. CASE rowLate' = rowLate
    BY <1>3, <2>2 DEF StraysWereOvertaken
  <2> QED
    BY <1>1, <2>1, <2>2 DEF Reads, Stores, Runs, Ends, Begins
<1> QED
  BY <1>6, <1>7 DEF StraysWereOvertaken

LEMMA StraysTaken ==
    ASSUME TypeOK, StraysWereOvertaken, NEW w \in Workers,
           ReturnPhase(w) \/ AwaitApproval(w) \/ Route(w)
    PROVE  StraysWereOvertaken'
<1>1. /\ owner = w /\ owner' = NoWorker /\ job'[w] = Idle
      /\ \A v \in Workers \ {w} : job'[v] = job[v]
      /\ rowLate' = rowLate /\ overtaken' = overtaken
  BY TakenFacts, OtherSlots
<1>2. Strays' = Strays
  BY <1>1, IdleType, WorkflowAssumption DEF Strays
<1> QED
  BY <1>1, <1>2 DEF StraysWereOvertaken

LEMMA StraysElsewhere ==
    ASSUME TypeOK, StraysWereOvertaken, Elsewhere
    PROVE  StraysWereOvertaken'
<1>1. /\ job' = job /\ rowLate' = rowLate
      /\ \/ owner' = owner /\ overtaken' = overtaken
         \/ owner' = NoWorker /\ job[owner].stage = "idle" /\ overtaken' = overtaken
         \/ owner' = NoWorker /\ overtaken' = overtaken + 1
  BY ElsewhereFacts
<1>2. CASE overtaken' = overtaken
  <2>1. overtaken # overtaken + 1
    BY StrayFacts
  <2>2. owner' = owner \/ (owner' = NoWorker /\ job[owner].stage = "idle")
    BY <1>1, <1>2, <2>1, Zenon
  <2>3. Strays' = Strays
    BY <1>1, <2>2, WorkflowAssumption DEF Strays
  <2> QED
    BY <1>1, <1>2, <2>3 DEF StraysWereOvertaken
<1>3. CASE owner' = NoWorker /\ overtaken' = overtaken + 1
  <2>1. PICK S : S = Strays'
    OBVIOUS
  <2>2. owner \notin Strays /\ Strays \ {owner} = S \ {owner}
    BY <1>1, <1>3, <2>1, WorkflowAssumption DEF Strays
  <2>3. Cardinality(S) \in Nat /\ Cardinality(S) <= Cardinality(Strays) + 1
    BY <2>2, StrayFacts, OneElement
  <2> QED
    BY <1>1, <1>3, <2>1, <2>3, StrayFacts DEF StraysWereOvertaken
<1> QED
  BY <1>1, <1>2, <1>3

LEMMA StraysStep ==
    ASSUME TypeOK, TypeOK', StraysWereOvertaken, [Next]_vars
    PROVE  StraysWereOvertaken'
BY StepCases, StraysSlot, StraysTaken, StraysElsewhere

LEMMA StraysAlways == Spec => []StraysWereOvertaken
BY InitStrays, StraysStep, WorkflowTypeOK, PTL DEF Spec

-----------------------------------------------------------------------------
(* The runs row.                                                             *)

LEMMA InitRowFits == Init => RowFits
BY DEF Init, RowFits, RowMirrorsWorkflow

(* A row that is right, or late, is so after every step of a slot.           *)
LEMMA RowKeeps ==
    ASSUME NEW w \in Workers, NEW j,
           \/ Reads(w, j) \/ Stores(w, j) \/ Runs(w, j) \/ Updates(w, j)
           \/ Ends(w, j) \/ Begins(w, j),
           owner # w
    PROVE  rowLate' \/ (row' = row /\ rowLate' = rowLate)
BY DEF Reads, Stores, Runs, Updates, Ends, Begins

LEMMA RowFitsSlot ==
    ASSUME TypeOK, StraysWereOvertaken', RowFits, NEW w \in Workers,
           WorkerStep(w) \/ Crash(w) \/ Dispatch(w)
    PROVE  RowFits'
<1>1. PICK j \in Jobs :
        /\ job' = [job EXCEPT ![w] = j]
        /\ \/ Reads(w, j) \/ Stores(w, j) \/ Runs(w, j) \/ Updates(w, j)
           \/ Ends(w, j) \/ Begins(w, j)
  BY SlotStepFacts
<1>2. UNCHANGED <<pc, phase, status, retries, hops, crs, result>>
  BY SlotStepFacts DEF control
<1>3. job'[w] = j /\ \A v \in Workers \ {w} : job'[v] = job[v]
  BY <1>1, OtherSlots
<1>4. owner' = owner \/ (Begins(w, j) /\ owner = NoWorker /\ owner' = w)
  BY <1>1 DEF Reads, Stores, Runs, Updates, Ends, Begins
<1>5. rowLate' => overtaken' > 0
  BY DEF StraysWereOvertaken
<1>6. CASE pc = "record"
  <2>1. ASSUME owner' # NoWorker
        PROVE  /\ job'[owner'].stage \in {"idle", "write", "return"}
               /\ job'[owner'].stage # "idle" =>
                     job'[owner'].status = status /\ job'[owner'].phase = phase
               /\ job'[owner'].stage = "return" =>
                     row' = [status |-> status, phase |-> phase] \/ rowLate'
    <3>1. CASE owner' = owner /\ owner # w
      <4>1. owner \in Workers \ {w}
        BY <2>1, <3>1 DEF TypeOK
      <4>2. job'[owner'] = job[owner]
        BY <1>3, <3>1, <4>1
      <4>3. rowLate' \/ (row' = row /\ rowLate' = rowLate)
        BY <1>1, <3>1, RowKeeps
      <4> QED
        BY <1>6, <2>1, <3>1, <4>2, <4>3 DEF RowFits
    <3>2. CASE owner' = owner /\ owner = w
      <4>1. job[w].stage \in {"idle", "write", "return"}
        BY <1>6, <2>1, <3>2 DEF RowFits
      <4>2. CASE Reads(w, j) \/ Stores(w, j) \/ Runs(w, j)
        BY <4>1, <4>2 DEF Reads, Stores, Runs, Moved
      <4>3. CASE Updates(w, j)
        <5>1. job[w].stage # "idle" /\ job[w].status = status /\ job[w].phase = phase
          BY <1>6, <2>1, <3>2, <4>3 DEF Updates, Moved, RowFits
        <5> QED
          BY <1>3, <3>2, <4>1, <4>3, <5>1 DEF Updates, Moved
      <4>4. CASE Ends(w, j)
        BY <1>3, <3>2, <4>4, IdleType DEF Ends
      <4>5. CASE Begins(w, j)
        BY <2>1, <3>2, <4>5, WorkflowAssumption DEF Begins
      <4> QED
        BY <1>1, <4>2, <4>3, <4>4, <4>5
    <3>3. CASE Begins(w, j) /\ owner' = w
      BY <1>3, <1>6, <3>3, NewJobFacts DEF Begins
    <3> QED
      BY <1>4, <3>1, <3>2, <3>3
  <2> QED
    BY <1>2, <1>6, <2>1 DEF RowFits, RowMirrorsWorkflow
<1>7. CASE pc \in {"wait", "done"}
  <2>1. owner = NoWorker
    BY <1>7 DEF RowFits
  <2>2. rowLate' \/ (row' = row /\ rowLate' = rowLate)
    BY <1>1, <2>1, RowKeeps, WorkflowAssumption
  <2>3. overtaken' = overtaken
    BY <1>1 DEF Reads, Stores, Runs, Updates, Ends, Begins
  <2>4. owner' = NoWorker
    BY <1>4, <1>7, <2>1 DEF Begins
  <2> QED
    BY <1>2, <1>5, <1>7, <2>2, <2>3, <2>4
    DEF RowFits, RowMirrorsWorkflow, LimitReached, TriageAsks, HopsLeft
<1>8. CASE pc \notin {"record", "wait", "done"}
  BY <1>2, <1>8 DEF RowFits, RowMirrorsWorkflow
<1> QED
  BY <1>6, <1>7, <1>8

LEMMA RowFitsTaken ==
    ASSUME TypeOK, StraysWereOvertaken, RowFits, NEW w \in Workers,
           ReturnPhase(w) \/ AwaitApproval(w) \/ Route(w)
    PROVE  RowFits'
<1>1. /\ owner = w /\ job[w].stage = "return" /\ owner' = NoWorker
      /\ row' = row /\ rowLate' = rowLate /\ overtaken' = overtaken
  BY TakenFacts
<1>2. CASE ReturnPhase(w)
  BY <1>1, <1>2 DEF ReturnPhase, RowFits, RowMirrorsWorkflow
<1>3. ASSUME pc = "record"
      PROVE  row = [status |-> status, phase |-> phase] \/ (rowLate /\ overtaken > 0)
  BY <1>1, <1>3, WorkflowAssumption DEF RowFits, StraysWereOvertaken
<1>4. CASE AwaitApproval(w)
  BY <1>1, <1>3, <1>4 DEF AwaitApproval, RowFits, RowMirrorsWorkflow
<1>5. CASE RouteBlocked(w)
  BY <1>1, <1>3, <1>5 DEF RouteBlocked, RowFits, RowMirrorsWorkflow
<1>6. CASE RouteRetry(w) \/ RouteHop(w) \/ RouteNext(w)
  BY <1>1, <1>6 DEF RouteRetry, RouteHop, RouteNext, RowFits, RowMirrorsWorkflow
<1>7. CASE RouteLimit(w)
  <2>1. LimitReached' /\ result'.decision # "block" /\ pc' = "done"
    BY <1>7 DEF RouteLimit, Routes, LimitReached, TriageAsks, HopsLeft
  <2> QED
    BY <1>1, <2>1 DEF RowFits, RowMirrorsWorkflow
<1>8. CASE RouteEnd(w)
  BY <1>1, <1>3, <1>8 DEF RouteEnd, Routes, RowFits, RowMirrorsWorkflow
<1> QED
  BY <1>2, <1>4, <1>5, <1>6, <1>7, <1>8 DEF Route

LEMMA RowFitsElsewhere ==
    ASSUME TypeOK, RowFits, Elsewhere
    PROVE  RowFits'
<1>1. /\ UNCHANGED <<phase, retries, hops, job, row, rowLate>>
      /\ pc' = pc => UNCHANGED <<status, result>>
      /\ owner' = owner \/ owner' = NoWorker
      /\ overtaken' = overtaken \/ overtaken' = overtaken + 1
  BY ElsewhereFacts
<1>2. overtaken > 0 => overtaken' > 0
  BY <1>1, StrayFacts
<1>3. CASE pc' = pc
  BY <1>1, <1>2, <1>3 DEF RowFits, RowMirrorsWorkflow, LimitReached, TriageAsks, HopsLeft
<1>4. CASE pc' # pc
  <2>1. \/ pc = "activity" /\ pc' = "failed"
        \/ pc = "wait" /\ pc' = "record"
    <3>1. pc \in {"activity", "record", "wait", "done", "failed"}
      BY DEF TypeOK, PCs
    <3>2. /\ pc \in {"done", "failed"} => pc' = pc
          /\ pc = "activity" => pc' \in {"activity", "failed"}
          /\ pc = "record" => pc' = "record"
          /\ pc = "wait" => pc' \in {"wait", "record"}
      BY ElsewhereFacts
    <3> QED
      BY <1>4, <3>1, <3>2
  <2>2. CASE pc = "activity" /\ pc' = "failed"
    BY <2>2 DEF RowFits, RowMirrorsWorkflow
  <2>3. CASE pc = "wait" /\ pc' = "record"
    <3>1. owner' = NoWorker
      BY <1>1, <2>3 DEF RowFits
    <3> QED
      BY <2>3, <3>1 DEF RowFits, RowMirrorsWorkflow
  <2> QED
    BY <2>1, <2>2, <2>3
<1> QED
  BY <1>3, <1>4

(* The runs row says what the workflow waits for or ended as, unless a limit *)
(* in _route ended it or an attempt that was given up while it ran has       *)
(* written last, with any number of slots and losses (_record_status,        *)
(* record_status, update_status).                                            *)
THEOREM RowMirrorsWorkflowHolds == Spec => []RowMirrorsWorkflow
<1>1. /\ TypeOK /\ TypeOK' /\ StraysWereOvertaken /\ StraysWereOvertaken'
      /\ RowFits /\ [Next]_vars
      => RowFits'
  BY StepCases, RowFitsSlot, RowFitsTaken, RowFitsElsewhere
<1>2. RowFits => RowMirrorsWorkflow
  BY DEF RowFits
<1> QED
  BY <1>1, <1>2, InitRowFits, StraysAlways, WorkflowTypeOK, PTL DEF Spec

-----------------------------------------------------------------------------
(* Change requests and their copies.                                         *)

LEMMA AddingFacts ==
    ASSUME TypeOK, NEW id
    PROVE  /\ IsFiniteSet(Adding(id)) /\ Cardinality(Adding(id)) \in Nat
           /\ Cardinality(Adding(id)) <= Cardinality(Workers)
           /\ Cardinality(Workers) \in Nat
           /\ StraysWereOvertaken => Cardinality(Adding(id)) <= 1 + overtaken
<1>1. /\ IsFiniteSet(Adding(id)) /\ Cardinality(Adding(id)) \in Nat
      /\ Cardinality(Adding(id)) <= Cardinality(Workers)
      /\ Cardinality(Workers) \in Nat
  BY WorkflowAssumption, FS_Subset, FS_CardinalityType DEF Adding
<1>2. ASSUME StraysWereOvertaken PROVE Cardinality(Adding(id)) <= 1 + overtaken
  <2>1. Adding(id) \subseteq Strays \cup {owner}
    BY DEF Adding, Strays
  <2>2. IsFiniteSet(Strays \cup {owner})
    BY StrayFacts, FS_AddElement
  <2>3. Cardinality(Strays \cup {owner}) \in {Cardinality(Strays), Cardinality(Strays) + 1}
    BY StrayFacts, FS_AddElement
  <2>4. Cardinality(Adding(id)) <= Cardinality(Strays \cup {owner})
    BY <2>1, <2>2, FS_Subset
  <2> QED
    BY <1>1, <1>2, <2>3, <2>4, StrayFacts DEF StraysWereOvertaken
<1> QED
  BY <1>1, <1>2

LEMMA CopiesFacts ==
    ASSUME TypeOK, NEW id
    PROVE  Copies(id) \in Nat /\ (Copies(id) > 0 <=> id \in Stored)
<1> DEFINE S == {i \in 1..Len(crRows) : crRows[i] = id}
<1>1. Len(crRows) \in Nat
  BY DEF TypeOK
<1>2. IsFiniteSet(S) /\ Cardinality(S) \in Nat /\ (Cardinality(S) = 0 <=> S = {})
  <2>1. IsFiniteSet(1..Len(crRows))
    BY <1>1, FS_Interval
  <2>2. S \subseteq 1..Len(crRows)
    OBVIOUS
  <2> HIDE DEF S
  <2>3. IsFiniteSet(S)
    BY <2>1, <2>2, FS_Subset
  <2> QED
    BY <2>3, FS_CardinalityType, FS_EmptySet
<1>3. S # {} <=> id \in Stored
  BY DEF Stored
<1> QED
  BY <1>2, <1>3 DEF Copies

(* Storing a request adds one to its copies and leaves the others. *)
LEMMA CopiesAfter ==
    ASSUME TypeOK, NEW id \in RequestIds, crRows' = Append(crRows, id), NEW other
    PROVE  Copies(other)' = IF other = id THEN Copies(other) + 1 ELSE Copies(other)
<1> DEFINE n == Len(crRows) + 1
           S == {i \in 1..Len(crRows) : crRows[i] = other}
           T == {i \in 1..Len(crRows') : crRows'[i] = other}
<1>1. /\ Len(crRows) \in Nat /\ Len(crRows') = n
      /\ \A i \in 1..Len(crRows) : crRows'[i] = crRows[i]
      /\ crRows'[n] = id
  BY DEF TypeOK
<1>2. IsFiniteSet(S) /\ n \notin S
  <2>1. IsFiniteSet(1..Len(crRows))
    BY <1>1, FS_Interval
  <2>2. S \subseteq 1..Len(crRows) /\ n \notin S
    BY <1>1
  <2> HIDE DEF S
  <2> QED
    BY <2>1, <2>2, FS_Subset
<1>3. S \ {n} = T \ {n} /\ (n \in T <=> other = id)
  BY <1>1
<1>4. Cardinality(T) = IF other = id THEN Cardinality(S) + 1 ELSE Cardinality(S)
  <2> HIDE DEF S, T, n
  <2> QED
    BY <1>2, <1>3, OneElement
<1> QED
  BY <1>4 DEF Copies

(* Two parts of the invariant: what attempts were given, and how the copies  *)
(* of a request are counted.                                                 *)
Given == \A w \in Workers : job[w].requests <= Len(crs)

Counted(id) ==
    Copies(id) > 0 =>
        /\ Copies(id) + Cardinality(Adding(id)) <= 1 + overtaken
        /\ Copies(id) + Cardinality(Adding(id)) <= Cardinality(Workers)

LEMMA RequestParts ==
    RequestsFit <=> RequestsInOrder /\ Given /\ \A id \in RequestIds : Counted(id)
BY Zenon DEF RequestsFit, Given, Counted

LEMMA RequestPartsAfter ==
    RequestsFit' <=> RequestsInOrder' /\ Given' /\ \A id \in RequestIds : Counted(id)'
BY Zenon DEF RequestsFit, Given, Counted

LEMMA CopiesBounded ==
    ASSUME TypeOK, RequestsFit
    PROVE  RequestsNotRepeated
<1>1. ASSUME NEW id \in RequestIds
      PROVE  Copies(id) <= 1 + overtaken /\ Copies(id) <= Cardinality(Workers)
  <2>1. PICK a, b, c : a = Copies(id) /\ b = Cardinality(Adding(id))
                       /\ c = Cardinality(Workers)
    OBVIOUS
  <2>2. a \in Nat /\ b \in Nat /\ c \in Nat /\ overtaken \in Nat
    BY <2>1, CopiesFacts, AddingFacts, StrayFacts
  <2>3. a > 0 => a + b <= 1 + overtaken /\ a + b <= c
    BY <2>1, RequestParts DEF Counted
  <2>4. a <= 1 + overtaken /\ a <= c
    BY <2>2, <2>3
  <2> QED
    BY <2>1, <2>4
<1> QED
  BY <1>1, RequestParts DEF RequestsNotRepeated

LEMMA InitRequests == Init => RequestsFit
<1> SUFFICES ASSUME Init PROVE RequestsFit
  OBVIOUS
<1>1. Stored = {}
  BY DEF Init, Stored
<1>2. ASSUME NEW id \in RequestIds PROVE Counted(id)
  BY <1>1, InitType, CopiesFacts DEF Counted
<1>3. RequestsInOrder /\ Given
  BY IdleType DEF Init, RequestsInOrder, Given, Idle
<1> QED
  BY <1>2, <1>3, RequestParts

(* A step that stores nothing, in which no attempt starts to add id unless   *)
(* it was not stored.                                                        *)
LEMMA CountedKept ==
    ASSUME TypeOK, TypeOK', NEW id \in RequestIds, Counted(id), crRows' = crRows,
           overtaken' >= overtaken,
           Copies(id) > 0 => Cardinality(Adding(id)') <= Cardinality(Adding(id))
    PROVE  Counted(id)'
<1>1. Copies(id)' = Copies(id)
  BY DEF Copies
<1>2. PICK a, b, c, n : a = Copies(id) /\ b = Cardinality(Adding(id))
                        /\ c = Cardinality(Adding(id)') /\ n = Cardinality(Workers)
  OBVIOUS
<1>3. c \in Nat
  BY <1>2, WorkflowAssumption, FS_Subset, FS_CardinalityType DEF Adding
<1>4. a \in Nat /\ b \in Nat /\ n \in Nat /\ overtaken \in Nat /\ overtaken' \in Nat
  <2>1. overtaken' \in Nat
    BY DEF TypeOK
  <2> QED
    BY <1>2, <2>1, CopiesFacts, AddingFacts, StrayFacts
<1>5. a > 0 => a + b <= 1 + overtaken /\ a + b <= n /\ c <= b
  BY <1>2 DEF Counted
<1>6. a > 0 => a + c <= 1 + overtaken' /\ a + c <= n
  <2>1. PICK o, p : o = overtaken /\ p = overtaken'
    OBVIOUS
  <2>2. o \in Nat /\ p \in Nat /\ o <= p
    BY <1>4, <2>1
  <2>3. a > 0 => a + b <= 1 + o /\ a + b <= n /\ c <= b
    BY <1>5, <2>1
  <2>4. a > 0 => a + c <= 1 + p /\ a + c <= n
    BY <1>3, <1>4, <2>2, <2>3
  <2> QED
    BY <2>1, <2>4
<1> QED
  BY <1>1, <1>2, <1>6 DEF Counted

LEMMA RequestsSlot ==
    ASSUME TypeOK, TypeOK', KnownIsStored, StraysWereOvertaken, RequestsFit, NEW w \in Workers,
           WorkerStep(w) \/ Crash(w) \/ Dispatch(w)
    PROVE  RequestsFit'
<1>1. PICK j \in Jobs :
        /\ job' = [job EXCEPT ![w] = j]
        /\ \/ Reads(w, j) \/ Stores(w, j) \/ Runs(w, j) \/ Updates(w, j)
           \/ Ends(w, j) \/ Begins(w, j)
  BY SlotStepFacts
<1>2. crs' = crs /\ Len(crs) \in Nat
  <2>1. crs' = crs
    BY SlotStepFacts DEF control
  <2>2. Len(crs) \in Nat
    BY DEF TypeOK
  <2> QED
    BY <2>1, <2>2
<1>3. job'[w] = j /\ \A v \in Workers \ {w} : job'[v] = job[v]
  BY <1>1, OtherSlots
<1>4. RequestsInOrder /\ Given /\ \A id \in RequestIds : Counted(id)
  BY RequestParts
<1>5. overtaken' = overtaken /\ overtaken \in Nat
  BY <1>1, StrayFacts DEF Reads, Stores, Runs, Updates, Ends, Begins
<1>6. Given'
  <2>1. j.requests <= Len(crs)
    <3>1. CASE Reads(w, j) \/ Stores(w, j) \/ Runs(w, j) \/ Updates(w, j)
      BY <1>4, <3>1 DEF Reads, Stores, Runs, Updates, Moved, Given
    <3>2. CASE Ends(w, j)
      BY <1>2, <3>2, IdleType DEF Ends, Idle
    <3>3. CASE Begins(w, j)
      BY <1>2, <3>3, NewJobFacts DEF Begins
    <3> QED
      BY <1>1, <3>1, <3>2, <3>3
  <2> QED
    BY <1>2, <1>3, <1>4, <2>1 DEF Given
<1>7. \A id : Adding(id) \ {w} = Adding(id)' \ {w}
  BY <1>3 DEF Adding, Unrecorded
<1>8. \A id : w \in Adding(id)' <=> j.stage = "store" /\ id \in Unrecorded(j)
  BY <1>3 DEF Adding, Unrecorded
<1>9. CASE Stores(w, j)
  <2>1. PICK new \in Unrecorded(job[w]) :
          /\ \A other \in Unrecorded(job[w]) : new <= other
          /\ crRows' = Append(crRows, new)
          /\ j.known = job[w].known \cup {new}
    BY <1>9 DEF Stores
  <2>2. /\ job[w].stage = "store" /\ j.stage = "store" /\ j.requests = job[w].requests
        /\ job[w].requests \in Nat /\ job[w].requests <= Len(crs)
        /\ job[w].known \subseteq Stored
    <3>1. job[w].requests \in 0..MaxHops
      BY DEF TypeOK, Jobs
    <3> QED
      BY <1>4, <1>9, <3>1, LimitFacts DEF Stores, Moved, Given, KnownIsStored
  <2>3. new \in RequestIds /\ new <= Len(crs)
    <3>1. job[w].requests <= MaxHops
      BY LimitFacts DEF TypeOK, Jobs
    <3> QED
      BY <1>2, <2>1, <2>2, <3>1, LimitFacts DEF Unrecorded, RequestIds
  <2>4. RequestsInOrder'
    <3>1. /\ Len(crRows) \in Nat /\ Len(crRows') = Len(crRows) + 1
          /\ \A i \in 1..Len(crRows) : crRows'[i] = crRows[i]
          /\ crRows'[Len(crRows) + 1] = new
      BY <2>1, <2>3 DEF TypeOK
    <3>2. ASSUME NEW id \in 1 .. new - 1 PROVE \E k \in 1..Len(crRows) : crRows[k] = id
      <4>1. id \in Stored
        BY <2>1, <2>2, <2>3, LimitFacts DEF Unrecorded, RequestIds
      <4> QED
        BY <4>1 DEF Stored
    <3>3. SUFFICES ASSUME NEW i \in 1..Len(crRows')
                   PROVE  /\ crRows'[i] <= Len(crs')
                          /\ \A id \in 1 .. crRows'[i] - 1 :
                                \E k \in 1 .. i - 1 : crRows'[k] = id
      BY DEF RequestsInOrder
    <3>4. CASE i = Len(crRows) + 1
      BY <1>2, <2>3, <3>1, <3>2, <3>4
    <3>5. CASE i \in 1..Len(crRows)
      BY <1>2, <1>4, <3>1, <3>5 DEF RequestsInOrder
    <3> QED
      BY <3>1, <3>4, <3>5
  <2>5. ASSUME NEW id \in RequestIds PROVE Counted(id)'
    <3>1. Copies(id)' = IF id = new THEN Copies(id) + 1 ELSE Copies(id)
      BY <2>1, <2>3, CopiesAfter
    <3>2. w \in Adding(id)' <=> w \in Adding(id) /\ id # new
      BY <1>8, <2>1, <2>2 DEF Adding, Unrecorded
    <3>3. PICK S : S = Adding(id)'
      OBVIOUS
    <3>4. /\ Cardinality(S) \in Nat
          /\ id # new => S = Adding(id)
          /\ id = new => Cardinality(S) = Cardinality(Adding(id)) - 1
      <4>1. new \in Unrecorded(job[w]) /\ (id = new => w \in Adding(id))
        BY <2>1, <2>2 DEF Adding
      <4> QED
        BY <1>7, <3>2, <3>3, <4>1, AddingFacts, OneElement
    <3>5. PICK a, b, c, d, n : /\ a = Copies(id) /\ b = Cardinality(Adding(id))
                               /\ c = Cardinality(S) /\ d = Copies(id)'
                               /\ n = Cardinality(Workers)
      OBVIOUS
    <3>6. /\ a \in Nat /\ b \in Nat /\ c \in Nat /\ n \in Nat
          /\ b <= n /\ b <= 1 + overtaken
      BY <3>4, <3>5, CopiesFacts, AddingFacts
    <3>7. a > 0 => a + b <= 1 + overtaken /\ a + b <= n
      BY <1>4, <3>5 DEF Counted
    <3>8. \/ d = a /\ c = b
          \/ d = a + 1 /\ c = b - 1
      BY <3>1, <3>4, <3>5
    <3>9. d > 0 => d + c <= 1 + overtaken /\ d + c <= n
      BY <1>5, <3>6, <3>7, <3>8
    <3> QED
      BY <1>5, <3>3, <3>5, <3>9 DEF Counted
  <2> QED
    BY <1>6, <2>4, <2>5, RequestPartsAfter
<1>10. CASE ~Stores(w, j)
  <2>1. crRows' = crRows
    BY <1>1, <1>10 DEF Reads, Runs, Updates, Ends, Begins
  <2>2. RequestsInOrder'
    BY <1>2, <1>4, <2>1 DEF RequestsInOrder
  <2>3. ASSUME NEW id \in RequestIds, Copies(id) > 0 PROVE w \notin Adding(id)'
    <3>1. id \in Stored
      BY <2>3, CopiesFacts
    <3>2. CASE Reads(w, j)
      BY <1>8, <3>1, <3>2 DEF Reads, Unrecorded
    <3>3. CASE Runs(w, j) \/ Updates(w, j)
      BY <1>8, <3>3 DEF Runs, Updates, Moved
    <3>4. CASE Ends(w, j)
      BY <1>8, <3>4, IdleType DEF Ends
    <3>5. CASE Begins(w, j)
      BY <1>8, <3>5, NewJobFacts DEF Begins
    <3> QED
      BY <1>1, <1>10, <3>2, <3>3, <3>4, <3>5
  <2>4. ASSUME NEW id \in RequestIds PROVE Counted(id)'
    <3>1. ASSUME Copies(id) > 0 PROVE Cardinality(Adding(id)') <= Cardinality(Adding(id))
      <4>1. PICK S : S = Adding(id)'
        OBVIOUS
      <4>2. w \notin S /\ Adding(id) \ {w} = S \ {w}
        BY <1>7, <2>3, <3>1, <4>1
      <4>3. Cardinality(S) <= Cardinality(Adding(id))
        BY <4>2, AddingFacts, OneElement
      <4> QED
        BY <4>1, <4>3
    <3> QED
      BY <1>4, <1>5, <2>1, <3>1, CountedKept
  <2> QED
    BY <1>6, <2>2, <2>4, RequestPartsAfter
<1> QED
  BY <1>9, <1>10

(* Steps of the workflow and of reviewers leave what attempts add alone. *)
LEMMA RequestsOther ==
    ASSUME TypeOK, TypeOK', RequestsFit, crRows' = crRows,
           \A w \in Workers : job'[w] = job[w] \/ job'[w] = Idle,
           Len(crs') >= Len(crs), overtaken' >= overtaken
    PROVE  RequestsFit'
<1>1. Len(crs) \in Nat /\ Len(crs') \in Nat /\ crRows \in Seq(Nat)
  BY LimitFacts DEF TypeOK, RequestIds
<1>2. RequestsInOrder /\ Given /\ \A id \in RequestIds : Counted(id)
  BY RequestParts
<1>3. RequestsInOrder'
  BY <1>1, <1>2 DEF RequestsInOrder
<1>4. Given'
  <2>1. \A w \in Workers : job[w].requests \in Nat /\ Idle.requests = 0
    BY LimitFacts DEF TypeOK, Jobs, Idle
  <2> QED
    BY <1>1, <1>2, <2>1 DEF Given
<1>5. ASSUME NEW id \in RequestIds PROVE Counted(id)'
  <2>1. Adding(id)' \subseteq Adding(id)
    BY IdleType DEF Adding, Unrecorded
  <2>2. Cardinality(Adding(id)') <= Cardinality(Adding(id))
    BY <2>1, AddingFacts, FS_Subset
  <2> QED
    BY <1>2, <2>2, CountedKept
<1> QED
  BY <1>3, <1>4, <1>5, RequestPartsAfter

LEMMA RequestsStep ==
    ASSUME TypeOK, TypeOK', KnownIsStored, StraysWereOvertaken, RequestsFit, [Next]_vars
    PROVE  RequestsFit'
<1>0. Len(crs) \in Nat /\ overtaken \in Nat
  BY StrayFacts DEF TypeOK
<1>1. ASSUME NEW w \in Workers, ReturnPhase(w) \/ AwaitApproval(w) \/ Route(w)
      PROVE  RequestsFit'
  <2>1. crRows' = crRows /\ overtaken' = overtaken
        /\ \A v \in Workers : job'[v] = job[v] \/ job'[v] = Idle
    BY <1>1, TakenFacts, OtherSlots
  <2>2. crs' = crs \/ crs' = Append(crs, result.target)
    BY <1>1 DEF ReturnPhase, AwaitApproval, Route, RouteBlocked, RouteRetry, RouteLimit,
       RouteHop, RouteNext, RouteEnd
  <2>3. Len(crs') >= Len(crs)
    <3>1. crs' = Append(crs, result.target) => Len(crs') = Len(crs) + 1
      BY DEF TypeOK
    <3> QED
      BY <1>0, <2>2, <3>1
  <2> QED
    BY <1>0, <2>1, <2>3, RequestsOther
<1>2. CASE Elsewhere
  <2>1. crRows' = crRows /\ crs' = crs /\ job' = job
        /\ (overtaken' = overtaken \/ overtaken' = overtaken + 1)
    BY <1>2, ElsewhereFacts
  <2> QED
    BY <1>0, <2>1, RequestsOther
<1> QED
  BY <1>1, <1>2, StepCases, RequestsSlot

(* Change requests are stored in order and without a gap, and again only by  *)
(* attempts that were given up while they ran, one copy each, with any       *)
(* number of slots and losses (run_phase).                                   *)
THEOREM RequestsNotRepeatedHolds == Spec => []RequestsNotRepeated
<1>1. /\ TypeOK /\ TypeOK' /\ KnownIsStored /\ StraysWereOvertaken
      /\ RequestsFit /\ [Next]_vars
      => RequestsFit'
  BY RequestsStep
<1>2. TypeOK /\ RequestsFit => RequestsNotRepeated
  BY CopiesBounded
<1>3. IInv => TypeOK /\ KnownIsStored
  BY DEF IInv
<1> QED
  BY <1>1, <1>2, <1>3, InitRequests, StraysAlways, WorkflowInvariant, PTL DEF Spec

-----------------------------------------------------------------------------
(* Gate rows, with any number of slots.                                      *)

LEMMA PendingFacts ==
    ASSUME TypeOK, NEW k
    PROVE  IsFiniteSet(Pending(k)) /\ Cardinality(Pending(k)) \in Nat
BY WorkflowAssumption, FS_Subset, FS_CardinalityType DEF Pending

(* One slot's step changes the count by what its attempt may still write. *)
LEMMA PendingChanges ==
    ASSUME TypeOK, TypeOK', NEW w \in Workers, NEW j, job' = [job EXCEPT ![w] = j], NEW k
    PROVE  /\ MayWriteRow(job[w], k) = MayWriteRow(j, k) => Pending(k)' = Pending(k)
           /\ ~MayWriteRow(j, k) =>
                 /\ Pending(k)' \subseteq Pending(k)
                 /\ Cardinality(Pending(k)') <= Cardinality(Pending(k))
           /\ MayWriteRow(job[w], k) /\ ~MayWriteRow(j, k) =>
                 Cardinality(Pending(k)') = Cardinality(Pending(k)) - 1
           /\ ~MayWriteRow(job[w], k) /\ MayWriteRow(j, k) =>
                 Cardinality(Pending(k)') = Cardinality(Pending(k)) + 1
<1> DEFINE P0 == Pending(k)
           P1 == {v \in Workers : MayWriteRow(job'[v], k)}
<1>1. Pending(k)' = P1
  BY DEF Pending, MayWriteRow
<1>2. job'[w] = j /\ \A v \in Workers \ {w} : job'[v] = job[v]
  BY OtherSlots
<1>3. /\ P1 \ {w} = P0 \ {w}
      /\ w \in P0 <=> MayWriteRow(job[w], k)
      /\ w \in P1 <=> MayWriteRow(j, k)
  BY <1>2 DEF Pending
<1>4. IsFiniteSet(P0) /\ Cardinality(P0) \in Nat
  BY PendingFacts
<1>5. Cardinality(P0 \ {w}) = IF w \in P0 THEN Cardinality(P0) - 1 ELSE Cardinality(P0)
  BY <1>4, FS_RemoveElement
<1>6. Cardinality(P0 \cup {w}) = IF w \in P0 THEN Cardinality(P0) ELSE Cardinality(P0) + 1
  BY <1>4, FS_AddElement
<1> HIDE DEF P0, P1
<1>7. CASE w \in P0 /\ w \in P1
  <2>1. P1 = P0
    BY <1>3, <1>7
  <2> QED
    BY <1>1, <1>3, <1>4, <1>7, <2>1 DEF P0
<1>8. CASE w \notin P0 /\ w \notin P1
  <2>1. P1 = P0
    BY <1>3, <1>8
  <2> QED
    BY <1>1, <1>3, <1>4, <1>8, <2>1 DEF P0
<1>9. CASE w \in P0 /\ w \notin P1
  <2>1. P1 = P0 \ {w}
    BY <1>3, <1>9
  <2>2. MayWriteRow(job[w], k) # MayWriteRow(j, k)
    BY <1>3, <1>9
  <2> QED
    BY <1>1, <1>3, <1>4, <1>5, <1>9, <2>1, <2>2 DEF P0
<1>10. CASE w \notin P0 /\ w \in P1
  <2>1. P1 = P0 \cup {w}
    BY <1>3, <1>10
  <2>2. MayWriteRow(job[w], k) # MayWriteRow(j, k)
    BY <1>3, <1>10
  <2> QED
    BY <1>1, <1>3, <1>4, <1>6, <1>10, <2>1, <2>2 DEF P0
<1> QED
  BY <1>7, <1>8, <1>9, <1>10

(* The two halves of GateRowsCounted. *)
RowIsThere ==
    /\ pc \in {"record", "wait"} => gateRows[Key] >= 1
    /\ pc = "activity" /\ owner # NoWorker =>
          (job[owner].stage \in {"status", "write", "return"} => gateRows[Key] >= 1)

Allowed(k) == lost + IF k = Key /\ ~InHand THEN 0 ELSE 1

RowsBounded ==
    hops = 0 => \A k \in Keys :
        /\ gateRows[k] + Cardinality(Pending(k)) <= Allowed(k)
        /\ k \in Unreached => gateRows[k] = 0 /\ Pending(k) = {}

LEMMA Halves == GateRowsCounted <=> RowIsThere /\ RowsBounded
BY DEF GateRowsCounted, RowIsThere, RowsBounded, Allowed

LEMMA CountTypes ==
    ASSUME TypeOK, NEW k \in Keys
    PROVE  gateRows[k] \in Nat /\ lost \in Nat /\ Cardinality(Pending(k)) \in Nat
<1>1. gateRows[k] \in Nat /\ lost \in Nat
  BY DEF TypeOK
<1> QED
  BY <1>1, PendingFacts

(* Keys in which nothing has changed but the count of the lost attempts. *)
LEMMA BoundKept ==
    ASSUME TypeOK, TypeOK', NEW k \in Keys,
           gateRows[k] + Cardinality(Pending(k)) <= Allowed(k),
           gateRows'[k] = gateRows[k], Cardinality(Pending(k)') <= Cardinality(Pending(k)),
           Allowed(k)' >= Allowed(k)
    PROVE  (gateRows[k] + Cardinality(Pending(k)) <= Allowed(k))'
<1>1. PICK a, b, c, d : a = gateRows[k] /\ b = Cardinality(Pending(k))
                        /\ c = Allowed(k) /\ d = Allowed(k)'
  OBVIOUS
<1>2. PICK e : e = Cardinality(Pending(k)')
  OBVIOUS
<1>3. a \in Nat /\ b \in Nat /\ c \in Nat
  BY <1>1, CountTypes DEF Allowed
<1>4. e \in Nat /\ d \in Nat
  <2>1. IsFiniteSet(Pending(k)') /\ Cardinality(Pending(k)') \in Nat
    BY PendingFacts, WorkflowAssumption, FS_Subset, FS_CardinalityType DEF Pending
  <2>2. lost' \in Nat
    BY DEF TypeOK
  <2>3. Allowed(k)' = lost' + 0 \/ Allowed(k)' = lost' + 1
    <3>1. Allowed(k)' = lost' + (IF (k = Key /\ ~InHand)' THEN 0 ELSE 1)
      BY Zenon DEF Allowed
    <3> QED
      BY <3>1, Zenon
  <2>4. Allowed(k)' \in Nat
    BY <2>2, <2>3
  <2> QED
    BY <1>1, <1>2, <2>1, <2>4
<1>5. a + b <= c /\ e <= b /\ c <= d
  BY <1>1, <1>2, <1>3
<1>6. a + e <= d
  BY <1>3, <1>4, <1>5
<1> QED
  BY <1>1, <1>2, <1>6

LEMMA RowIsThereSlot ==
    ASSUME IInv, TypeOK', RowIsThere, NEW w \in Workers,
           WorkerStep(w) \/ Crash(w) \/ Dispatch(w)
    PROVE  RowIsThere'
<1>1. PICK j \in Jobs :
        /\ job' = [job EXCEPT ![w] = j]
        /\ \/ Reads(w, j) \/ Stores(w, j) \/ Runs(w, j) \/ Updates(w, j)
           \/ Ends(w, j) \/ Begins(w, j)
  BY SlotStepFacts DEF IInv
<1>2. UNCHANGED <<pc, phase, retries>> /\ Key' = Key /\ Key \in Keys
  BY SlotStepFacts, KeyType DEF control, Key, Attempt, IInv
<1>3. job'[w] = j /\ \A v \in Workers \ {w} : job'[v] = job[v]
  BY <1>1, OtherSlots DEF IInv
<1>4. /\ gateRows[Key] \in Nat
      /\ gateRows' = gateRows \/ gateRows' = WithGateRow(<<job[w].phase, job[w].attempt>>)
  BY <1>1, <1>2 DEF IInv, TypeOK, Reads, Stores, Runs, Updates, Ends, Begins
<1>5. /\ gateRows'[Key] >= gateRows[Key] /\ gateRows'[Key] \in Nat
      /\ gateRows' = WithGateRow(Key) => gateRows'[Key] >= 1
  <2>1. gateRows \in [Keys -> Nat]
    BY DEF IInv, TypeOK
  <2>2. gateRows' = WithGateRow(Key) => gateRows'[Key] = gateRows[Key] + 1
    BY <1>2, <2>1 DEF WithGateRow
  <2>3. gateRows'[Key] = gateRows[Key] \/ gateRows'[Key] = gateRows[Key] + 1
    BY <1>2, <1>4, <2>1 DEF WithGateRow
  <2> QED
    BY <1>4, <2>2, <2>3
<1>6. pc \in {"record", "wait"} => gateRows'[Key] >= 1
  BY <1>4, <1>5 DEF RowIsThere
<1>7. ASSUME pc = "activity", owner' # NoWorker,
             job'[owner'].stage \in {"status", "write", "return"}
      PROVE  gateRows'[Key] >= 1
  <2>1. CASE owner' # w
    <3>1. owner' = owner /\ owner \in Workers /\ job'[owner] = job[owner]
      BY <1>1, <1>3, <1>7, <2>1 DEF Reads, Stores, Runs, Updates, Ends, Begins, IInv, TypeOK
    <3> QED
      BY <1>4, <1>5, <1>7, <3>1 DEF RowIsThere
  <2>2. CASE owner' = w
    <3>1. j.stage \in {"status", "write", "return"}
      BY <1>3, <1>7, <2>2
    <3>2. CASE Runs(w, j)
      <4>1. owner = w /\ job[w].stage = "store"
        BY <2>2, <3>2 DEF Runs, Moved
      <4>2. <<job[w].phase, job[w].attempt>> = Key
        BY <1>7, <4>1 DEF IInv, AttemptIsCurrent, Key
      <4> QED
        BY <1>5, <3>2, <4>2 DEF Runs
    <3>3. CASE Updates(w, j)
      <4>1. owner = w /\ job[w].stage \in {"status", "write"} /\ owner # NoWorker
        BY <1>7, <2>2, <3>3 DEF Updates, Moved
      <4> QED
        BY <1>4, <1>5, <1>7, <4>1 DEF RowIsThere
    <3>4. CASE Begins(w, j)
      BY <1>7, <3>1, <3>4, NewJobFacts DEF Begins, IInv
    <3>5. CASE Reads(w, j) \/ Stores(w, j) \/ Ends(w, j)
      BY <3>1, <3>5, IdleType DEF Reads, Stores, Ends, Moved
    <3> QED
      BY <1>1, <3>2, <3>3, <3>4, <3>5
  <2> QED
    BY <2>1, <2>2
<1> QED
  BY <1>2, <1>6, <1>7 DEF RowIsThere

(* The run has come to the key it is at. *)
LEMMA KeyNotAhead == ASSUME TypeOK PROVE Key \notin Unreached
<1>1. Key[1] = phase /\ Key[2] = Attempt(phase)
  BY DEF Key
<1>2. Position(phase) \in Nat /\ Attempt(phase) \in Nat
  BY LimitFacts DEF Position, TypeOK, Attempt
<1> QED
  BY <1>1, <1>2 DEF Unreached

LEMMA RowsBoundedSlot ==
    ASSUME IInv, TypeOK', RowsBounded, NEW w \in Workers,
           WorkerStep(w) \/ Crash(w) \/ Dispatch(w)
    PROVE  RowsBounded'
<1>0. TypeOK
  BY DEF IInv
<1>1. PICK j \in Jobs :
        /\ job' = [job EXCEPT ![w] = j]
        /\ \/ Reads(w, j) \/ Stores(w, j) \/ Runs(w, j) \/ Updates(w, j)
           \/ Ends(w, j) \/ Begins(w, j)
  BY <1>0, SlotStepFacts
<1>2. /\ UNCHANGED <<pc, hops>> /\ Key' = Key /\ Unreached' = Unreached
      /\ Key \in Keys /\ Key \notin Unreached
  <2>1. UNCHANGED <<pc, hops, phase, retries>> /\ Key \in Keys
    BY <1>0, SlotStepFacts, KeyType DEF control
  <2> QED
    BY <1>0, <2>1, KeyNotAhead DEF Key, Unreached, Attempt
<1>3. job'[w] = j /\ \A v \in Workers \ {w} : job'[v] = job[v]
  BY <1>0, <1>1, OtherSlots
<1> SUFFICES ASSUME hops = 0, NEW k \in Keys
             PROVE  /\ (gateRows[k] + Cardinality(Pending(k)) <= Allowed(k))'
                    /\ k \in Unreached => gateRows'[k] = 0 /\ Pending(k)' = {}
  BY <1>2 DEF RowsBounded
<1>4. /\ gateRows[k] + Cardinality(Pending(k)) <= Allowed(k)
      /\ k \in Unreached => gateRows[k] = 0 /\ Pending(k) = {}
  BY DEF RowsBounded
<1>5. gateRows[k] \in Nat /\ lost \in Nat /\ Cardinality(Pending(k)) \in Nat
  BY <1>0, CountTypes
<1>6. CASE Reads(w, j) \/ Stores(w, j) \/ Updates(w, j)
  <2>1. MayWriteRow(job[w], k) = MayWriteRow(j, k)
    BY <1>6 DEF Reads, Stores, Updates, Moved, MayWriteRow
  <2>2. Pending(k)' = Pending(k)
    BY <1>0, <1>1, <2>1, PendingChanges
  <2>3. gateRows' = gateRows /\ lost' = lost /\ owner' = owner
    BY <1>6 DEF Reads, Stores, Updates
  <2>4. job'[w].stage # "idle" /\ job[w].stage # "idle"
    BY <1>3, <1>6 DEF Reads, Stores, Updates, Moved
  <2>5. InHand' = InHand
    BY <1>2, <1>3, <2>3, <2>4, <1>0 DEF InHand, TypeOK
  <2>6. Allowed(k)' = Allowed(k)
    BY <1>2, <2>3, <2>5 DEF Allowed
  <2> QED
    BY <1>4, <2>2, <2>3, <2>6
<1>7. CASE Runs(w, j)
  <2> DEFINE key == <<job[w].phase, job[w].attempt>>
  <2>1. MayWriteRow(job[w], k) <=> k = key
    BY <1>7 DEF Runs, Moved, MayWriteRow
  <2>2. ~MayWriteRow(j, k)
    BY <1>7 DEF Runs, Moved, MayWriteRow
  <2>3. gateRows'[k] = IF k = key THEN gateRows[k] + 1 ELSE gateRows[k]
    BY <1>0, <1>7 DEF Runs, WithGateRow, TypeOK
  <2>4. lost' = lost /\ owner' = owner /\ job'[w].stage # "idle" /\ job[w].stage # "idle"
    BY <1>3, <1>7 DEF Runs, Moved
  <2>5. InHand' = InHand
    BY <1>0, <1>2, <1>3, <2>4 DEF InHand, TypeOK
  <2>6. Allowed(k)' = Allowed(k) /\ Allowed(k) \in Nat
    BY <1>2, <1>5, <2>4, <2>5 DEF Allowed
  <2>7. CASE k = key
    <3>1. Cardinality(Pending(k)') = Cardinality(Pending(k)) - 1
      BY <1>0, <1>1, <2>1, <2>2, <2>7, PendingChanges
    <3>2. w \in Pending(k)
      BY <2>1, <2>7 DEF Pending
    <3>3. k \notin Unreached
      BY <1>4, <3>2
    <3>4. gateRows'[k] + Cardinality(Pending(k)') <= Allowed(k)
      <4>1. gateRows'[k] = gateRows[k] + 1
        BY <2>3, <2>7
      <4> QED
        BY <1>4, <1>5, <2>6, <3>1, <4>1
    <3> QED
      BY <2>6, <3>3, <3>4
  <2>8. CASE k # key
    <3>0. MayWriteRow(job[w], k) = MayWriteRow(j, k)
      BY <2>1, <2>2, <2>8 DEF MayWriteRow
    <3>1. Pending(k)' = Pending(k)
      BY <1>0, <1>1, <3>0, PendingChanges
    <3> QED
      BY <1>4, <2>3, <2>6, <2>8, <3>1
  <2> QED
    BY <2>7, <2>8
<1>8. CASE Ends(w, j)
  <2>1. ~MayWriteRow(j, k)
    BY <1>8, IdleType DEF Ends, MayWriteRow
  <2>2. /\ Pending(k)' \subseteq Pending(k)
        /\ Cardinality(Pending(k)') <= Cardinality(Pending(k))
    BY <1>0, <1>1, <2>1, PendingChanges
  <2>3. gateRows' = gateRows /\ owner' = owner /\ job[w].stage # "idle"
    BY <1>8 DEF Ends
  <2>4. Allowed(k)' >= Allowed(k)
    <3>1. CASE owner = w
      BY <1>2, <1>5, <1>8, <2>3, <3>1, WorkflowAssumption DEF Ends, Allowed, InHand
    <3>2. CASE owner # w
      <4>1. InHand' = InHand
        BY <1>0, <1>2, <1>3, <2>3, <3>2 DEF InHand, TypeOK
      <4> QED
        BY <1>2, <1>5, <1>8, <3>2, <4>1 DEF Ends, Allowed
    <3> QED
      BY <3>1, <3>2
  <2> QED
    BY <1>0, <1>4, <2>2, <2>3, <2>4, BoundKept
<1>9. CASE Begins(w, j)
  <2>1. gateRows' = gateRows /\ lost' = lost /\ owner = NoWorker /\ owner' = w
    BY <1>9 DEF Begins
  <2>2. ~MayWriteRow(job[w], k)
    BY <1>9 DEF Begins, MayWriteRow
  <2>3. MayWriteRow(j, k) => pc = "activity" /\ k = Key
    BY <1>0, <1>9, NewJobFacts DEF Begins, MayWriteRow, Key
  <2>4. w # NoWorker /\ (pc = "activity" => job'[w].stage = "read")
    BY <1>0, <1>3, <1>9, NewJobFacts, WorkflowAssumption DEF Begins
  <2>5. InHand'
    BY <1>2, <2>1, <2>4 DEF InHand
  <2>6. Allowed(k)' = lost + 1
    BY <2>1, <2>5 DEF Allowed
  <2>7. CASE MayWriteRow(j, k)
    <3>1. Allowed(k) = lost
      BY <1>5, <2>1, <2>3, <2>7 DEF Allowed, InHand
    <3>2. Cardinality(Pending(k)') = Cardinality(Pending(k)) + 1
      BY <1>0, <1>1, <2>2, <2>7, PendingChanges
    <3>3. gateRows'[k] + Cardinality(Pending(k)') <= lost + 1
      BY <1>4, <1>5, <2>1, <3>1, <3>2
    <3>4. k \notin Unreached
      BY <1>2, <2>3, <2>7
    <3> QED
      BY <2>6, <3>3, <3>4
  <2>8. CASE ~MayWriteRow(j, k)
    <3>1. MayWriteRow(job[w], k) = MayWriteRow(j, k)
      BY <2>2, <2>8 DEF MayWriteRow
    <3>2. Pending(k)' = Pending(k)
      BY <1>0, <1>1, <3>1, PendingChanges
    <3>3. Allowed(k)' >= Allowed(k)
      BY <1>5, <2>6 DEF Allowed
    <3> QED
      BY <1>0, <1>4, <1>5, <2>1, <3>2, <3>3, BoundKept
  <2> QED
    BY <2>7, <2>8
<1> QED
  BY <1>1, <1>6, <1>7, <1>8, <1>9

(* Until the first hop the run only comes to keys it has not been at. *)
LEMMA KeysAhead ==
    ASSUME TypeOK, TypeOK', NEW w \in Workers,
           ReturnPhase(w) \/ AwaitApproval(w) \/ Route(w), hops' = 0
    PROVE  /\ hops = 0 /\ Unreached' \subseteq Unreached
           /\ \/ Key' = Key /\ pc' # "activity"
              \/ Key' \in Unreached
<1>1. CASE UNCHANGED <<phase, retries, hops>> /\ pc' # "activity"
  BY <1>1 DEF Unreached, Attempt, Key
<1>2. Key' \in Keys
  BY LimitFacts DEF TypeOK, Key, Keys, Attempt, Attempts
<1>3. CASE RouteRetry(w)
  <2>1. retries' = RetryCounted /\ UNCHANGED <<phase, hops>>
    BY <1>3 DEF RouteRetry
  <2>2. retries'[phase] = retries[phase] + 1 /\ retries[phase] \in Nat
    BY <2>1, LimitFacts DEF RetryCounted, TypeOK
  <2>3. Attempt(phase)' = Attempt(phase) + 1 /\ Attempt(phase) \in Nat
    BY <2>1, <2>2 DEF Attempt
  <2>4. Unreached' \subseteq Unreached
    BY <2>1, <2>3 DEF Unreached, Keys, Attempts
  <2>5. Key' \in Unreached
    BY <1>2, <2>1, <2>3 DEF Unreached, Key
  <2> QED
    BY <2>1, <2>4, <2>5
<1>4. CASE RouteNext(w)
  <2>1. /\ phase' = NextPhase(phase) /\ UNCHANGED <<retries, hops>>
        /\ phase \in Phases \ {LastPhase}
    BY <1>4 DEF RouteNext, TypeOK
  <2>2. Position(phase') > Position(phase)
    BY <2>1 DEF Position, NextPhase, Phases, LastPhase
  <2>3. ASSUME NEW key \in Unreached' PROVE key \in Unreached
    <3>1. key \in Keys /\ Position(key[1]) >= Position(phase')
      BY <2>3 DEF Unreached, Position
    <3>2. Position(key[1]) > Position(phase)
      BY <2>2, <3>1 DEF Position
    <3> QED
      BY <3>1, <3>2 DEF Unreached
  <2>4. Key' \in Unreached
    BY <1>2, <2>2 DEF Unreached, Key
  <2> QED
    BY <2>1, <2>3, <2>4
<1>5. ~RouteHop(w)
  BY DEF RouteHop, HopCounted, TypeOK
<1>6. ReturnPhase(w) \/ AwaitApproval(w) \/ RouteBlocked(w) \/ RouteLimit(w) \/ RouteEnd(w)
         => UNCHANGED <<phase, retries, hops>> /\ pc' # "activity"
  BY DEF ReturnPhase, AwaitApproval, RouteBlocked, RouteLimit, RouteEnd
<1> QED
  BY <1>1, <1>3, <1>4, <1>5, <1>6 DEF Route

LEMMA GateRowsTaken ==
    ASSUME IInv, TypeOK', GateRowsCounted, NEW w \in Workers,
           ReturnPhase(w) \/ AwaitApproval(w) \/ Route(w)
    PROVE  GateRowsCounted'
<1>0. TypeOK /\ RowIsThere /\ RowsBounded
  BY Halves DEF IInv
<1>1. /\ owner = w /\ job[w].stage = "return" /\ owner' = NoWorker
      /\ job' = [job EXCEPT ![w] = Idle] /\ gateRows' = gateRows /\ lost' = lost
  BY <1>0, TakenFacts
<1>2. \A k : Pending(k)' = Pending(k)
  <2>1. \A k : MayWriteRow(job[w], k) = MayWriteRow(Idle, k)
    BY <1>1, IdleType DEF MayWriteRow
  <2> QED
    BY <1>0, <1>1, <2>1, PendingChanges
<1>3. RowIsThere'
  <2>1. CASE ReturnPhase(w)
    <3>1. /\ pc = "activity" /\ pc' = "record" /\ Key' = Key /\ owner # NoWorker
      BY <1>1, <2>1, WorkflowAssumption DEF ReturnPhase, Key, Attempt
    <3> QED
      BY <1>0, <1>1, <3>1 DEF RowIsThere
  <2>2. CASE AwaitApproval(w)
    <3>1. pc = "record" /\ pc' = "wait" /\ Key' = Key
      BY <2>2 DEF AwaitApproval, Key, Attempt
    <3> QED
      BY <1>0, <1>1, <3>1 DEF RowIsThere
  <2>3. CASE Route(w)
    <3>1. pc' \in {"activity", "done"}
      BY <2>3, RouteFrame
    <3> QED
      BY <1>1, <3>1 DEF RowIsThere
  <2> QED
    BY <2>1, <2>2, <2>3
<1>4. RowsBounded'
  <2> SUFFICES ASSUME hops' = 0, NEW k \in Keys
               PROVE  /\ (gateRows[k] + Cardinality(Pending(k)) <= Allowed(k))'
                      /\ k \in Unreached' => gateRows'[k] = 0 /\ Pending(k)' = {}
    BY DEF RowsBounded
  <2>1. gateRows[k] \in Nat /\ lost \in Nat /\ Cardinality(Pending(k)) \in Nat
    BY <1>0, CountTypes
  <2>2. /\ hops = 0 /\ Unreached' \subseteq Unreached
        /\ InHand' \/ k # Key' \/ k \in Unreached
    BY <1>0, KeysAhead DEF InHand
  <2>3. /\ gateRows[k] + Cardinality(Pending(k)) <= Allowed(k)
        /\ k \in Unreached => gateRows[k] = 0 /\ Pending(k) = {}
    BY <1>0, <2>2 DEF RowsBounded
  <2>4. CASE InHand' \/ k # Key'
    <3>1. Allowed(k)' >= Allowed(k)
      BY <1>1, <2>1, <2>4 DEF Allowed
    <3> QED
      BY <1>0, <1>1, <1>2, <2>1, <2>2, <2>3, <3>1, BoundKept
  <2>5. CASE k \in Unreached
    <3>1. gateRows'[k] = 0 /\ Pending(k)' = {} /\ Cardinality(Pending(k)') = 0
      BY <1>1, <1>2, <2>3, <2>5, FS_EmptySet
    <3>2. Allowed(k)' \in Nat
      BY <1>1, <2>1 DEF Allowed
    <3> QED
      BY <3>1, <3>2
  <2> QED
    BY <2>2, <2>4, <2>5
<1> QED
  BY <1>3, <1>4, Halves DEF RowIsThere, RowsBounded, GateRowsCounted, Allowed

LEMMA GateRowsElsewhere ==
    ASSUME IInv, TypeOK', GateRowsCounted, Elsewhere
    PROVE  GateRowsCounted'
<1>0. TypeOK /\ RowIsThere /\ RowsBounded
  BY Halves DEF IInv
<1>1. /\ UNCHANGED <<phase, retries, hops, job, gateRows>>
      /\ lost' \in {lost, lost + 1}
      /\ pc' \in {"record", "wait"} => pc \in {"record", "wait"}
      /\ pc' = "activity" => pc = "activity"
      /\ \/ owner' = owner /\ lost' = lost
         \/ owner' = NoWorker /\ job[owner].stage = "idle" /\ lost' = lost
         \/ owner' = NoWorker /\ lost' = lost + 1
  <2>1. pc \in {"activity", "record", "wait", "done", "failed"}
    BY <1>0 DEF TypeOK, PCs
  <2> QED
    BY <1>0, <2>1, ElsewhereFacts
<1>2. /\ Key' = Key /\ Unreached' = Unreached
      /\ \A k : Pending(k)' = Pending(k)
  BY <1>1 DEF Key, Attempt, Unreached, Pending
<1>3. RowIsThere'
  BY <1>0, <1>1, <1>2 DEF RowIsThere
<1>4. ASSUME hops = 0, NEW k \in Keys
      PROVE  (gateRows[k] + Cardinality(Pending(k)) <= Allowed(k))'
  <2>1. gateRows[k] \in Nat /\ lost \in Nat /\ Cardinality(Pending(k)) \in Nat
    BY <1>0, CountTypes
  <2>2. Allowed(k)' >= Allowed(k)
    <3>1. CASE lost' = lost + 1
      BY <1>1, <2>1, <3>1 DEF Allowed
    <3>2. CASE lost' = lost
      <4>1. InHand => InHand'
        BY <1>1, <2>1, <3>2 DEF InHand
      <4> QED
        BY <1>1, <1>2, <2>1, <3>2, <4>1 DEF Allowed
    <3> QED
      BY <1>1, <3>1, <3>2
  <2> QED
    BY <1>0, <1>1, <1>2, <1>4, <2>1, <2>2, BoundKept DEF RowsBounded
<1>5. RowsBounded'
  BY <1>0, <1>1, <1>2, <1>4 DEF RowsBounded
<1> QED
  BY <1>3, <1>5, Halves DEF RowIsThere, RowsBounded, GateRowsCounted, Allowed

LEMMA InitGateRows == Init => GateRowsCounted
<1> SUFFICES ASSUME Init PROVE GateRowsCounted
  OBVIOUS
<1>1. \A k \in Keys : gateRows[k] = 0 /\ Pending(k) = {} /\ Cardinality(Pending(k)) = 0
  BY IdleType, FS_EmptySet DEF Init, Pending, MayWriteRow
<1>2. pc = "activity" /\ owner = NoWorker /\ lost = 0
  BY DEF Init
<1> QED
  BY <1>1, <1>2 DEF GateRowsCounted

(* A result the workflow acts on has its gate_decisions row, and until the   *)
(* first hop further rows for an attempt are those of lost attempts, one     *)
(* each at most, with any number of slots (gate_node, _gate).                *)
THEOREM GateRowBeforeResultHolds == Spec => []GateRowBeforeResult
<1>1. IInv /\ GateRowsCounted /\ [Next]_vars => GateRowsCounted'
  <2> SUFFICES ASSUME IInv, GateRowsCounted, [Next]_vars PROVE GateRowsCounted'
    OBVIOUS
  <2>1. TypeOK'
    BY StepType DEF IInv
  <2>2. ASSUME NEW w \in Workers, WorkerStep(w) \/ Crash(w) \/ Dispatch(w)
        PROVE  GateRowsCounted'
    <3>1. RowIsThere' /\ RowsBounded'
      BY <2>1, <2>2, Halves, RowIsThereSlot, RowsBoundedSlot
    <3> QED
      BY <3>1 DEF RowIsThere, RowsBounded, GateRowsCounted, Allowed
  <2> QED
    BY <2>1, <2>2, StepCases, GateRowsTaken, GateRowsElsewhere
<1>2. IInv /\ GateRowsCounted => GateRowBeforeResult
  <2> SUFFICES ASSUME IInv, GateRowsCounted PROVE GateRowBeforeResult
    OBVIOUS
  <2>1. ASSUME hops = 0, NEW k \in Keys PROVE gateRows[k] <= 1 + lost
    <3>1. gateRows[k] \in Nat /\ lost \in Nat /\ Cardinality(Pending(k)) \in Nat
      BY CountTypes DEF IInv
    <3>2. gateRows[k] + Cardinality(Pending(k)) <= Allowed(k)
      BY <2>1, Halves DEF RowsBounded
    <3>3. Allowed(k) <= lost + 1 /\ Allowed(k) \in Nat
      BY <3>1 DEF Allowed
    <3> QED
      BY <3>1, <3>2, <3>3
  <2> QED
    BY <2>1 DEF GateRowsCounted, GateRowBeforeResult
<1> QED
  BY <1>1, <1>2, InitGateRows, WorkflowInvariant, PTL DEF Spec

-----------------------------------------------------------------------------
(* Answers to gates.                                                         *)

LEMMA AnswersSpentStep ==
    ASSUME IInv, AnswersSpent, [Next]_vars
    PROVE  AnswersSpent'
<1>0. TypeOK /\ TypeOK'
  BY StepType DEF IInv
<1>1. CASE UNCHANGED <<pc, phase, status, retries, hops, spent>>
  BY <1>1 DEF AnswersSpent, Unreached, Key, Attempt
<1>2. ASSUME NEW w \in Workers, WorkerStep(w) \/ Crash(w) \/ Dispatch(w)
      PROVE  UNCHANGED <<pc, phase, status, retries, hops, spent>>
  BY <1>2 DEF WorkerStep, ReadRun, StoreRequest, RunGraph, WriteStatus, Discard, Crash,
     Dispatch, control, history, losses
<1>3. ASSUME NEW w \in Workers, ReturnPhase(w) \/ AwaitApproval(w) \/ Route(w)
      PROVE  AnswersSpent'
  <2> SUFFICES ASSUME hops' = 0
               PROVE  /\ spent' \cap Unreached' = {}
                      /\ pc' \in {"activity", "wait"} => Key' \notin spent'
                      /\ pc' = "record" /\ status' = "awaiting_approval" => Key' \notin spent'
    BY DEF AnswersSpent
  <2>1. /\ hops = 0 /\ Unreached' \subseteq Unreached
        /\ \/ Key' = Key /\ pc' # "activity"
           \/ Key' \in Unreached
    BY <1>0, <1>3, KeysAhead
  <2>2. spent' = spent
    BY <1>3 DEF ReturnPhase, AwaitApproval, Route, RouteBlocked, RouteRetry, RouteLimit,
       RouteHop, RouteNext, RouteEnd, Routes, history, losses
  <2>3. CASE Key' \in Unreached
    BY <2>1, <2>2, <2>3 DEF AnswersSpent
  <2>4. CASE Key' = Key /\ pc' # "activity"
    <3>1. /\ pc' = "wait" => pc = "record" /\ status = "awaiting_approval"
          /\ pc' = "record" => pc = "activity"
      BY <1>3, <2>4, RouteFrame DEF ReturnPhase, AwaitApproval
    <3> QED
      BY <2>1, <2>2, <2>4, <3>1 DEF AnswersSpent
  <2> QED
    BY <2>1, <2>3, <2>4
<1>4. CASE NoticeLoss \/ Timeout
  BY <1>4 DEF NoticeLoss, Timeout, GiveUp, history, losses, AnswersSpent, Unreached, Key, Attempt
<1>5. CASE Resume
  <2>1. /\ spent' = spent \cup {Key} /\ UNCHANGED <<phase, retries, hops>>
        /\ pc' = "record" /\ status' # "awaiting_approval"
    BY <1>5 DEF Resume
  <2>2. Key' = Key /\ Unreached' = Unreached /\ Key \notin Unreached
    BY <1>0, <2>1, KeyNotAhead DEF Key, Unreached, Attempt
  <2> QED
    BY <2>1, <2>2 DEF AnswersSpent
<1>6. CASE ApprovalTimeout
  <2>1. /\ UNCHANGED <<phase, retries, hops, spent>>
        /\ pc' = "record" /\ status' # "awaiting_approval"
    BY <1>6 DEF ApprovalTimeout, history, losses
  <2>2. Unreached' = Unreached
    BY <2>1 DEF Unreached, Attempt
  <2> QED
    BY <2>1, <2>2 DEF AnswersSpent
<1>7. ASSUME NEW r \in Reviewers, Look(r) \/ Answer(r)
      PROVE  spent' \subseteq spent /\ UNCHANGED <<pc, phase, status, retries, hops>>
  BY <1>7 DEF Look, Answer, control, history, losses
<1>8. CASE \E r \in Reviewers : Look(r) \/ Answer(r)
  BY <1>7, <1>8 DEF AnswersSpent, Unreached, Key, Attempt
<1> QED
  BY <1>0, <1>1, <1>2, <1>3, <1>4, <1>5, <1>6, <1>8, StepCases DEF Elsewhere, vars,
     control, history, losses

(* Before the first hop no answer settles a second gate: a retry asks anew,  *)
(* whoever answers late or twice (approve, _gate).                           *)
THEOREM AnswerReusedOnlyAfterHopHolds == Spec => AnswerReusedOnlyAfterHop
<1>1. Init => AnswersSpent
  BY DEF Init, AnswersSpent
<1>2. IInv /\ AnswersSpent /\ [Next]_vars => AnswersSpent'
  BY AnswersSpentStep
<1>3. IInv /\ AnswersSpent /\ [Next]_vars
         => [pc = "wait" /\ pc' = "record" /\ Key \in spent => hops > 0]_vars
  <2> SUFFICES ASSUME IInv, AnswersSpent, pc = "wait", Key \in spent PROVE hops > 0
    OBVIOUS
  <2> QED
    BY LimitFacts DEF AnswersSpent, IInv, TypeOK
<1> QED
  BY <1>1, <1>2, <1>3, WorkflowInvariant, PTL DEF Spec, AnswerReusedOnlyAfterHop

-----------------------------------------------------------------------------
(* The workflow implements Pipeline.                                         *)

LEMMA InitImplements == Init => P!Init
BY DEF Init, P!Init, Outcome, Phases, P!Phases, FirstPhase, P!FirstPhase

(* Steps that neither route nor fail the workflow are invisible to Pipeline. *)
LEMMA InvisibleStep ==
    ASSUME UNCHANGED <<phase, retries, hops>>,
           \/ UNCHANGED <<pc, status>>
           \/ pc \notin {"done", "failed"} /\ pc' \notin {"done", "failed"}
    PROVE  UNCHANGED P!vars
BY DEF P!vars, Outcome

(* Each branch of _route is the routing step of the same name. *)
LEMMA RouteImplements ==
    ASSUME IInv, NEW w \in Workers, Route(w)
    PROVE  P!Next
<1> USE DEF IInv, P!Next
<1>0. pc = "record" /\ pc' \in {"activity", "done"} /\ Outcome = "running"
  BY RouteFrame DEF Outcome
<1>1. CASE RouteBlocked(w)
  <2>1. status = "blocked" /\ status' = status /\ pc' = "done"
    BY <1>0, <1>1 DEF RouteBlocked, StatusFitsResult
  <2>2. Outcome' = "blocked"
    BY <2>1 DEF Outcome
  <2>3. P!Stop
    BY <1>0, <1>1, <2>2 DEF P!Stop, RouteBlocked
  <2> QED
    BY <2>3
<1>2. CASE RouteRetry(w)
  <2>1. Outcome' = "running"
    BY <1>2 DEF RouteRetry, Outcome
  <2>2. P!Retry
    BY <1>0, <1>2, <2>1 DEF P!Retry, RouteRetry, RetryCounted
  <2> QED
    BY <2>2
<1>3. CASE RouteLimit(w)
  <2>1. Outcome' = "blocked"
    BY <1>3 DEF RouteLimit, Outcome
  <2>2. P!Stop
    BY <1>0, <1>3, <2>1 DEF P!Stop, RouteLimit
  <2> QED
    BY <2>2
<1>4. CASE RouteHop(w)
  <2>1. Outcome' = "running"
    BY <1>4 DEF RouteHop, Outcome
  <2>2. phase = "test_eval" /\ phase' \in TriageTargets
    BY <1>4 DEF RouteHop, TriageAsks, TypeOK, Results
  <2>3. P!Hop
    BY <1>0, <1>4, <2>1, <2>2 DEF P!Hop, RouteHop, HopCounted, HopsLeft, TriageTargets, P!TriageTargets
  <2> QED
    BY <2>3
<1>5. CASE RouteNext(w)
  <2>1. Outcome' = "running"
    BY <1>5 DEF RouteNext, Outcome
  <2>2. phase # P!LastPhase /\ phase' = P!NextPhase(phase)
    BY <1>5 DEF RouteNext, LastPhase, P!LastPhase, NextPhase, P!NextPhase
  <2>3. P!Advance
    BY <1>0, <1>5, <2>1, <2>2 DEF P!Advance, RouteNext
  <2> QED
    BY <2>3
<1>6. CASE RouteEnd(w)
  <2>1. phase = LastPhase /\ status \notin {"awaiting_approval", "blocked"}
    BY <1>6 DEF RouteEnd, Routes
  <2>2. status = "completed"
    BY <1>0, <2>1 DEF StatusFitsResult, TypeOK, Statuses
  <2>3. Outcome' = "completed"
    BY <1>6, <2>2 DEF RouteEnd, Outcome
  <2>4. P!Finish
    BY <1>0, <1>6, <2>1, <2>3 DEF P!Finish, RouteEnd, LastPhase, P!LastPhase
  <2> QED
    BY <2>4
<1> QED
  BY <1>1, <1>2, <1>3, <1>4, <1>5, <1>6 DEF Route

(* A loss is invisible, unless it was the last attempt's and fails the run.  *)
LEMMA GiveUpImplements ==
    ASSUME GiveUp
    PROVE  P!Next \/ UNCHANGED P!vars
<1>1. CASE pc = "activity" /\ pc' = "failed"
  <2>1. Outcome = "running" /\ Outcome' = "failed"
    BY <1>1 DEF Outcome
  <2>2. P!Stop
    BY <1>1, <2>1 DEF GiveUp, P!Stop
  <2> QED
    BY <2>2 DEF P!Next
<1>2. CASE UNCHANGED pc
  BY <1>2, InvisibleStep DEF GiveUp
<1> QED
  BY <1>1, <1>2 DEF GiveUp

LEMMA StepImplements == IInv /\ [Next]_vars => [P!Next]_P!vars
<1> SUFFICES ASSUME IInv, [Next]_vars PROVE P!Next \/ UNCHANGED P!vars
  OBVIOUS
<1>1. CASE UNCHANGED vars
  BY <1>1, InvisibleStep DEF vars, control
<1>2. ASSUME NEW w \in Workers, WorkerStep(w) \/ Crash(w) \/ Dispatch(w)
      PROVE  UNCHANGED P!vars
  BY <1>2, InvisibleStep
     DEF WorkerStep, ReadRun, StoreRequest, RunGraph, WriteStatus, Discard,
         Crash, Dispatch, control
<1>3. ASSUME NEW w \in Workers, ReturnPhase(w) \/ AwaitApproval(w)
      PROVE  UNCHANGED P!vars
  BY <1>3, InvisibleStep DEF ReturnPhase, AwaitApproval
<1>4. ASSUME NEW w \in Workers, Route(w) PROVE P!Next
  BY <1>4, RouteImplements
<1>5. CASE NoticeLoss \/ Timeout
  BY <1>5, GiveUpImplements DEF NoticeLoss, Timeout
<1>6. CASE Resume \/ ApprovalTimeout
  BY <1>6, InvisibleStep DEF Resume, ApprovalTimeout
<1>7. ASSUME NEW r \in Reviewers, Look(r) \/ Answer(r) PROVE UNCHANGED P!vars
  BY <1>7, InvisibleStep DEF Look, Answer, control
<1> QED
  BY <1>1, <1>2, <1>3, <1>4, <1>5, <1>6, <1>7 DEF Next, WorkflowStep

(* Whatever is lost, retried or answered, the workflow routes as promised.   *)
THEOREM WorkflowImplementsPipeline == Spec => ImplementsPipeline
BY InitImplements, WorkflowInvariant, StepImplements, PTL
   DEF Spec, ImplementsPipeline, P!Spec

(* So every routing step uses up some of the limits. *)
THEOREM RoutingMakesProgressHolds == Spec => RoutingMakesProgress
<1> USE DEF P!vars, PP!vars
<1>1. P!Init => PP!Init
  BY DEF P!Init, PP!Init, P!FirstPhase, PP!FirstPhase, P!Phases, PP!Phases
<1>2. [P!Next]_P!vars => [PP!Next]_PP!vars
  BY DEF P!Next, PP!Next, P!Advance, PP!Advance, P!Finish, PP!Finish,
         P!Retry, PP!Retry, P!Hop, PP!Hop, P!Stop, PP!Stop,
         P!LastPhase, PP!LastPhase, P!NextPhase, PP!NextPhase,
         P!TriageTargets, PP!TriageTargets
<1>3. [PP!Measure' < PP!Measure /\ PP!Measure' >= 0]_PP!vars
        => [P!Measure' < P!Measure /\ P!Measure' >= 0]_P!vars
  BY DEF P!Measure, PP!Measure, P!Position, PP!Position
<1>4. PP!Spec => PP!Decreases
  BY LimitsAssumption, PP!PipelineDecreases
<1> QED
  BY <1>1, <1>2, <1>3, <1>4, WorkflowImplementsPipeline, PTL
     DEF ImplementsPipeline, RoutingMakesProgress, P!Spec, PP!Spec,
         P!Decreases, PP!Decreases
=============================================================================
