----------------------------- MODULE RunWorkflow -----------------------------
(* A distributed run: the Temporal workflow AidlcRunWorkflow, the activities *)
(* run_phase and record_status on a pool of worker slots, the database they  *)
(* share, and the reviewers who answer gates with the client's approve.      *)
(*                                                                           *)
(* Temporal itself is external and modelled by what the code relies on: the  *)
(* workflow's own state survives crashes; an activity attempt may be lost    *)
(* and is then retried, and a lost attempt may still be running; a signal is *)
(* applied between two workflow steps; a timer fires in the end.             *)
EXTENDS Gate, Sequences, FiniteSets

CONSTANTS
    Workers,        \* activity slots of the worker pool
    Reviewers,      \* people who answer gates
    Overalls,       \* the scores each phase's evaluation can have, in percent
    RiskLevels,     \* the risk levels a run can be started with
    AutoModes,      \* whether it can be started with auto_approve, without, or both
    MaxAttempts,    \* attempts of one run_phase activity (3)
    MaxLost,        \* bound on attempts lost in a whole run
    MaxQueries      \* bound on how often reviewers look at a gate to answer it

NoWorker == "no worker"
NoKey == <<>>

ASSUME WorkflowAssumption ==
    /\ NoWorker \notin Workers /\ IsFiniteSet(Workers)
    /\ Overalls \in [Phases -> SUBSET Nat]
    /\ RiskLevels \subseteq Risks
    /\ AutoModes \subseteq BOOLEAN
    /\ MaxAttempts \in Nat \ {0}
    /\ MaxLost \in Nat
    /\ MaxQueries \in Nat

VARIABLES
    \* the workflow instance
    request,    \* StartRun and the run's context: auto_approve and risk_level
    pc,         \* where run() is: at an activity, at the wait, or over
    phase, status, retries, hops,
    crs,        \* targets of the change requests CR-1, CR-2, ...
    result,     \* the PhaseResult in hand, its gate as _gate returns it
    approvals,  \* the latest answer to each gate key
    \* activity execution
    owner,      \* the slot whose completion the server will accept
    tries,      \* attempts started or lost of the current run_phase, plus one
    job,        \* what each slot is doing, a lost attempt included
    \* the database
    row,        \* status and phase in the runs table
    rowLate,    \* it was written last by an attempt nobody waited for
    crRows,     \* ids in the change_requests table, in insertion order
    gateRows,   \* how many gate_decisions rows each key has
    triage,     \* what the latest triage_report asks for
    \* the clients
    looked,     \* the key each reviewer is about to answer
    queries,
    \* bounds and history
    lost,       \* attempts lost so far
    overtaken,  \* those of them that were still running when they were given up
    consent,    \* the answer that settled the gate in hand
    spent,      \* keys whose stored answer has already settled a gate
    verified    \* phases passed since anything they build on last changed

control == <<request, pc, phase, status, retries, hops, crs, result>>
activity == <<owner, tries, job>>
database == <<row, rowLate, crRows, gateRows, triage>>
clients == <<looked, queries>>
losses == <<lost, overtaken>>
history == <<consent, spent, verified>>
vars == <<control, approvals, activity, database, clients, losses, history>>

Attempts == 1 .. MaxRetries + 1
Keys == Phases \X Attempts
Answers == {"none", "yes", "no"}
RequestIds == 1 .. MaxHops
PCs == {"activity", "record", "wait", "done", "failed"}
Stages == {"idle", "read", "store", "status", "write", "return"}

NoResult == [overall |-> 0, target |-> NoTarget, decision |-> "review"]

Results == [overall : Nat,
            target : TriageTargets \cup {NoTarget},
            decision : Decisions]

(* An activity attempt: run_phase goes through all stages, record_status     *)
(* only writes the row.  attempt and requests are its PhaseInput; known is   *)
(* what it has read or stored of the run's change requests.                  *)
Jobs == [stage : Stages, phase : Phases, attempt : Attempts,
         requests : 0..MaxHops, known : SUBSET RequestIds,
         status : Statuses, result : Results]

Idle == [stage |-> "idle", phase |-> FirstPhase, attempt |-> 1, requests |-> 0,
         known |-> {}, status |-> "running", result |-> NoResult]

TypeOK ==
    /\ request \in [auto : AutoModes, risk : RiskLevels]
    /\ pc \in PCs
    /\ phase \in Phases
    /\ status \in Statuses
    /\ retries \in [Phases -> 0..MaxRetries]
    /\ hops \in 0..MaxHops
    /\ crs \in Seq(TriageTargets) /\ Len(crs) = hops
    /\ result \in Results
    /\ approvals \in [Keys -> Answers]
    /\ owner \in Workers \cup {NoWorker}
    /\ tries \in 1..MaxAttempts
    /\ job \in [Workers -> Jobs]
    /\ row \in [status : Statuses, phase : Phases]
    /\ rowLate \in BOOLEAN
    /\ crRows \in Seq(RequestIds)
    /\ gateRows \in [Keys -> Nat]
    /\ triage \in TriageTargets \cup {NoTarget}
    /\ looked \in [Reviewers -> Keys \cup {NoKey}]
    /\ queries \in 0..MaxQueries
    /\ lost \in 0..MaxLost
    /\ overtaken \in 0..lost
    /\ consent \in Answers
    /\ spent \subseteq Keys
    /\ verified \subseteq Phases

-----------------------------------------------------------------------------
(* An attempt number that does not count retries. *)
AttemptNotCounted(p) == 1

(* The attempt of phase p that is next or under way; only routing changes    *)
(* retries, so run()'s local variable and get_status agree on it.            *)
Attempt(p) == retries[p] + 1

Key == <<phase, Attempt(phase)>>

(* What get_status says is awaited, or what approve answers when nothing is. *)
AwaitedKey == IF status = "awaiting_approval" THEN Key ELSE <<FirstPhase, 1>>

PhaseJob == [Idle EXCEPT !.stage = "read",
                         !.phase = phase,
                         !.attempt = Attempt(phase),
                         !.requests = Len(crs)]

(* A record_status whose arguments were taken before the status was set. *)
RecordJobOfOldStatus == [Idle EXCEPT !.stage = "write",
                                     !.phase = phase]

RecordJob == [Idle EXCEPT !.stage = "write",
                          !.phase = phase,
                          !.status = status]

(* A gate in the activity that is never told of earlier attempts. *)
GateRetriesForgotten(j) == 0

(* state.retries[phase] as run_phase rebuilds it from the PhaseInput. *)
GateRetries(j) == j.attempt - 1

(* All but the newest: a loop that ends one too early. *)
UnrecordedButLast(j) == (1 .. j.requests - 1) \ j.known

(* Change requests the attempt was given and has not seen in the database. *)
Unrecorded(j) == (1..j.requests) \ j.known

(* A gate that keeps its decision to itself. *)
WithoutGateRow(key) == gateRows

WithGateRow(key) == [gateRows EXCEPT ![key] = @ + 1]

(* A lookup that finds none of the run's requests. *)
NothingStored == {}

Stored == {crRows[i] : i \in 1..Len(crRows)}

(* The rows of a request: nothing keeps its id from being inserted again. *)
Copies(id) == Cardinality({i \in 1..Len(crRows) : crRows[i] = id})

(* What run_phase finds in triage_report afterwards: test_eval writes a new  *)
(* one, the other phases still have the one their state was loaded with.     *)
TargetsOf(j) ==
    IF j.phase = "test_eval" THEN TriageTargets \cup {NoTarget} ELSE {j.result.target}

Init ==
    /\ request \in [auto : AutoModes, risk : RiskLevels]
    /\ pc = "activity"
    /\ phase = FirstPhase
    /\ status = "running"
    /\ retries = [p \in Phases |-> 0]
    /\ hops = 0
    /\ crs = <<>>
    /\ result = NoResult
    /\ approvals = [k \in Keys |-> "none"]
    /\ owner = NoWorker
    /\ tries = 1
    /\ job = [w \in Workers |-> Idle]
    /\ row = [status |-> "running", phase |-> FirstPhase]
    /\ rowLate = FALSE
    /\ crRows = <<>>
    /\ gateRows = [k \in Keys |-> 0]
    /\ triage = NoTarget
    /\ looked = [r \in Reviewers |-> NoKey]
    /\ queries = 0
    /\ lost = 0
    /\ overtaken = 0
    /\ consent = "none"
    /\ spent = {}
    /\ verified = {}

-----------------------------------------------------------------------------
(* Activity attempts.                                                        *)

(* A slot takes the activity the workflow has scheduled. *)
Dispatch(w) ==
    /\ pc \in {"activity", "record"}
    /\ owner = NoWorker
    /\ job[w].stage = "idle"
    /\ owner' = w
    /\ job' = [job EXCEPT ![w] = IF pc = "activity" THEN PhaseJob ELSE RecordJob]
    /\ UNCHANGED <<control, approvals, tries, database, clients, losses, history>>

(* run_phase reads the run, with the change requests stored so far, and the  *)
(* latest artifacts, a triage report among them.                             *)
ReadRun(w) ==
    /\ job[w].stage = "read"
    /\ job' = [job EXCEPT ![w].stage = "store", ![w].known = Stored,
                          ![w].result.target = triage]
    /\ UNCHANGED <<control, approvals, owner, tries, database, clients, losses, history>>

(* It adds, one by one and in order, the requests that were not stored then. *)
StoreRequest(w) ==
    /\ job[w].stage = "store"
    /\ \E id \in Unrecorded(job[w]) :
          /\ \A other \in Unrecorded(job[w]) : id <= other
          /\ crRows' = Append(crRows, id)
          /\ job' = [job EXCEPT ![w].known = @ \cup {id}]
    /\ UNCHANGED <<control, approvals, owner, tries, row, rowLate, gateRows, triage,
                   clients, losses, history>>

(* It runs the phase's graph: the agents' work ends in a score and, in       *)
(* test_eval, perhaps a triage target; the gate records its decision.        *)
RunGraph(w) ==
    LET j == job[w] IN
    /\ j.stage = "store"
    /\ Unrecorded(j) = {}
    /\ \E overall \in Overalls[j.phase], target \in TargetsOf(j) :
          LET decision == RecordedDecision(overall, request.risk,
                                           GateRetries(j), request.auto)
          IN  /\ job' = [job EXCEPT
                ![w].stage = "status",
                ![w].status = GateStatus(j.phase, overall, decision),
                ![w].result = [overall |-> overall, target |-> target,
                               decision |-> decision]]
              /\ triage' = IF j.phase = "test_eval" THEN target ELSE triage
    /\ gateRows' = WithGateRow(<<j.phase, j.attempt>>)
    /\ UNCHANGED <<control, approvals, owner, tries, row, rowLate, crRows, clients,
                   losses, history>>

(* update_status: by the gate after its row, again at the end of run_phase,  *)
(* and by record_status.                                                     *)
WriteStatus(w) ==
    /\ job[w].stage \in {"status", "write"}
    /\ row' = [status |-> job[w].status, phase |-> job[w].phase]
    /\ rowLate' = (owner # w)
    /\ job' = [job EXCEPT ![w].stage = IF @ = "status" THEN "write" ELSE "return"]
    /\ UNCHANGED <<control, approvals, owner, tries, crRows, gateRows, triage, clients,
                   losses, history>>

(* A lost attempt ends; nobody takes its result. *)
Discard(w) ==
    /\ job[w].stage = "return"
    /\ owner # w
    /\ job' = [job EXCEPT ![w] = Idle]
    /\ UNCHANGED <<control, approvals, owner, tries, database, clients, losses, history>>

(* A worker process dies, or the attempt in the slot raises. *)
Crash(w) ==
    /\ job[w].stage # "idle"
    /\ owner = w => lost < MaxLost
    /\ job' = [job EXCEPT ![w] = Idle]
    /\ lost' = IF owner = w THEN lost + 1 ELSE lost
    /\ UNCHANGED <<overtaken, control, approvals, owner, tries, database, clients, history>>

(* The server takes the attempt in hand for lost: another try, or the        *)
(* workflow fails.  record_status is tried for as long as it takes.          *)
GiveUp ==
    /\ owner' = NoWorker
    /\ IF pc = "activity" /\ tries = MaxAttempts
       THEN /\ pc' = "failed"
            /\ UNCHANGED tries
       ELSE /\ tries' = IF pc = "activity" THEN tries + 1 ELSE tries
            /\ UNCHANGED pc
    /\ UNCHANGED <<request, phase, status, retries, hops, crs, result,
                   approvals, job, database, clients, history>>

(* It is gone. *)
NoticeLoss ==
    /\ owner # NoWorker
    /\ job[owner].stage = "idle"
    /\ GiveUp
    /\ UNCHANGED losses

(* It is still running, but later than its timeout allows: heartbeats are    *)
(* sent only before and after the graph.                                     *)
Timeout ==
    /\ owner # NoWorker
    /\ job[owner].stage # "idle"
    /\ lost < MaxLost
    /\ GiveUp
    /\ lost' = lost + 1
    /\ overtaken' = overtaken + 1

(* The slot's attempt is the one the server waits for, and it is through. *)
Completes(w) ==
    /\ owner = w
    /\ job[w].stage = "return"
    /\ owner' = NoWorker
    /\ tries' = 1
    /\ job' = [job EXCEPT ![w] = Idle]

-----------------------------------------------------------------------------
(* The workflow.                                                             *)

(* The status _gate sets for a result that needs no wait, or the wait. *)
SettledStatus(decision) ==
    IF decision = "block" THEN "blocked"
    ELSE IF decision # "auto" /\ ~request.auto THEN "awaiting_approval"
    ELSE IF phase = LastPhase THEN "completed" ELSE "running"

(* run_phase returned: _gate sets the status and has it recorded. *)
ReturnPhase(w) ==
    /\ pc = "activity"
    /\ Completes(w)
    /\ result' = job[w].result
    /\ status' = SettledStatus(job[w].result.decision)
    /\ pc' = "record"
    /\ UNCHANGED <<request, phase, retries, hops, crs, approvals, database,
                   clients, losses, history>>

(* record_status returned, for a gate that is to be approved. *)
AwaitApproval(w) ==
    /\ pc = "record"
    /\ status = "awaiting_approval"
    /\ Completes(w)
    /\ pc' = "wait"
    /\ UNCHANGED <<request, phase, status, retries, hops, crs, result,
                   approvals, database, clients, losses, history>>

(* There is an answer to the awaited key, from before the wait or since. *)
Resume ==
    /\ pc = "wait"
    /\ approvals[Key] # "none"
    /\ consent' = approvals[Key]
    /\ spent' = spent \cup {Key}
    /\ IF approvals[Key] = "yes"
       THEN /\ status' = IF phase = LastPhase THEN "completed" ELSE "running"
            /\ result' = [result EXCEPT !.decision = "auto"]
       ELSE /\ status' = "blocked"
            /\ result' = [result EXCEPT !.decision = "block"]
    /\ pc' = "record"
    /\ UNCHANGED <<request, phase, retries, hops, crs, approvals, activity,
                   database, clients, losses, verified>>

(* A wait without a timeout. *)
WaitForGood == FALSE

(* Fourteen days without one. *)
ApprovalTimeout ==
    /\ pc = "wait"
    /\ approvals[Key] = "none"
    /\ status' = "blocked"
    /\ result' = [result EXCEPT !.decision = "block"]
    /\ pc' = "record"
    /\ UNCHANGED <<request, phase, retries, hops, crs, approvals, activity,
                   database, clients, losses, history>>

-----------------------------------------------------------------------------
(* _route, run as soon as record_status has returned.                        *)

(* One hop more than the limit. *)
OneHopMore == hops <= MaxHops

HopsLeft == hops < MaxHops

HopCounted == hops + 1

RetryCounted == [retries EXCEPT ![phase] = @ + 1]

TriageAsks == phase = "test_eval" /\ result.target # NoTarget

(* _route is reached, and the gate let the result through. *)
Routes(w) ==
    /\ pc = "record"
    /\ status \notin {"awaiting_approval", "blocked"}
    /\ result.decision # "block"
    /\ Completes(w)
    /\ UNCHANGED <<request, approvals, database, clients, losses, spent>>

(* The visit is over; its result and the answer to its gate are not used again. *)
Leave ==
    /\ result' = NoResult
    /\ consent' = "none"

(* The gate blocked. *)
RouteBlocked(w) ==
    /\ pc = "record"
    /\ status = "blocked" \/ result.decision = "block"
    /\ status # "awaiting_approval"
    /\ Completes(w)
    /\ pc' = "done"
    /\ UNCHANGED <<request, phase, status, retries, hops, crs, result, approvals,
                   database, clients, losses, history>>

(* The same phase again. *)
RouteRetry(w) ==
    /\ ~Passed(result.overall)
    /\ retries[phase] < MaxRetries
    /\ Routes(w)
    /\ retries' = RetryCounted
    /\ pc' = "activity"
    /\ Leave
    /\ UNCHANGED <<phase, status, hops, crs, verified>>

(* A limit is reached.  The status changes and is not recorded again. *)
LimitReached ==
    \/ ~Passed(result.overall) /\ retries[phase] >= MaxRetries
    \/ Passed(result.overall) /\ TriageAsks /\ ~HopsLeft

RouteLimit(w) ==
    /\ LimitReached
    /\ Routes(w)
    /\ status' = "blocked"
    /\ pc' = "done"
    /\ UNCHANGED <<phase, retries, hops, crs, result, consent, verified>>

(* Back to the phase triage names, with a new change request. *)
RouteHop(w) ==
    /\ Passed(result.overall)
    /\ TriageAsks
    /\ HopsLeft
    /\ Routes(w)
    /\ hops' = HopCounted
    /\ crs' = Append(crs, result.target)
    /\ phase' = result.target
    /\ verified' = verified \cap Before(result.target)
    /\ pc' = "activity"
    /\ Leave
    /\ UNCHANGED <<status, retries>>

RouteNext(w) ==
    /\ Passed(result.overall)
    /\ ~TriageAsks
    /\ phase # LastPhase
    /\ Routes(w)
    /\ phase' = NextPhase(phase)
    /\ verified' = verified \cup {phase}
    /\ pc' = "activity"
    /\ Leave
    /\ UNCHANGED <<status, retries, hops, crs>>

RouteEnd(w) ==
    /\ Passed(result.overall)
    /\ phase = LastPhase
    /\ Routes(w)
    /\ verified' = verified \cup {phase}
    /\ pc' = "done"
    /\ UNCHANGED <<phase, status, retries, hops, crs, result, consent>>

Route(w) ==
    \/ RouteBlocked(w) \/ RouteRetry(w) \/ RouteLimit(w)
    \/ RouteHop(w) \/ RouteNext(w) \/ RouteEnd(w)

-----------------------------------------------------------------------------
(* Reviewers: the client's approve is a query and, some time later, a signal.*)

Look(r) ==
    /\ looked[r] = NoKey
    /\ queries < MaxQueries
    /\ looked' = [looked EXCEPT ![r] = AwaitedKey]
    /\ queries' = queries + 1
    /\ UNCHANGED <<control, approvals, activity, database, losses, history>>

(* The signal is kept under the key that was seen, over any earlier answer;  *)
(* a closed workflow takes none.                                             *)
Answer(r) ==
    /\ looked[r] # NoKey
    /\ looked' = [looked EXCEPT ![r] = NoKey]
    /\ IF pc \in {"done", "failed"}
       THEN UNCHANGED <<approvals, spent>>
       ELSE /\ \E answer \in {"yes", "no"} :
                  approvals' = [approvals EXCEPT ![looked[r]] = answer]
            /\ spent' = spent \ {looked[r]}
    /\ UNCHANGED <<control, activity, database, queries, losses, consent, verified>>

-----------------------------------------------------------------------------
WorkerStep(w) ==
    ReadRun(w) \/ StoreRequest(w) \/ RunGraph(w) \/ WriteStatus(w) \/ Discard(w)

WorkflowStep ==
    \/ \E w \in Workers : Dispatch(w) \/ ReturnPhase(w) \/ AwaitApproval(w) \/ Route(w)
    \/ NoticeLoss
    \/ Resume
    \/ ApprovalTimeout

Next ==
    \/ \E w \in Workers : WorkerStep(w) \/ Crash(w)
    \/ WorkflowStep
    \/ Timeout
    \/ \E r \in Reviewers : Look(r) \/ Answer(r)

Spec == Init /\ [][Next]_vars

(* A slot works on as long as it is not interrupted; the server dispatches,  *)
(* notices a dead attempt and delivers; the approval timer fires.  Nobody    *)
(* owes an answer, and no attempt has to be lost.                            *)
Fairness ==
    /\ \A w \in Workers : WF_vars(WorkerStep(w))
    /\ WF_vars(WorkflowStep)

FairSpec == Spec /\ Fairness

-----------------------------------------------------------------------------
(* What holds.                                                               *)

Closed == pc \in {"done", "failed"}

Outcome ==
    IF pc = "done" THEN IF status = "completed" THEN "completed" ELSE "blocked"
    ELSE IF pc = "failed" THEN "failed" ELSE "running"

P == INSTANCE Pipeline WITH outcome <- Outcome

(* The workflow visits, repeats and ends as routing promises, whatever is    *)
(* lost, retried, answered late or answered twice (run and _route).          *)
ImplementsPipeline == P!Spec

(* No sequence of retries and hops is free: every routing step uses up some  *)
(* of the two limits (_route).                                               *)
RoutingMakesProgress == P!Decreases

(* A run leaves a phase forward, or ends completed, only with an evaluation  *)
(* that passed and with somebody's consent: the policy's for a high score at *)
(* low risk, auto-approval's, or a reviewer's yes to this phase and attempt. *)
(* Overlapping answers of several reviewers do not get around it (_gate).    *)
ForwardNeedsConsent ==
    [][ verified' # verified =>
          /\ Passed(result.overall)
          /\ \/ request.auto
             \/ request.risk = "low" /\ result.overall >= AutoMark
             \/ consent = "yes" ]_vars

(* What is deployed went through every earlier phase again after the last    *)
(* change triage asked for: no route reaches deploy with a design, a build   *)
(* or a test older than what it depends on (_route and next_phase).          *)
DeployIsVerified == phase = LastPhase => Before(LastPhase) \subseteq verified

(* The gate in the activity and the counter in the workflow agree on how     *)
(* often a phase was tried: when no retry is left a failure is blocked by    *)
(* the gate, with its decision recorded, and _route's own limit on retries   *)
(* is never what stops a run (gate.py decides from PhaseInput.attempt).      *)
GateSpendsRetries ==
    pc \in {"record", "wait"} /\ ~Passed(result.overall) /\ retries[phase] = MaxRetries
        => status = "blocked"

(* While a reviewer is waited for, everybody looking at the database sees    *)
(* it, and a closed run shows there what it ended as, unless a limit in      *)
(* _route ended it.  One thing alone can hide it: the last update of the row *)
(* came from an attempt that was given up while it ran; attempts that die    *)
(* leave no such trace, nor does a late one that record_status follows       *)
(* (run_phase and record_status, in slots that overlap).                     *)
RowMirrorsWorkflow ==
    pc = "wait" \/ (pc = "done" /\ ~(LimitReached /\ result.decision # "block"))
        => \/ row = [status |-> status, phase |-> phase]
           \/ rowLate /\ overtaken > 0

(* A phase works on change requests that are all in the database, whoever    *)
(* asked for them and whichever attempt stored them (run_phase, which adds   *)
(* what it does not find before it runs the graph).                          *)
RequestsStoredFirst ==
    \A w \in Workers : job[w].stage \in {"status", "write", "return"}
                           => 1..job[w].requests \subseteq Stored

(* Change requests are stored in order and without a gap, also when attempts *)
(* are lost between two of them.                                             *)
RequestsInOrder ==
    \A i \in 1..Len(crRows) :
        /\ crRows[i] <= Len(crs)
        /\ \A id \in 1 .. crRows[i] - 1 : \E j \in 1 .. i - 1 : crRows[j] = id

(* And a retry finds what the lost attempt stored: a request is stored again *)
(* only by attempts that were given up while they ran, at most once by each, *)
(* and by no more attempts than run side by side (run_phase looks up what is *)
(* stored once, then adds what was missing; the table has no key).           *)
RequestsNotRepeated ==
    /\ RequestsInOrder
    /\ \A id \in RequestIds : /\ Copies(id) <= 1 + overtaken
                              /\ Copies(id) <= Cardinality(Workers)

(* The workflow acts on a result only after the gate's decision is in the    *)
(* database; until the first hop, more than one row for an attempt is the    *)
(* trace of an attempt that was lost, each of which leaves at most one.      *)
GateRowBeforeResult ==
    /\ pc \in {"record", "wait"} => gateRows[Key] >= 1
    /\ hops = 0 => \A k \in Keys : gateRows[k] <= 1 + lost

(* An answer settles a gate a second time only after a hop has taken the run *)
(* back to a phase it had passed: retries ask for a new answer (approvals    *)
(* are kept by phase and attempt).                                           *)
AnswerReusedOnlyAfterHop ==
    [][ pc = "wait" /\ pc' = "record" /\ Key \in spent => hops > 0 ]_vars

(* Every run ends, with or without reviewers (the approval timer, the retry  *)
(* limits and the attempt limit together).                                   *)
EventuallyCloses == <>Closed

-----------------------------------------------------------------------------
(* Why the properties above that are proved hold: an inductive invariant.    *)

(* The attempt the server waits for is the one the workflow asked for, and   *)
(* its decision is the gate's for that attempt's score and earlier tries.    *)
AttemptIsCurrent ==
    \A w \in Workers :
        owner = w /\ pc = "activity" /\ job[w].stage # "idle" =>
            /\ job[w].phase = phase
            /\ job[w].attempt = Attempt(phase)
            /\ job[w].stage \in {"status", "write", "return"} =>
                  job[w].result.decision =
                      RecordedDecision(job[w].result.overall, request.risk,
                                       retries[phase], request.auto)

(* The workflow's status says what became of the result in hand. *)
StatusFitsResult ==
    /\ pc = "wait" => status = "awaiting_approval"
    /\ pc \in {"record", "wait"} =>
          /\ result.decision = "block" <=> status = "blocked"
          /\ status \in {"running", "completed"} =>
                status = IF phase = LastPhase THEN "completed" ELSE "running"

(* Somebody consented to a result that routing will take forward. *)
ConsentGiven ==
    pc = "record" /\ status \in {"running", "completed"} =>
        \/ request.auto
        \/ consent = "yes"
        \/ request.risk = "low" /\ result.overall >= AutoMark

(* The phases before the one being visited are verified. *)
PrefixVerified == Before(phase) \subseteq verified

(* What an attempt takes as stored is stored; what it was given is, once its *)
(* graph has run.                                                            *)
KnownIsStored ==
    \A w \in Workers :
        /\ job[w].known \subseteq Stored
        /\ job[w].stage \in {"status", "write", "return"} =>
              1..job[w].requests \subseteq Stored

IInv ==
    /\ TypeOK
    /\ AttemptIsCurrent
    /\ StatusFitsResult
    /\ GateSpendsRetries
    /\ ConsentGiven
    /\ PrefixVerified
    /\ KnownIsStored

(* Attempts that run although nobody waits for them were overtaken, and only *)
(* they leave a late row.                                                    *)
Strays == {w \in Workers : w # owner /\ job[w].stage # "idle"}

StraysWereOvertaken ==
    /\ Cardinality(Strays) <= overtaken
    /\ rowLate => overtaken > 0

(* record_status writes what the workflow has set, and only a late attempt   *)
(* writes over it.                                                           *)
RowFits ==
    /\ pc = "record" /\ owner # NoWorker =>
          /\ job[owner].stage \in {"idle", "write", "return"}
          /\ job[owner].stage # "idle" => job[owner].status = status /\ job[owner].phase = phase
          /\ job[owner].stage = "return" =>
                row = [status |-> status, phase |-> phase] \/ rowLate
    /\ pc \in {"wait", "done"} => owner = NoWorker
    /\ RowMirrorsWorkflow

(* Attempts that have looked for request id, have not found it and will add  *)
(* it: once it is there, no other attempt joins them.                        *)
Adding(id) == {w \in Workers : job[w].stage = "store" /\ id \in Unrecorded(job[w])}

RequestsFit ==
    /\ RequestsInOrder
    /\ \A w \in Workers : job[w].requests <= Len(crs)
    /\ \A id \in RequestIds : Copies(id) > 0 =>
          /\ Copies(id) + Cardinality(Adding(id)) <= 1 + overtaken
          /\ Copies(id) + Cardinality(Adding(id)) <= Cardinality(Workers)

(* An attempt that may still write the gate row of key k, a lost one or not. *)
MayWriteRow(j, k) == j.stage \in {"read", "store"} /\ <<j.phase, j.attempt>> = k

Pending(k) == {w \in Workers : MayWriteRow(job[w], k)}

(* The phase's attempt is under way or has returned. *)
InHand == pc = "activity" => owner # NoWorker /\ job[owner].stage # "idle"

(* Keys that a run without a hop has not come to. *)
Unreached == {k \in Keys : \/ Position(k[1]) > Position(phase)
                           \/ k[1] = phase /\ k[2] > Attempt(phase)}

(* Until the first hop only keys the run has left, and the one whose gate    *)
(* has just been settled, have used up their answers.                        *)
AnswersSpent ==
    hops = 0 =>
        /\ spent \cap Unreached = {}
        /\ pc \in {"activity", "wait"} => Key \notin spent
        /\ pc = "record" /\ status = "awaiting_approval" => Key \notin spent

(* Every gate row that is written or still may be is the one of the attempt  *)
(* in hand or of a lost one, and what ran in that attempt has its row.       *)
GateRowsCounted ==
    /\ pc \in {"record", "wait"} => gateRows[Key] >= 1
    /\ pc = "activity" /\ owner # NoWorker =>
          (job[owner].stage \in {"status", "write", "return"} => gateRows[Key] >= 1)
    /\ hops = 0 => \A k \in Keys :
          /\ gateRows[k] + Cardinality(Pending(k)) <=
                lost + IF k = Key /\ ~InHand THEN 0 ELSE 1
          /\ k \in Unreached => gateRows[k] = 0 /\ Pending(k) = {}
=============================================================================
