# A formal model of aidlc

aidlc runs a software project through five phases, `requirements`, `design`,
`build`, `test_eval` and `deploy`. In each phase agents (LLM calls) write
artifacts, an evaluator scores them and a gate decides whether the run goes on,
is retried, waits for a person or stops. The same pipeline is executed in two
ways: by a LangGraph graph inside one process (`aidlc run`, `aidlc serve`), and
as a Temporal workflow with activities on a pool of workers that share a
Postgres database (`aidlc distributed ...`).

This directory holds TLA+ modules for the parts of that program that decide
what happens to a run, configurations that check them with TLC on small
instances, and proofs checked by TLAPS for every value of the constants.
Paths below are relative to the repository; `aidlc/` is its package.

    tlc -workers 2 -config MCRunWorkflow_gates.cfg MCRunWorkflow.tla
    tlapm RunWorkflowProofs.tla

## 1. Inventory

| part | code | state it keeps | operations | talks to |
|---|---|---|---|---|
| Temporal workflow | `aidlc/distributed/workflow.py`, `models.py` | phase, status, retries per phase, hops, change requests, approvals | `run`, `_gate`, `_route`, `_record_status`, signal `approve_gate`, query `get_status` | schedules activities; receives signals |
| Phase activity | `aidlc/distributed/activities.py` | none of its own | `run_phase`, `record_status` | repository, phase graphs |
| Temporal client | `aidlc/distributed/client.py` | none | `start_run`, `approve`, `status` | workflow by query and signal, repository |
| Worker | `aidlc/distributed/worker.py` | activity slots | `serve` | Temporal |
| Gate | `aidlc/core/gate.py` | none | `GatePolicy.decide`, `gate_node` | repository; LangGraph `interrupt` |
| Master orchestrator | `aidlc/orchestrators/master.py` | LangGraph checkpoint of the run | `run_pipeline`, `resume_run`, phase nodes, route nodes | repository, checkpoint file |
| Phase graphs | `aidlc/orchestrators/{requirements,design,build,test_eval,deploy,base}.py` | graph state of a phase | one node per agent, evaluator, gate | agents, artifact store |
| Evaluators | `aidlc/core/evals.py` | none | `run`: judge calls and deterministic checks | LLM, repository |
| Agent runtime | `aidlc/core/agent.py` | none | `run`, `as_node` | LLM, artifact store, tracer |
| LLM clients | `aidlc/core/llm.py` | none | `structured` with repair attempts | providers |
| Agents, mock handlers | `aidlc/agents/**` | none | prompts and canned answers | LLM |
| Artifact schemas | `aidlc/core/artifacts.py` | none | validation | everything |
| Graph state | `aidlc/core/state.py` | none | reducers | LangGraph |
| File storage | `aidlc/storage/files.py` | `run.json`, `*.jsonl`, versioned artifacts | read-modify-write, append, save, latest | files |
| Postgres storage | `aidlc/storage/postgres.py`, `migrations.py` | tables `runs`, `gate_decisions`, `change_requests`, `artifact_versions`, ... | the same, one transaction each | Postgres |
| Storage selection | `aidlc/storage/factory.py`, `protocols.py` | none | constructors | environment |
| API service | `aidlc/services/api.py` | `_runs`, a table in memory | start, read, approve | master orchestrator in threads |
| CLI | `aidlc/cli.py` | none | commands | all of the above |
| Tools | `aidlc/tools/**` | none | subprocesses | sandbox directory |

What is hard about them, and what makes them correct:

* *Temporal workflow.* Signals arrive at any point, before, during or after the
  wait they are meant for; the approval timer races them; retries and hops are
  counted separately and limited in two places; the status is mirrored to the
  database by an activity that may be lost. Correct when phases are visited as
  the pipeline promises, nobody passes a gate without a passing evaluation and
  consent, what is deployed was verified after the last change, and the run ends.
* *Phase activity.* An attempt is lost between any two of its writes and retried,
  and an attempt that was given up may still be writing. Correct when requests are
  stored before a graph works on them and not again by a retry that finds them, the
  gate's row precedes the result, and nothing but such a late attempt leaves traces
  that do not fit.
* *Gate.* Executed twice for one decision (before and after the interrupt),
  possibly by processes with different environments. Correct when what it
  recorded is what the run acts on.
* *Master orchestrator.* A crash at any point, resumption from the checkpoint;
  `_route_update` keeps the counters and `_next_route` takes the edge,
  separately and on different states. Correct when the two agree.
* *Phase graphs.* Which artifacts an agent reads and after which agents it runs
  is declared in different files; attempts that are lost, retried or outlive
  their retry write to the same store. Correct when a node reads what the
  current pass and the accepted phases made, and runs once.
* *Storage.* Read-modify-write without a lock in files; select-then-insert over a
  small pool of connections in Postgres; saves that overlap or die half-way.
  Correct when a version that was answered is kept, the pointer to the latest one
  does not go back and nobody waits for good.
* *Evaluators and LLM clients.* Arithmetic over three judge calls and
  deterministic checks; failures of some calls, inside a loop of repairs. Correct
  when a failed check cannot be averaged away, the checks do not lift a verdict that
  fails, a judge that breaks off does not fail a phase, and the calls are bounded.
* *Build phase.* The order of work items, and files that earlier passes leave in
  the sandbox and in the commit. Correct when the order respects dependencies and
  what is tested and committed is what was reviewed.
* *API service.* A table shared by request threads and run threads, next to the
  stored row and the checkpoint. Correct when the three agree once a call had the
  run to itself, and no gate is passed without an answer of its own.

`PROJECT.json` lists every hazard at its line with the properties that cover it.

## 2. Modules

| module | models | code |
|---|---|---|
| `Phases` | the five phases, their order, the targets a triage report can name | `workflow.py` `_route`, `artifacts.py` `TriageItem` |
| `Limits` | how often phases may be repeated: `MaxRetries`, `MaxHops` (2 and 2 in the code) | `GatePolicy`, `_route`, `_route_update` |
| `Gate` | `GatePolicy.decide` and what record mode makes of it, with scores as hundredths | `core/gate.py` |
| `Pipeline` | abstract: what routing promises, in both ways to execute a run | `docs/DESIGN.md` section 3 as the code in `master.py` does it |
| `RunWorkflow` | a distributed run: workflow, activities in worker slots, database, reviewers | `distributed/*.py`, record mode of `gate_node`, the rows of `postgres.py` |
| `MasterRun` | a local run: master graph, interrupting gate, checkpoint, crash and resumption | `orchestrators/master.py`, interrupt mode of `gate_node`, the rows of `files.py` |
| `AgentGraphs` | edges of the five phase graphs, and what each node reads, writes and saves | `orchestrators/*.py`, `agents/**`, `core/agent.py` |
| `PhaseGraphs` | artifacts flowing through these graphs, the store and the run | `as_node`, `run_phase`, `_phase_node`, `core/state.py` |
| `BuildPhase` | the build phase with its items, sandbox, checks and commit, over several passes | `orchestrators/build.py`, `write_changes`, `tools/*.py`, `BuildEvaluator` |
| `Evaluator` | one evaluation: checks, judge calls with repairs and re-asks, the scorecard | `core/evals.py`, `core/llm.py` |
| `VersionedStore` | abstract: what a store of artifact versions promises | `storage/protocols.py` as both stores do it |
| `ArtifactStore` | both stores, save by save: a transaction over a pool, or five writes to the disk | `storage/postgres.py`, `files.py`, `factory.py`, `migrations.py` |
| `RunService` | one run of the API service: table, row and checkpoint under several calls | `services/api.py`, `cli.py` `approve`, `run_pipeline`, `resume_run`, `update_status` |
| `PipelineProofs`, `RunWorkflowProofs`, `MasterRunProofs`, `PhaseGraphsProofs`, `BuildPhaseProofs`, `EvaluatorProofs`, `ArtifactStoreProofs`, `RunServiceProofs` | theorems and proofs, each about the module it is named for | |
| `MC...` | values for TLC | |

`RunWorkflow` and `MasterRun` each contain `P == INSTANCE Pipeline` with
`outcome` computed from their own state, and promise `P!Spec`. A phase graph is
one step in them, with any score from `Overalls` and any target; `PhaseGraphs`
opens that step up and leaves gates and routing out: there, routing takes any
route that `_next_route` knows. `BuildPhase` opens up the nodes of one of these
graphs, `Evaluator` the one call of an evaluator, and `RunService` takes all that
happens between two gates that ask as one step, to let several calls work on one
run. `ArtifactStore` contains `V == INSTANCE VersionedStore` and promises
`V!Spec`; it is the store that `PhaseGraphs` sees as a function from artifacts to
passes.

### RunWorkflow

`pc` is where `AidlcRunWorkflow.run` is suspended: in `run_phase` (`activity`), in
`record_status` (`record`), in `wait_condition` (`wait`), or over. `job[w]` is the
attempt in slot `w`, `owner` the slot whose result Temporal will accept, `tries` the
attempts used up. `row`, `crRows`, `gateRows` and `triage` are the database.

| code | action |
|---|---|
| `run_phase`: read, `add_change_request` one by one, graph with its gate row, `update_status` | `ReadRun`, `StoreRequest`, `RunGraph`, `WriteStatus` |
| an attempt dies, or misses its timeout and goes on running | `Crash`, then `NoticeLoss`; `Timeout`, later `Discard` |
| retry policy: another try, or the workflow fails | `GiveUp`, in `NoticeLoss` and `Timeout` |
| `_gate` | `ReturnPhase`, `AwaitApproval`, `Resume`, `ApprovalTimeout`, `RecordJob` |
| `_route` | `RouteBlocked`, `RouteRetry`, `RouteLimit`, `RouteHop`, `RouteNext`, `RouteEnd` |
| `client.approve`: query, then signal | `Look`, `Answer` |

### MasterRun

`node` is the node of the run that the checkpoint will execute next (`start`,
`work`, `gate` and `route` of a phase, `end`), `proc` whether a process executes it,
`at` how far that process is in `gate_node`. What the graph commits at the end of a superstep survives a crash;
what `gate_node` writes to files survives too, whether or not the superstep does.
`Ask`, `Interrupt`, `Answered`, `Unasked`, `AddGateDecision` and `UpdateStatus` are
the steps of `gate_node`, `CommitGate` the return of `_phase_node`, `Route` the
pair `_route_update` and `_next_route`, computed on the states the code gives each,
and `Resume` is `resume_run`, with an answer and an environment that may differ from
those of the process before.

### PhaseGraphs

An artifact is the number of the pass that made it. `slot[w]` is a pass: the
nodes of its present superstep, those of them that are through, all nodes that ran
and its copy of the artifacts. `store` is what `latest_artifacts` returns,
`carried` the master's state, `accepted` the pass each phase was left with, and
`late` the passes that were given up and went on running. The
diff, tests and review of a work item are artifacts of their own (`ItemArtifacts`,
for two items), `PlanOf` gives the items in the plan that a design pass makes, and
a pass of the build phase leaves the artifacts of other items as it found them
(`Dropped`, `WritesOf`), while the integrator reads all there are (`ReadsOf`).
`RunNode` is `as_node` (run, save, return an update), and the last node of a
superstep merges the updates.

### ArtifactStore

`job[w]` is what a saver (a thread that runs a node) is doing, `versions` what is
committed or on disk, `pointer` the `.latest` files. A save in Postgres is
`EnsureSchema`, `ApplySchema` (which holds `_pool_lock` and takes a connection),
`Connect` (a place in the pool), `EnsureRun` (the row in `runs`, waiting for whoever
inserts it), `Select` (which returns when the hash is the same), `Insert` (which
waits for a pending row of the same key and fails on a committed one), `Commit`. A
save in files is `Scan`, `Create` and `Fill` of the version, `Point` and `Name` of
the pointer: `write_text` truncates before it writes, and `Torn` is the file in
between. `Crash` rolls a transaction back and leaves files as they are. `overlap`
says whether saves of one artifact may overlap; files rely on it being false.

### Evaluator

`evidence` is any outcome the deterministic checks of a phase can have together
(`SameCheck`: two keys of build and of test_eval are one expression). `Judge` is a
completion inside `LiteLLMClient.structured`: an answer that validates (`Answer`), or
a failure (`Fail`) that is repaired, until the last one raises. `Answer` asks again
or makes the scorecard as `Evaluator.run` does. `MockJudge` is `MockLLM`.

### BuildPhase

`pc` is the node of the pass, or the agent inside `work_items_node`. `sandbox`, `tree`
and `head` are the disk of each machine: modules and tests of items, the copy of
the repository, the last commit; they outlive passes and failures. `state` is the
graph's state, which outlives a pass in a local run only. `CodeItem`, `TestItem` and
`ReviewItem` are the three agents of an item, `Check` is
`static_and_tests_node`, `Integrate` `integrator_node`, and `Raise` an agent or tool
that raises: a local run is resumed at the node, an activity starts over. The
content of a module or of a test file is a member of a small set; a diff may also
delete the file, or leave it as it is.

### RunService

`ck` is the newest checkpoint of the thread, `table` the entry in `_runs`, `row` the
status in `run.json` or in Postgres, and `exec[t]` an invocation with its own copy
`mem` of the checkpoint it loaded. `CreateRun` and `ApproveRun` start invocations;
`WorkToGate`, `WorkToEnd`, `Interrupt`, `Answered` and `Commit` are the graph;
`GetState`, `Report` and `StoreResult` the end of `run_pipeline`, `resume_run` and of
their callers. A row in files is written by `TruncateRow` and `FillRow`, after a read
that raises when it finds the file torn. `AgentRaises`, `Kill` (the command line's
process) and `Restart` (the service with its table and threads) are the failures.

## 3. What is checked

| run | bounds | shows |
|---|---|---|
| `workflow_gates` | 1 slot, 1 reviewer, 2 looks, 1 retry, 2 hops, 2 attempts per activity, 1 lost attempt; scores on both sides of 0.7 and 0.85 for requirements, test_eval and deploy | `DeployIsVerified`, `GateSpendsRetries`, `ForwardNeedsConsent`, `AnswerReusedOnlyAfterHop`, and that the run ends (`EventuallyCloses`) |
| `workflow_losses` | 2 slots, 2 attempts per activity, 2 losses, no reviewer, no auto-approval, 1 retry, 2 hops | `RequestsStoredFirst`, `RequestsNotRepeated`, `RowMirrorsWorkflow`, `GateRowBeforeResult`, `ImplementsPipeline` |
| `master_crashes` | 2 crashes, 5 calls of resume, 1 retry, 1 hop | `ForwardNeedsConsent`, `LastRowIsDecision`, `EndedRunIsMirrored`, `ImplementsPipeline`, `CallReturns` |
| `graphs_flow` | 2 slots, 6 passes, 1 pass lost or given up; 2 items, one of which every other design pass drops | `NodesRunOnce`, `FreshReads`, `CurrentReads` |
| `store_saves` | both stores; 3 savers, 2 connections, 2 artifacts, 2 contents, 3 saves, 1 crash | `ImplementsVersionedStore`, `AnswersKept`, `ReadsFollowSaves`, `NoRepeatedVersion`, `SavesEnd` |
| `evaluator_scores` | all phases and outcomes of checks; judges with 3 marks, 3 overall scores, one key of their own; 2 completions per call, 2 re-asks | `FailedCheckFails`, `ChecksLiftNoVerdict`, `DoubtNeedsAllVerdicts`, `SpendIsBounded` |
| `build_passes` | plans of one item, and of two whose ids are not in the order of their dependencies; 2 contents, 2 machines, 2 passes, 1 call that raises | `OrderIsTopological`, `ChecksSeeReviewedCode`, `CommitHoldsPlan`, `FirstPassIsClean` |
| `service` | both backends; the thread of POST /runs, one approval by the API and one by the command line, 2 gates, 1 failure | `LoneCallAgrees`, `GatesAreAnswered`, `OverIsFinal`, `ShownStopsRunning` |
| `master_rejected`, `graphs_verdict`, `evaluator_floor`, `build_repeat` | nothing is lost and nothing fails | one disagreement each, see section 6 |

Five of them also check a type invariant, which in `store_saves` includes that no more connections
are out than the pool has, that the lock has the holder the code says, and in
`service` that an empty `run.json` is one that is being written, or was when two
calls overlapped or one died.

Why the bounds are enough. Both limits are compared with a counter and nothing
else depends on their value, so 1 reaches both sides of each; 2 hops let a run
go back after having gone back, which is where old answers and old requests
matter. Decisions depend on scores only through two marks, so the values just
below and above them stand for all. Two looks allow an answer for a gate that is
over while another one waits. One lost attempt is what a retry has to cope with; with two attempts and two losses an activity also runs out of them,
and with two slots the lost one may still be running. Six passes are the five
phases and one repetition, retry or hop. Three savers on two connections let two
overlap on an artifact while a third waits for the pool; three saves make a
version, its repetition and a change back (a, b, a). A judge's mark is below, above or far above the threshold, and zero, which alone is
treated differently; the code's four completions per call differ from two only in
how often they fail. Two items are enough for a cycle and for an order that is not that of
the ids, two passes for leftovers, two contents to tell a leftover from what was
reviewed, two machines for leftovers that are not found. An item that is in every
plan and one that comes and goes stand for all items of `PhaseGraphs`. Two gates let an answer miss its gate, two approvals overlap with each other and with the
first thread. Every bound is a constant; what is
proved (section 5) does not depend on any of them. Symmetry is used over worker
slots, machines and contents of files, in runs without liveness properties.

Attempts that outlive their timeout overlap with their retry, in a pool whose
workers have 16 threads each (`worker.py:21`), and the database then does not look
as it would without them. `RowMirrorsWorkflow` and `RequestsNotRepeated` are checked
in that pool and say how far this can go: the row may be wrong only if an attempt
that was given up wrote it last, and there is one further copy of a request at most for each
such attempt. `overtaken` counts them; attempts that die are not among them. That
both things do happen is in section 6.

Runs end, so a state without successor is no error: all configurations switch the
deadlock check off, and `EventuallyCloses`, `CallReturns`, `SavesEnd` and
`ShownStopsRunning` say what has to be reached instead.

## 4. Fairness

`RunWorkflow`: weak fairness of each slot's steps and of the workflow's. Temporal
delivers tasks to workers that poll, and a thread that has an attempt goes on; a
lost attempt is noticed by its timeout, and the approval timer fires. Reviewers
owe nothing, and nothing has to be lost. `MasterRun`: weak fairness of the steps of the
one process, which is a sequential program; crashes and resumptions owe nothing, so
`CallReturns` says that a call returns or its process dies. `ArtifactStore`: weak
fairness of each saver's steps, since threads run on and Postgres answers; a saver
that waits for a connection, a lock or a row is not enabled, so that `SavesEnd` says
that none of these waits is for good. `RunService`: weak
fairness of each thread's steps; nobody has to answer a gate. `PhaseGraphs`,
`BuildPhase` and `Evaluator` have safety properties only and assume no fairness;
that an evaluation ends follows from `SpendIsBounded`, each step of it being a completion.

## 5. What is proved

Every safety property that a passing run checks is proved for every value of the
constants. What the proofs assume of the constants is in the
modules that declare them, and TLC evaluates it in the runs:

* `LimitsAssumption`: limits are natural numbers.
* `WorkflowAssumption`, `MasterAssumption`: scores are naturals, risks and modes are
  among the code's, bounds are naturals, a pool has finitely many slots.
* `GraphsAssumption`: bounds are naturals; the value that means no slot is not one.
* `BuildAssumption`: items are finitely many and have numbers, which stand for the
  order of their ids; a plan has items and its dependencies are among them; texts
  are not the values that mean no file or no diff.
* `EvaluatorAssumption`: marks are naturals, keys outside the rubric finitely many, a
  call has a completion.
* `StoreAssumption`: savers are finite, the pool has a connection, the values that
  mean no file and nobody are not savers or contents.
* `ServiceAssumption`: calls are finite, bounds are naturals, values that mean
  nothing or a torn file are not threads or statuses.

| module | theorems |
|---|---|
| `PipelineProofs` | `PipelineTypeOK`; `PipelineDecreases`: every step of the abstract routing lowers a natural number, from which termination follows |
| `RunWorkflowProofs` | `WorkflowTypeOK`, `WorkflowInvariant`, `GateSpendsRetriesHolds`, `DeployIsVerifiedHolds`, `RequestsStoredFirstHolds`, `ForwardNeedsConsentHolds`, `RowMirrorsWorkflowHolds`, `RequestsNotRepeatedHolds`, `GateRowBeforeResultHolds`, `AnswerReusedOnlyAfterHopHolds`, `WorkflowImplementsPipeline`, `RoutingMakesProgressHolds` |
| `MasterRunProofs` | `MasterTypeOK`, `MasterInvariant`, `ForwardNeedsConsentHolds`, `LastRowIsDecisionHolds`, `EndedRunIsMirroredHolds`, `MasterImplementsPipeline` |
| `PhaseGraphsProofs` | `GraphsTypeOK`, `GraphsInvariant`, `NodesRunOnceHolds`, `FreshReadsHolds`, `CurrentReadsHolds` |
| `BuildPhaseProofs` | `BuildTypeOK`, `BuildInvariant`, `OrderIsTopologicalHolds`, `ChecksSeeReviewedCodeHolds`, `CommitHoldsPlanHolds`, `FirstPassIsCleanHolds` |
| `EvaluatorProofs` | `EvaluatorInvariant`, `SpendIsBoundedHolds`, `DoubtNeedsAllVerdictsHolds`, `FailedCheckFailsHolds`, `ChecksLiftNoVerdictHolds` |
| `ArtifactStoreProofs` | `TypeCorrect`, `InvCorrect`, `AnswersAreKept`, `ReadsAreFresh`, `RepeatsLeaveNoTrace`, `StoreImplementsVersionedStore` |
| `RunServiceProofs` | `ServiceTypeOK`, `ServiceInvariant`, `LoneCallAgreesHolds`, `GatesAreAnsweredHolds`, `OverIsFinalHolds` |

The properties are not inductive; each module ends with what makes them so, `IInv`.

*RunWorkflow.* That a failed evaluation with no retry left was blocked
(`GateSpendsRetries`) depends on the attempt that is
running knowing the counter of the workflow (`AttemptIsCurrent`), and the routing
cases are exhaustive only because the status after `_gate` fits the result
(`StatusFitsResult`). That consent was given when a phase is left is known one
activity earlier (`ConsentGiven`). `DeployIsVerified` needs that all phases before the
present one are verified, wherever the run is (`PrefixVerified`); that requests are
stored before the graph runs needs that what an attempt has checked off is stored
(`KnownIsStored`), also for attempts nobody waits for. `IInv` is the conjunction of
these, and a step changes either one slot or the workflow, so each lemma treats one
kind. Four properties have invariants of their own beside it.
`RowMirrorsWorkflow` needs that what `record_status` writes
is the status the workflow has set (`RowFits`), and that an attempt nobody waits for was
given up while it ran (`StraysWereOvertaken`), so that it is one of those counted when it
writes over the row. `RequestsNotRepeated` counts the rows of a request together
with the attempts that looked before it was there and will add it (`Adding`,
`RequestsFit`): once there is a row nobody joins them. `GateRowBeforeResult` holds
with any number of slots by counting (`GateRowsCounted`): the rows of a key, with
the attempts that may still write one (`Pending`), are those of lost attempts and
of the one in hand. It needs that a run without a hop never comes to a key twice
(`Unreached`), and so does `AnswerReusedOnlyAfterHop` (`AnswersSpent`).

*MasterRun.* The gate's decision lives in three places, the history,
the row and the state, and `GateInProgress`, `GateCommitted` and `EndIsSettled`
say how they relate before, at and after the commit; crash and resumption
preserve them because everything volatile is thrown away. Refinement is proved by
cases, as in `RunWorkflow`: only `Route` steps (and `GiveUp`, when the workflow
fails) change what `Pipeline` sees.

*PhaseGraphs.* Two facts about each of the five graphs are proved from its tables: the
nodes have levels (`Superstep`) that every edge raises by one, with the gate alone on
the last (`GraphOrdered`), and what a node reads of its own phase is written on a
lower level (`ReadsOrdered`). All else is proved for the five at once: a pass has run
the levels below its frontier and holds what they made (`PassFits`), what it has not
made is what was accepted (`StateFits`), and in the store it has overwritten what
lost passes of its phase left there (`StoreFits`), in both cases unless a pass that
was given up has written over it (`OrLate`). What is never saved, the artifacts of
items among it, is in a distributed run only where its own pass has put it
(`UnsavedFits`), which is why the integrator finds diffs of dropped items in a
local run alone.

*BuildPhase.* `ChecksSeeReviewedCode` and `CommitHoldsPlan` need that the sandbox
agrees with the diffs of the items that are through (`WorkFits`, `StateFits`), which
needs in turn that an order names an item once. For every finite plan, `Ordered` is shown to
unfold layer by layer, and each property of it holds because a minimal set of
remaining items without it would have a smaller one (`OrderIsTopologicalFor`).
`PlanFits` and `FirstFits` say what cannot be there of other plans and passes.

*Evaluator.* `CallsFit` counts completions; `CardFits` says how a scorecard came about. That
a failed check fails is arithmetic over at most three scores of a rubric: `Total`
folds over the keys in an unknown order, so `TotalOfThree` shows that any order gives
the same sum, and `BrokenDoesNotPass` that the judge's best marks do not
make up for a zero. That the checks lift no verdict needs sums over any finite set of keys:
there is exactly one sum (`SumsExist`, `SumsUnique`, by minimal sets of keys for which it
fails), and it grows with the scores (`TotalMonotone`).

*ArtifactStore.* A save looks up the newest version in one step and adds the next
in another; that the answer is right is known only because what it looked up still fits.
`PostgresFits` says how: the number it chose is at most one past the newest version;
while it is exactly that, its content differs from the newest; and it is exactly that
once the insert went through, which at most one transaction per artifact has.
`FileFits` says the same of the one saver that files allow, write by write. `IInv` is both of them
with the properties. It also tells how each step maps in the refinement: a version
counts for `VersionedStore` once nobody fills it (`LogFits`), so `Commit` and `Fill` add
one, a saver that dies in between adds a torn one, `Point` and `Name` publish, and the
other steps stutter. The pool's limit in `TypeOK` needs that a connection is taken by
one step only, and the cardinality of a set of savers with one more or one less.

*RunService.* What is out of the checkpoint counts as much as what is in it: `ThreadFits` says of
every thread's copy that the gates passed in it were answered, and by whom, so that
whichever copy is committed over whichever, `GatesAreAnswered` holds. `SingleFits` is
what holds as long as no two calls have overlapped, from which `OverIsFinal`
follows; `AloneFits` follows one call that has had the run to itself through each of its steps
to the state of `FreshFits`, which is `LoneCallAgrees`.

Only model-checked: liveness (`EventuallyCloses`, `CallReturns`, `SavesEnd`,
`ShownStopsRunning`), since the provers have no fairness rules.

## 6. Where code and documents disagree

A run shows each of these to be violated:

* `RejectionBlocks` (`master_rejected`): `AIDLC_AUTO_APPROVE` in the resuming process
  overrules a rejection (`core/gate.py:47, 65`).
* `VerdictCountsAllTests` (`graphs_verdict`): four test agents write one artifact, the
  last one's results are judged (`agents/test_eval/agents.py:16-37`).
* `ChecksAreTheFloor` (`evaluator_floor`): scores for keys outside the rubric count in
  the mean and lift a failed check over the threshold (`core/evals.py:117-121`).
* `PassCanBeRepeated` (`build_repeat`): a phase that failed its evaluation is run again
  (`docs/DESIGN.md:118`), but when the second pass makes the same code, `git commit`
  fails (`orchestrators/build.py:126-134`).

The models show more that no run is spent on:

* `docs/DISTRIBUTED_DESIGN.md:37-39` has every gate decision and change request
  "recorded once". An attempt that was given up and overlaps with its retry stores
  change requests that the retry stores too (`activities.py:41-47`; the table has no
  key for them, and `RequestsNotRepeated` counts the copies), and any attempt lost after
  its gate leaves a `gate_decisions` row beside that of its retry
  (`gate.py:94`; `GateRowBeforeResult` counts those). `Copies(id) <= 1` and
  `gateRows[k] <= 1` before the first hop are violated under the bounds of `workflow_losses`.
* `docs/DISTRIBUTED_DESIGN.md:302` mirrors the workflow's status to the row of the
  run. An attempt that was given up writes `update_status` whenever it comes to it, also after
  `record_status` or after the end of the run, and the row stays that way
  (`activities.py:68`; `RowMirrorsWorkflow` allows for it, and is violated without
  that part).
* After a hop to design the integrator of a local run still applies the diffs of
  items that the new plan has dropped, and commits them (`build.py:127-134`;
  `FreshReads` excepts just these reads).
* A judge that scores a rubric key too low may be outvoted by the keys it adds:
  60, 60 and 60 with an extra 100 pass (`core/evals.py:117-121`).
  `ChecksLiftNoVerdict` says only that the checks do not add to this.
* A limit reached in `_route` ends the workflow as blocked and leaves the row at
  running (`workflow.py:98-104`; `RowMirrorsWorkflow` excepts it).
* An auto-approved deploy whose evaluation failed is recorded completed and then
  retried (`workflow.py:59-61, 93-97`).
* Approvals are kept by phase and attempt and a hop does not change the attempt, so
  an old answer settles a new gate (`workflow.py:65, 136`;
  `AnswerReusedOnlyAfterHop` says that nothing but a hop makes this possible).
* An attempt that outlives its retry saves artifacts over the accepted ones, and later
  phases read them (`activities.py:40, 64-66`; `CurrentReads` names these passes, and
  nothing else of a lost pass is read).

## 7. Modelling notes

* Temporal, Postgres and LangGraph (0.4.8 in `pyproject.toml`) are external and modelled
  as the code uses them: activities at least once with a bounded number of
  attempts, signals in any order, one SQL statement atomic, supersteps
  committed as a whole, nodes interrupted or lost are executed again from
  their start.
* A loss takes one attempt. A worker that dies with several attempts is several
  losses.
* `AIDLC_AUTO_APPROVE` is unset on distributed workers, whose auto-approval is in the
  request; `AIDLC_GATE_MODE` is unset in local processes.
* Approvals are not written to `gate_decisions` in the distributed mode, though
  `docs/DISTRIBUTED_DESIGN.md` (section 7) says they are recorded twice; there is
  no code to model.
* In `PhaseGraphs` a few reads are excepted, each where it is defined:
  `static_report` of the pass before is feedback for the coder, triage reads
  `quality_report` before it is made, and the test ids that `plan_node` adds to
  the design package are never saved. The diffs of dropped items are excepted for the
  integrator of a local run (section 6).
* In `BuildPhase` an item has one module and one test file: `_remap_code_diff` turns
  every Python path of a diff into that one. Other paths, which it leaves as they
  are, are not modelled, nor are two items whose ids differ in case or in `-` and `_`
  only and so share a file.
* ruff, pytest and git are external: ruff passes or fails as it likes, except that it
  fails on the copy of a repository that is not clean; pytest fails when there are
  no tests; `git commit` fails when nothing has changed.
* psycopg's pool and Postgres are modelled as READ COMMITTED transactions, with
  the wait for a pending row of a unique key.
* LangGraph's checkpoints are modelled as `RunService` needs them: an invocation
  goes on from the newest one, and commits over whatever came in between.

Not modelled, and why:

* prompts, mock answers, schema validation, the command line's printing: texts
  without state;
* trace records, events, scorecards and agent invocations in both storages: they are
  appended, and nothing that decides about a run reads them;
* the endpoints of the service with `AIDLC_EXECUTION=temporal`: they call the client
  that `RunWorkflow` models;
* two passes through the build phase at once in one sandbox;
* start_run failing between storing the run and starting the workflow: one
  sequential case, after which there is a row and no workflow;
* `migrations.py` beyond the tables the models use: DDL;
* the connection of a worker to Temporal and its shutdown.

## 8. Plan

Done: `Phases`, `Limits`, `Gate`, `Pipeline`, `RunWorkflow`, `MasterRun`, `AgentGraphs`,
`PhaseGraphs`, `BuildPhase`, `Evaluator`, `VersionedStore`, `ArtifactStore`, `RunService`,
and the proofs above. Next, in this order:

1. The action properties behind the liveness ones: what each step of a run, a call
   or a save uses up, as a natural number that `PipelineDecreases` has for routing.
2. An abstract specification of the service, a run whose gates are answered one at a
   time, and `RunService` without overlaps as its refinement.
3. `CurrentReads`, `RowMirrorsWorkflow` and `RequestsNotRepeated` without their exceptions
   for attempts that were given up, as the condition on timeouts under which they hold.
4. Paths of a diff that are not Python files in `BuildPhase`.
