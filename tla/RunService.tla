----------------------------- MODULE RunService -----------------------------
(* One run of the local API service: the thread that POST /runs starts, the  *)
(* approvals that resume the run in threads of their own or from the command *)
(* line, and the three places that say how the run stands: the service's     *)
(* table, the stored row and the checkpoint, each written at its own time.   *)
(*                                                                           *)
(* A run is a row of gates that ask; what lies between two of them, gates    *)
(* that settle themselves included, is one step (MasterRun has the detail).  *)
(* LangGraph is external: an invocation works on a copy of the checkpoint it *)
(* has loaded, a commit becomes the newest checkpoint whatever came between, *)
(* and an interrupt is noted with the checkpoint it belongs to.              *)
EXTENDS Naturals, FiniteSets

CONSTANTS
    Daemon,         \* the thread that POST /runs starts
    Calls,          \* calls of resume_run, each made at most once
    CliCalls,       \* those that are made by `aidlc approve`
    Gates,          \* gates of the run that ask
    Torn,           \* a run.json that is not JSON
    MaxFailures     \* bound on agents that raise and processes that die

Statuses == {"running", "awaiting_approval", "completed", "blocked"}

ASSUME ServiceAssumption ==
    /\ Daemon \notin Calls /\ IsFiniteSet(Calls) /\ CliCalls \subseteq Calls
    /\ {"none", "unknown", "absent"} \cap (Calls \cup {Daemon, Torn}) = {}
    /\ Torn \notin Statuses
    /\ Gates \in Nat /\ MaxFailures \in Nat

Threads == Calls \cup {Daemon}

VARIABLES
    backend,    \* of the run's row: files, or postgres
    ck,         \* the newest checkpoint
    table,      \* the run's entry in _runs
    row,        \* the status in the run's row
    exec,       \* the invocation of each thread
    failures,   \* agents that raised, processes that died
    settled,    \* for each gate the answers that settled it (history)
    events,     \* what has disturbed the run (history)
    fresh       \* the last call had the run to itself (history)

vars == <<backend, ck, table, row, exec, failures, settled, events, fresh>>

(* by is the thread that committed it: the identity of a checkpoint. *)
NoCheckpoint == [passed |-> 0, over |-> "running", waiting |-> FALSE, by |-> "none"]
Checkpoints == [passed : 0..Gates, over : {"running", "completed", "blocked"},
                waiting : BOOLEAN, by : Threads \cup {"none"}]

Invocations ==
    [pc : {"new", "work", "gate", "commit", "returned", "update", "truncate", "fill",
           "store", "over"},
     mem : Checkpoints, answer : {"none", "yes", "no"},
     status : Statuses, then : {"commit", "store"}, alone : BOOLEAN]

New == [pc |-> "new", mem |-> NoCheckpoint, answer |-> "none",
        status |-> "running", then |-> "commit", alone |-> TRUE]
Over == [New EXCEPT !.pc = "over"]

Active == {t \in Threads : exec[t].pc \notin {"new", "over"}}
ApiThreads == Active \ CliCalls

(* A file that is empty between write_text's truncation and its write. *)
Writing == {t \in Threads : exec[t].pc = "fill"}

TypeOK ==
    /\ backend \in {"files", "postgres"}
    /\ ck \in Checkpoints
    /\ table \in Statuses \cup {"unknown"}
    /\ row \in Statuses \cup {"absent", Torn}
    /\ backend = "postgres" => row # Torn /\ Writing = {}
    /\ exec \in [Threads -> Invocations]
    /\ row = Torn => Writing # {} \/ events \cap {"overlap", "death"} # {}
    /\ failures \in 0..MaxFailures
    /\ settled \in [1..Gates -> SUBSET Calls]
    /\ events \subseteq {"overlap", "raise", "death"}
    /\ fresh \in BOOLEAN

Init ==
    /\ backend \in {"files", "postgres"}
    /\ ck = NoCheckpoint
    /\ table = "unknown"
    /\ row = "absent"
    /\ exec = [t \in Threads |-> New]
    /\ failures = 0
    /\ settled = [g \in 1..Gates |-> {}]
    /\ events = {}
    /\ fresh = FALSE

-----------------------------------------------------------------------------
(* Calls.                                                                    *)

(* Thread t starts as e, next to whoever is active. *)
Starts(t, e) ==
    /\ exec' = [u \in Threads |->
                  IF u = t THEN [e EXCEPT !.alone = (Active = {} /\ t \notin CliCalls)]
                  ELSE IF u \in Active THEN [exec[u] EXCEPT !.alone = FALSE] ELSE exec[u]]
    /\ events' = IF Active = {} THEN events ELSE events \cup {"overlap"}
    /\ fresh' = FALSE

(* POST /runs: an entry, and a thread that stores the run; run.json is not   *)
(* there yet, so nothing is read.                                            *)
CreateRun ==
    /\ exec[Daemon].pc = "new"
    /\ table' = "running"
    /\ Starts(Daemon, [New EXCEPT !.pc = IF backend = "files" THEN "truncate" ELSE "update"])
    /\ UNCHANGED <<backend, ck, row, failures, settled>>

(* Where the newest checkpoint is taken up. *)
ResumesAt ==
    IF ck.over # "running" THEN "returned" ELSE IF ck.waiting THEN "gate" ELSE "work"

(* A resumption that invokes the graph with the initial state. *)
ApproveAfresh(t) ==
    /\ exec[t].pc = "new"
    /\ ck # NoCheckpoint
    /\ \E answer \in {"yes", "no"} : Starts(t, [New EXCEPT !.pc = "work", !.answer = answer])
    /\ UNCHANGED <<backend, ck, table, row, failures, settled>>

(* resume_run loads the checkpoint; without one it raises and does nothing.  *)
(* A run that is over returns at once.                                       *)
ApproveRun(t) ==
    /\ exec[t].pc = "new"
    /\ ck # NoCheckpoint
    /\ \E answer \in {"yes", "no"} :
          Starts(t, [New EXCEPT !.pc = ResumesAt, !.mem = ck, !.answer = answer])
    /\ UNCHANGED <<backend, ck, table, row, failures, settled>>

(* The thread goes on as e. *)
Goes(t, e) == exec' = [exec EXCEPT ![t] = e]

(* An exception: the thread is over, and what it had in hand is lost. *)
Raises(t) ==
    /\ Goes(t, Over)
    /\ events' = events \cup {"raise"}

-----------------------------------------------------------------------------
(* The row.                                                                  *)

(* A row that is emptied and filled wherever it is. *)
UpdateByTruncating(t, e) ==
    /\ IF row = Torn THEN Raises(t)
       ELSE Goes(t, [e EXCEPT !.pc = "truncate"]) /\ UNCHANGED events
    /\ UNCHANGED row

(* update_status in Postgres is a statement.  In files the run is read,      *)
(* which raises if it is torn, and written back by truncating and filling.   *)
UpdateStatus(t, e) ==
    IF backend = "postgres"
    THEN row' = e.status /\ Goes(t, [e EXCEPT !.pc = e.then]) /\ UNCHANGED events
    ELSE /\ IF row = Torn THEN Raises(t)
            ELSE Goes(t, [e EXCEPT !.pc = "truncate"]) /\ UNCHANGED events
         /\ UNCHANGED row

TruncateRow(t) ==
    /\ exec[t].pc = "truncate"
    /\ row' = Torn
    /\ Goes(t, [exec[t] EXCEPT !.pc = "fill"])
    /\ UNCHANGED <<backend, ck, table, failures, settled, events, fresh>>

(* A shorter text over a longer one that somebody else has filled in since   *)
(* leaves the longer one's end.                                              *)
FillRow(t) ==
    /\ exec[t].pc = "fill"
    /\ row' \in IF row = Torn THEN {exec[t].status} ELSE {exec[t].status, Torn}
    /\ Goes(t, [exec[t] EXCEPT !.pc = exec[t].then])
    /\ UNCHANGED <<backend, ck, table, failures, settled, events, fresh>>

-----------------------------------------------------------------------------
(* The graph.                                                                *)

(* Up to the next gate that asks.  An answer given away from a gate counts   *)
(* for the phase the run is resumed in, and may miss the gate.               *)
WorkToGate(t) ==
    /\ exec[t].pc = "work"
    /\ exec[t].mem.passed < Gates
    /\ \E answer \in {exec[t].answer, "none"} :
          Goes(t, [exec[t] EXCEPT !.pc = "gate", !.answer = answer])
    /\ UNCHANGED <<backend, ck, table, row, failures, settled, events, fresh>>

(* Or to the end, which a gate without a question puts into the row, and a   *)
(* limit of the routing does not.                                            *)
WorkToEnd(t) ==
    /\ exec[t].pc = "work"
    /\ \E end \in {"completed", "blocked"} :
       LET e == [exec[t] EXCEPT !.mem.over = end, !.status = end] IN
          /\ end = "completed" => exec[t].mem.passed = Gates
          /\ \/ UpdateStatus(t, e)
             \/ end = "blocked" /\ Goes(t, [e EXCEPT !.pc = "commit"]) /\ UNCHANGED <<row, events>>
    /\ UNCHANGED <<backend, ck, table, failures, settled, fresh>>

(* An agent raises. *)
AgentRaises(t) ==
    /\ exec[t].pc = "work"
    /\ failures < MaxFailures
    /\ failures' = failures + 1
    /\ Raises(t)
    /\ UNCHANGED <<backend, ck, table, row, settled, fresh>>

SameCheckpoint(a, b) == [a EXCEPT !.waiting = TRUE] = [b EXCEPT !.waiting = TRUE]

(* A gate that takes the missing answer for consent. *)
PassUnanswered(t) ==
    /\ exec[t].pc = "gate"
    /\ exec[t].answer = "none"
    /\ UpdateStatus(t, [exec[t] EXCEPT !.mem.passed = @ + 1])
    /\ UNCHANGED <<backend, ck, table, failures, settled, fresh>>

(* interrupt() without an answer ends the invocation. *)
Interrupt(t) ==
    /\ exec[t].pc = "gate"
    /\ exec[t].answer = "none"
    /\ ck' = IF SameCheckpoint(ck, exec[t].mem) THEN [ck EXCEPT !.waiting = TRUE] ELSE ck
    /\ Goes(t, [exec[t] EXCEPT !.pc = "returned"])
    /\ UNCHANGED <<backend, table, row, failures, settled, events, fresh>>

(* With one the gate is settled, in the row first. *)
Answered(t) ==
    LET status == IF exec[t].answer = "yes" THEN "running" ELSE "blocked"
        mem == IF exec[t].answer = "yes"
               THEN [exec[t].mem EXCEPT !.passed = @ + 1]
               ELSE [exec[t].mem EXCEPT !.over = "blocked"]
    IN
    /\ exec[t].pc = "gate"
    /\ exec[t].answer # "none"
    /\ settled' = [settled EXCEPT ![exec[t].mem.passed + 1] = @ \cup {t}]
    /\ UpdateStatus(t, [exec[t] EXCEPT !.mem = mem, !.status = status])
    /\ UNCHANGED <<backend, ck, table, failures, fresh>>

(* The answer is used up. *)
AnswerAfter(t) == "none"

(* The update of the node, as the newest checkpoint. *)
Commit(t) ==
    LET mem == [exec[t].mem EXCEPT !.waiting = FALSE, !.by = t] IN
    /\ exec[t].pc = "commit"
    /\ ck' = mem
    /\ Goes(t, [exec[t] EXCEPT !.pc = IF mem.over = "running" THEN "work" ELSE "returned",
                               !.mem = mem, !.answer = AnswerAfter(t),
                               !.status = "running"])
    /\ UNCHANGED <<backend, table, row, failures, settled, events, fresh>>

-----------------------------------------------------------------------------
(* What is said of the run.                                                  *)

(* The status that invoke returned. *)
ResultOfInvoke(t) == exec[t].mem.over

(* get_state looks at the newest checkpoint, whoever made it. *)
ResultStatus(t) == IF ck.waiting THEN "awaiting_approval" ELSE exec[t].mem.over

GetState(t) ==
    /\ exec[t].pc = "returned"
    /\ Goes(t, [exec[t] EXCEPT !.pc = "update", !.status = ResultStatus(t),
                               !.then = "store", !.answer = "none", !.mem = NoCheckpoint])
    /\ UNCHANGED <<backend, ck, table, row, failures, settled, events, fresh>>

(* resume_run and run_pipeline store the status. *)
Report(t) ==
    /\ exec[t].pc = "update"
    /\ UpdateStatus(t, exec[t])
    /\ UNCHANGED <<backend, ck, table, failures, settled, fresh>>

(* A thread whose result nobody takes. *)
NotStored(t) == table

(* _run and approve_run put the result in the table, the command line has    *)
(* none.                                                                     *)
Stored(t) == IF t \in CliCalls THEN table ELSE exec[t].status

StoreResult(t) ==
    /\ exec[t].pc = "store"
    /\ table' = Stored(t)
    /\ fresh' = exec[t].alone
    /\ Goes(t, Over)
    /\ UNCHANGED <<backend, ck, row, failures, settled, events>>

-----------------------------------------------------------------------------
(* A command line process dies, or the service does, with its table and all  *)
(* its threads; it comes up again.  Files stay as they are.                  *)
Dies(threads) ==
    /\ failures < MaxFailures
    /\ failures' = failures + 1
    /\ exec' = [t \in Threads |-> IF t \in threads
                                  THEN Over
                                  ELSE exec[t]]
    /\ events' = events \cup {"death"}
    /\ UNCHANGED <<backend, ck, row, settled>>

Kill(t) ==
    /\ t \in Active \ ApiThreads
    /\ Dies({t})
    /\ UNCHANGED <<table, fresh>>

Restart ==
    /\ exec[Daemon].pc # "new"
    /\ Dies(ApiThreads)
    /\ table' = "unknown"
    /\ fresh' = FALSE

-----------------------------------------------------------------------------
Step(t) ==
    \/ WorkToGate(t) \/ WorkToEnd(t) \/ Interrupt(t) \/ Answered(t) \/ Commit(t)
    \/ GetState(t) \/ Report(t) \/ TruncateRow(t) \/ FillRow(t) \/ StoreResult(t)

Next ==
    \/ CreateRun
    \/ \E t \in Calls : ApproveRun(t)
    \/ \E t \in Threads : Step(t) \/ AgentRaises(t) \/ Kill(t)
    \/ Restart

Spec == Init /\ [][Next]_vars

(* Threads run on; nobody owes a gate an answer. *)
FairSpec == Spec /\ \A t \in Threads : WF_vars(Step(t))

-----------------------------------------------------------------------------
(* What holds.                                                               *)

(* The status a run has by its checkpoint. *)
CheckpointStatus == IF ck.waiting THEN "awaiting_approval" ELSE ck.over

(* Whatever went before - overlapping answers, agents that raised, a restart *)
(* that emptied the table - a call of the service that had the run to itself *)
(* leaves the three places in agreement (resume_run and approve_run).        *)
LoneCallAgrees ==
    Active = {} /\ fresh => table = row /\ row = CheckpointStatus

(* No gate is passed without an answer of its own, in whatever order copies  *)
(* of the run are committed over each other and wherever the calls found     *)
(* the run: each settles one gate at most (resume_run, which names no gate). *)
GatesAreAnswered ==
    /\ \A g \in 1..ck.passed : settled[g] # {}
    /\ \A t \in Calls : Cardinality({g \in 1..Gates : t \in settled[g]}) <= 1

(* A run that is over stays over, unless a call that overlapped with the one *)
(* that ended it commits its older copy.                                     *)
OverIsFinal ==
    [][ ck.over # "running" /\ ck' # ck => "overlap" \in events ]_vars

(* GET /runs/{id} stops saying running, unless a call raised or several      *)
(* overlapped: nobody clears the entry of a thread that raised.              *)
ShownStopsRunning ==
    table = "running" ~> table # "running" \/ events \cap {"overlap", "raise"} # {}

-----------------------------------------------------------------------------
(* What makes it so, by induction on the steps.                              *)

(* Thread t is on its way to a commit. *)
Commits(t) ==
    \/ exec[t].pc \in {"work", "gate", "commit"}
    \/ exec[t].pc \in {"update", "truncate", "fill"} /\ exec[t].then = "commit"

(* It has let the graph go and passes the result on. *)
Reports(t) ==
    \/ exec[t].pc = "store"
    \/ exec[t].pc \in {"update", "truncate", "fill"} /\ exec[t].then = "store"

(* There is no checkpoint before the run is created, and a checkpoint that   *)
(* waits has a gate to wait at.                                              *)
CheckpointFits ==
    /\ exec[Daemon].pc = "new" => ck = NoCheckpoint /\ Active = {}
    /\ ck.waiting => ck.over = "running" /\ ck.passed < Gates
    /\ \A g \in 1..ck.passed : settled[g] # {}

(* The copy of the run that t works on is one that goes on, and the gates    *)
(* passed in it were answered; who has settled a gate has no answer left.    *)
ThreadFits(t) ==
    /\ t = Daemon => exec[t].answer = "none"
    /\ exec[t].pc \in {"new", "work", "gate", "commit", "returned"} => exec[t].then = "commit"
    /\ exec[t].pc \in {"truncate", "fill"} => backend = "files"
    /\ exec[t].pc \in {"work", "gate"} => exec[t].mem.over = "running"
    /\ exec[t].pc = "gate" => exec[t].mem.passed < Gates
    /\ \A g \in 1..exec[t].mem.passed : settled[g] # {}
    /\ \A g \in 1..Gates : t \in settled[g] =>
          /\ exec[t].pc # "new"
          /\ exec[t].pc \in {"work", "gate"} => exec[t].answer = "none"
          /\ \A h \in 1..Gates : t \in settled[h] => g = h

(* Without overlaps there is one invocation at most, of a run that goes on;  *)
(* it alone writes the row.                                                  *)
SingleFits ==
    "overlap" \notin events =>
        /\ \A t, u \in Active : t = u
        /\ \A t \in Threads : Commits(t) => ck.over = "running"
        /\ \A t \in Writing : row = Torn

(* What an active call has done so far that has had the run to itself. *)
AloneFits(t) ==
    t \in Active /\ exec[t].alone =>
        /\ Active = {t} /\ t \notin CliCalls
        /\ exec[t].pc \in {"work", "gate"} => SameCheckpoint(ck, exec[t].mem)
        /\ exec[t].pc = "returned" => ck.waiting \/ ck.over = exec[t].mem.over
        /\ exec[t].pc = "fill" => row = Torn
        /\ Reports(t) => exec[t].status = CheckpointStatus
        /\ exec[t].pc = "store" => row = exec[t].status

(* After a call that had the run to itself nobody is active. *)
FreshFits == fresh => Active = {} /\ table = row /\ row = CheckpointStatus

IInv ==
    /\ CheckpointFits
    /\ SingleFits
    /\ FreshFits
    /\ \A t \in Threads : ThreadFits(t) /\ AloneFits(t)
=============================================================================
