----------------------------- MODULE PhaseGraphs -----------------------------
(* The phase graphs at work: what becomes of artifacts in the graph's state, *)
(* in the artifact store and from phase to phase, in a local run and in a    *)
(* distributed one, when attempts are lost or outlive their successors.      *)
(*                                                                           *)
(* An artifact is represented by the number of the pass that made it, 0 for  *)
(* none.  LangGraph is external: the nodes of a superstep run in parallel on *)
(* the state at its start, their updates are merged at its end, and a node   *)
(* runs as soon as one of its predecessors has.                              *)
EXTENDS AgentGraphs

CONSTANTS
    Slots,          \* where passes run
    PlanOf,         \* the items of the work plan that a design pass makes
    MaxPasses,      \* bound on passes in a whole run
    MaxLost         \* bound on passes that die, or are given up and go on running

NoSlot == "no slot"

ASSUME GraphsAssumption ==
    /\ NoSlot \notin Slots
    /\ MaxPasses \in Nat /\ MaxLost \in Nat
    /\ PlanOf \in [0..MaxPasses -> SUBSET Items]

VARIABLES
    mode,       \* local: one process with checkpoints; distributed: activities
    phase,      \* the phase being visited, or "end"
    owner,      \* the slot whose pass counts
    passes,     \* passes started
    slot,       \* the passes under way, those nobody waits for included
    carried,    \* the artifacts in the master's state, or as accepted
    store,      \* the latest version of every artifact in the store
    accepted,   \* the pass of each phase whose result was taken last
    lost,       \* passes that died or were given up
    late        \* the passes of each phase that were given up and went on running

vars == <<mode, phase, owner, passes, slot, carried, store, accepted, lost, late>>

NoArtifacts == [k \in Keys |-> 0]

(* A pass: its graph's frontier, the nodes of it that are through, all nodes *)
(* before it; the artifacts of its state; whether a test agent has reported  *)
(* a failure, and whether test_results shows none.                           *)
NoPass ==
    [number |-> 0, phase |-> FirstPhase, frontier |-> {}, done |-> {}, ran |-> {},
     state |-> NoArtifacts, failed |-> FALSE, green |-> FALSE]

Init ==
    /\ mode \in {"local", "distributed"}
    /\ phase = FirstPhase
    /\ owner = NoSlot
    /\ passes = 0
    /\ slot = [w \in Slots |-> NoPass]
    /\ carried = NoArtifacts
    /\ store = NoArtifacts
    /\ accepted = [p \in Phases |-> 0]
    /\ lost = 0
    /\ late = [p \in Phases |-> {}]

(* The artifacts of state, those in keys made by pass n. *)
Updated(state, keys, n) == [k \in Keys |-> IF k \in keys THEN n ELSE state[k]]

(* run_phase builds its state from latest_artifacts; the master's phase node *)
(* hands its own state down.                                                 *)
Loaded == IF mode = "local" THEN carried ELSE store

(* A pass begins. *)
Begin(w) ==
    /\ phase # "end"
    /\ owner = NoSlot
    /\ slot[w] = NoPass
    /\ passes < MaxPasses
    /\ passes' = passes + 1
    /\ owner' = w
    /\ slot' = [slot EXCEPT ![w] =
                  [NoPass EXCEPT !.number = passes + 1, !.phase = phase,
                                 !.frontier = After(phase, {"start"}), !.state = Loaded]]
    /\ UNCHANGED <<mode, phase, carried, store, accepted, lost, late>>

(* What pass s leaves as it found it: artifacts of items not in its plan.    *)
Dropped(s) ==
    UNION {ItemArtifacts[i] : i \in Items \ PlanOf[s.state["design_package"]]}

WritesOf(s, n) == Writes(s.phase, n) \ Dropped(s)

(* The evaluator goes by the plan; the integrator takes every diff there is. *)
ReadsOf(s, n) ==
    Reads(s.phase, n)
        \ {k \in Dropped(s) : n = "integrator" => s.state[k] = 0}

WrittenBy(s) == UNION {WritesOf(s, n) : n \in s.frontier}

(* A superstep is over: its updates are merged and its successors are next.  *)
(* Nothing follows the gate.                                                 *)
Merged(s) ==
    IF s.frontier = {"gate"} THEN s
    ELSE [s EXCEPT !.state = Updated(@, WrittenBy(s), s.number),
                   !.frontier = After(s.phase, s.frontier),
                   !.done = {},
                   !.ran = @ \cup s.frontier]

(* A node runs and saves what it made; its update waits for the superstep.   *)
(* A test agent may find failures; test_results is the latest report alone.  *)
RunNode(w) ==
    LET s == slot[w] IN
    /\ \E n \in s.frontier \ s.done :
       \E green \in IF n \in TestAgents THEN BOOLEAN ELSE {s.green} :
          LET through ==
                 [s EXCEPT !.done = @ \cup {n},
                           !.green = green,
                           !.failed = @ \/ (n \in TestAgents /\ ~green)]
          IN  /\ store' = Updated(store, Saves(s.phase, n), s.number)
              /\ slot' = [slot EXCEPT
                   ![w] = IF through.done = s.frontier THEN Merged(through) ELSE through]
    /\ UNCHANGED <<mode, phase, owner, passes, carried, accepted, lost, late>>

(* Where routing may take the run from p. *)
Routes(p) ==
    {p} \cup (IF p = LastPhase THEN {"end"} ELSE {NextPhase(p)})
        \cup (IF p = "test_eval" THEN TriageTargets ELSE {})

(* The gate is through and the pass is the one that counts. *)
Accept(w) ==
    LET s == slot[w] IN
    /\ owner = w
    /\ s.frontier = {"gate"}
    /\ s.done = {"gate"}
    /\ owner' = NoSlot
    /\ carried' = s.state
    /\ accepted' = [accepted EXCEPT ![phase] = s.number]
    /\ phase' \in Routes(phase)
    /\ slot' = [slot EXCEPT ![w] = NoPass]
    /\ UNCHANGED <<mode, passes, store, lost, late>>

(* A process dies between two nodes, or a node raises.  A local run is       *)
(* resumed from its last superstep, and what is kept of the present one      *)
(* varies; a distributed pass is gone, and what it saved stays.              *)
Lose(w) ==
    /\ slot[w].number # 0
    /\ lost < MaxLost
    /\ lost' = lost + 1
    /\ IF mode = "local"
       THEN /\ \E kept \in SUBSET slot[w].done : slot' = [slot EXCEPT ![w].done = kept]
            /\ UNCHANGED owner
       ELSE /\ slot' = [slot EXCEPT ![w] = NoPass]
            /\ owner' = IF owner = w THEN NoSlot ELSE owner
    /\ UNCHANGED <<mode, phase, passes, carried, store, accepted, late>>

(* A distributed pass misses its timeout; its thread goes on. *)
GiveUp(w) ==
    /\ mode = "distributed"
    /\ owner = w
    /\ lost < MaxLost
    /\ lost' = lost + 1
    /\ late' = [late EXCEPT ![phase] = @ \cup {slot[w].number}]
    /\ owner' = NoSlot
    /\ UNCHANGED <<mode, phase, passes, slot, carried, store, accepted>>

(* A pass nobody waits for ends. *)
Discard(w) ==
    /\ owner # w
    /\ slot[w].frontier = {"gate"}
    /\ slot[w].done = {"gate"}
    /\ slot' = [slot EXCEPT ![w] = NoPass]
    /\ UNCHANGED <<mode, phase, owner, passes, carried, store, accepted, lost, late>>

Next ==
    \E w \in Slots :
        \/ Begin(w) \/ RunNode(w) \/ Accept(w)
        \/ Lose(w) \/ GiveUp(w) \/ Discard(w)

Spec == Init /\ [][Next]_vars

-----------------------------------------------------------------------------
(* What holds.                                                               *)

(* A node runs once in a pass and the gate after all others: the fan-outs of *)
(* requirements and design join again, in branches of the same length, so    *)
(* that nothing runs early or twice (the add_edge calls of the graphs).      *)
NodesRunOnce ==
    \A w \in Slots :
        LET s == slot[w] IN
        /\ s.frontier \cap s.ran = {}
        /\ "gate" \in s.frontier => s.ran \cup {"gate"} = Nodes(s.phase)

(* What a node reads of its own phase was made in the pass it is part of,    *)
(* and not left over from an earlier one that failed, was lost or was undone *)
(* by a hop.  There are two exceptions.  What is read as feedback may be     *)
(* older; and the integrator of a local run applies the diffs of items that  *)
(* only an earlier plan had, too, which no pass of the present plan makes    *)
(* again.  The artifacts an agent names and the edges that order the agents  *)
(* agree otherwise, for the evaluator, the gate and package_node's           *)
(* unconditional lookups too.                                                *)
FreshReads ==
    \A w \in Slots :
        LET s == slot[w] IN
        \A n \in s.frontier : \A k \in ReadsOf(s, n) \cap Made(s.phase) :
            \/ s.state[k] = s.number
            \/ <<n, k>> \in Feedback
            \/ mode = "local" /\ n = "integrator" /\ k \in Dropped(s)

(* The phase that makes artifact k, where there is one only. *)
MakerOf(k) == CHOOSE p \in Phases : k \in Made(p)

(* What one phase reads of another was accepted there, in a distributed run  *)
(* as in a local one: what is read across phases is saved, and what lost     *)
(* attempts left in the store is overwritten before anybody reads it.  Only  *)
(* a pass that was given up and goes on running can put its own version over *)
(* the accepted one at any time, whatever phase the run has reached; nothing *)
(* else of a lost pass is ever read, nor anything of a pass that was         *)
(* accepted and then superseded.  The test ids are an exception: they are    *)
(* not saved, and a distributed deploy does not see them (agent_node,        *)
(* assemble, plan_node; latest_artifacts in run_phase).                      *)
CurrentReads ==
    \A w \in Slots : owner = w =>
        LET s == slot[w] IN
        \A n \in s.frontier : \A k \in ReadsOf(s, n) \ Made(s.phase) :
            k # "test_ids" \/ mode = "local" =>
                s.state[k] \in {accepted[MakerOf(k)]} \cup late[MakerOf(k)]

-----------------------------------------------------------------------------
(* What the documents say and the code does not do.                          *)

(* docs/DESIGN.md:349, of TestEvalEvaluator: "Full coverage and all tests    *)
(* passing".  The four test agents write the same artifact, and the verdict  *)
(* is taken from the last one's.                                             *)
VerdictCountsAllTests ==
    \A w \in Slots :
        "evaluate" \in slot[w].frontier /\ slot[w].phase = "test_eval" /\ slot[w].green
            => ~slot[w].failed

-----------------------------------------------------------------------------
(* What makes it so, by induction on the steps.                              *)

(* The superstep in which a node of each graph runs. *)
Superstep ==
    [requirements |-> [intake |-> 1, clarify |-> 2, author |-> 3, compliance |-> 4,
                       scope |-> 4, evaluate |-> 5, gate |-> 6],
     design       |-> [codebase |-> 1, adr |-> 2, api |-> 3, data |-> 3, threat |-> 3,
                       work |-> 4, package |-> 5, evaluate |-> 6, gate |-> 7],
     build        |-> [scaffold |-> 1, work_items |-> 2, static_and_tests |-> 3,
                       integrator |-> 4, evaluate |-> 5, gate |-> 6],
     test_eval    |-> [plan |-> 1, integration |-> 2, e2e |-> 3, performance |-> 4,
                       security |-> 5, triage |-> 6, quality |-> 7, evaluate |-> 8,
                       gate |-> 9],
     deploy       |-> [release |-> 1, infra |-> 2, deploy |-> 3, soak |-> 4, rollback |-> 5,
                       evaluate |-> 6, gate |-> 7]]

NodesAt(p, n) == {node \in Nodes(p) : Superstep[p][node] = n}
NodesBefore(p, n) == {node \in Nodes(p) : Superstep[p][node] < n}

AllNodes == UNION {Nodes(p) : p \in Phases}

Passes ==
    [number : Nat, phase : Phases, frontier : SUBSET AllNodes, done : SUBSET AllNodes,
     ran : SUBSET AllNodes, state : [Keys -> Nat], failed : BOOLEAN, green : BOOLEAN]

(* Types, of any pass and any run. *)
TypeOK ==
    /\ mode \in {"local", "distributed"}
    /\ phase \in Phases \cup {"end"}
    /\ owner \in Slots \cup {NoSlot}
    /\ passes \in 0..MaxPasses
    /\ slot \in [Slots -> Passes]
    /\ {carried, store} \subseteq [Keys -> Nat]
    /\ accepted \in [Phases -> Nat]
    /\ lost \in 0..MaxLost
    /\ late \in [Phases -> SUBSET Nat]

(* Artifacts that one phase makes, in each pass of it: not the scorecards    *)
(* and not the artifacts of an item.                                         *)
OfOnePhase ==
    {k \in Keys \ OfItems : \A p, q \in Phases : k \in Made(p) \cap Made(q) => p = q}

(* A pass has run its graph up to one superstep and its state holds what was *)
(* made there.                                                               *)
PassFits(s) ==
    \/ s = NoPass
    \/ /\ s.number # 0
       /\ \E n \in 1..Superstep[s.phase]["gate"] :
             s.frontier = NodesAt(s.phase, n) /\ s.ran = NodesBefore(s.phase, n)
       /\ s.done \subseteq s.frontier
       /\ \A node \in s.ran : \A k \in WritesOf(s, node) : s.state[k] = s.number

(* The pass that counts is one of the phase being visited, and all others    *)
(* have been given up.                                                       *)
OwnerFits ==
    /\ owner # NoSlot => slot[owner] # NoPass /\ slot[owner].phase = phase
    /\ mode = "local" => \A p \in Phases : late[p] = {}
    /\ \A w \in Slots :
          w # owner => slot[w] = NoPass \/ slot[w].number \in late[slot[w].phase]

(* What pass n of phase p made, unless one given up has written over it. *)
OrLate(n, p) == {n} \cup late[p]

(* The store holds what other phases' accepted passes made, whatever lost    *)
(* passes of this phase have left there, and the pass that counts has        *)
(* overwritten what its nodes save.                                          *)
StoreFits ==
    /\ \A p \in Phases \ {phase} : \A k \in (Made(p) \cap OfOnePhase) \ Unsaved :
          store[k] \in OrLate(accepted[p], p)
    /\ owner # NoSlot =>
          \A node \in slot[owner].ran \cup slot[owner].done :
             \A k \in Saves(phase, node) \cap OfOnePhase :
                store[k] \in OrLate(slot[owner].number, phase)

(* What it has not made itself is what was accepted, in the state handed     *)
(* from phase to phase in a local run and in the state a pass has loaded.    *)
StateFits ==
    /\ mode = "local" =>
          \A p \in Phases : \A k \in Made(p) \cap OfOnePhase : carried[k] = accepted[p]
    /\ owner # NoSlot =>
          \A p \in Phases \ {phase} : \A k \in Made(p) \cap OfOnePhase :
             k \notin Unsaved \/ mode = "local" =>
                slot[owner].state[k] \in OrLate(accepted[p], p)

(* What is never saved is only in the state of the pass that made it, unless *)
(* the state is handed on.                                                   *)
UnsavedFits ==
    /\ \A k \in Unsaved : store[k] = 0
    /\ mode # "local" =>
          \A w \in Slots : \A k \in Unsaved : slot[w].state[k] \in {0, slot[w].number}

IInv ==
    (\A w \in Slots : PassFits(slot[w])) /\ OwnerFits /\ StoreFits /\ StateFits /\ UnsavedFits
=============================================================================
