----------------------------- MODULE BuildPhase -----------------------------
(* The build phase: the order of its work items, what the agents of each     *)
(* leave in the sandbox, what the checks then see and what is committed, in  *)
(* a run that goes through the phase several times, on one machine or on     *)
(* several.  Agents, ruff, pytest and git are external.                      *)
EXTENDS Naturals, Sequences, FiniteSets, SequencesExt

CONSTANTS
    Plans,          \* work plans: items and, for each, those it depends on
    Texts,          \* contents of an item's module or of its test file
    Machines,       \* each with a sandbox of its own for the run
    MaxPasses,      \* bound on passes through the phase
    MaxRaises       \* bound on agent calls that raise, or processes that die

Items == UNION {p.items : p \in Plans}

(* Plans that DesignEvaluator's dag check lets through: every dependency is  *)
(* an item of the plan, itself not excluded.                                 *)
ASSUME BuildAssumption ==
    /\ Items \subseteq Nat /\ IsFiniteSet(Items)
    /\ \A p \in Plans : p.items # {} /\ p.deps \in [p.items -> SUBSET p.items]
    /\ {"absent", "nothing", "delete", "none"} \cap Texts = {}
    /\ MaxPasses \in Nat /\ MaxRaises \in Nat

VARIABLES
    mode,       \* local, with the state of earlier passes, or distributed
    repo,       \* the user's repository: none, or clean or dirty to ruff
    plan,       \* the work plan
    passes,     \* passes begun
    raises,     \* calls that raised
    pc,         \* the node of the pass, or the agent in work_items
    machine,    \* where it runs
    todo,       \* the items that are left, in order
    made,       \* the updates of work_items so far
    state,      \* code diffs, test diffs and reviews in the graph's state
    sandbox,    \* the modules and tests in each sandbox
    tree,       \* the copy of the repository in it: modules of items
    head,       \* the last commit there
    checked,    \* what ruff and pytest saw, and whether both passed
    outcome,    \* how the pass before ended
    replanned   \* the plan has changed during the run (history)

run == <<mode, repo, plan, passes, replanned>>
disk == <<sandbox, tree, head>>
vars == <<run, raises, pc, machine, todo, made, state, disk, checked, outcome>>

NoFiles == [i \in Items |-> "absent"]
NoTree == [i \in {} |-> "absent"]
NoDiffs == [i \in Items |-> "none"]
NoUpdates == [code |-> NoDiffs, test |-> NoDiffs, review |-> NoDiffs]
NotChecked == [code |-> NoFiles, test |-> NoFiles, tree |-> NoTree, passed |-> FALSE]

(* What a diff does to the item's module, or to its test file: give it       *)
(* content, leave it (a change without content, or no change) or delete it.  *)
(* Python paths are remapped to that one file, the others are left out.      *)
Diffs == Texts \cup {"nothing", "delete"}

Files == [Items -> Texts \cup {"absent"}]
Updates == [code : [Items -> Diffs \cup {"none"}], test : [Items -> Diffs \cup {"none"}],
            review : [Items -> {"none", "approved", "rejected"}]]

(* Without looking whether there is content. *)
WrittenAnyway(files, i, diff) ==
    IF diff = "delete" THEN [files EXCEPT ![i] = "absent"] ELSE [files EXCEPT ![i] = diff]

(* write_changes on the files of items. *)
Written(files, i, diff) ==
    CASE diff = "nothing" -> files
      [] diff = "delete"  -> [files EXCEPT ![i] = "absent"]
      [] OTHER            -> [files EXCEPT ![i] = diff]

TypeOK ==
    /\ mode \in {"local", "distributed"}
    /\ repo \in {"none", "clean", "dirty"}
    /\ plan \in Plans
    /\ passes \in 0..MaxPasses
    /\ raises \in 0..MaxRaises
    /\ pc \in {"idle", "work", "code", "test", "review", "check", "integrate", "evaluate"}
    /\ machine \in Machines
    /\ todo \in Seq(plan.items)
    /\ pc \in {"code", "test", "review"} <=> todo # <<>>
    /\ {made, state} \subseteq Updates
    /\ sandbox \in [Machines -> [code : Files, test : Files]]
    /\ {tree, head} \subseteq [Machines -> {NoTree} \cup Files]
    /\ checked \in [code : Files, test : Files, tree : {NoTree} \cup Files,
                   passed : BOOLEAN]
    /\ outcome \in {"passed", "failed", "raised"}
    /\ replanned \in BOOLEAN

Init ==
    /\ mode \in {"local", "distributed"}
    /\ repo \in {"none", "clean", "dirty"}
    /\ plan \in Plans
    /\ passes = 0
    /\ raises = 0
    /\ pc = "idle"
    /\ machine \in Machines
    /\ todo = <<>>
    /\ made = NoUpdates
    /\ state = NoUpdates
    /\ sandbox = [m \in Machines |-> [code |-> NoFiles, test |-> NoFiles]]
    /\ tree = [m \in Machines |-> NoTree]
    /\ head = [m \in Machines |-> NoTree]
    /\ checked = NotChecked
    /\ outcome = "failed"
    /\ replanned = FALSE

-----------------------------------------------------------------------------
(* The order of items.                                                       *)

(* Items whose dependencies are among the known ones, whenever they come. *)
ReadyIfKnown(p, remaining) == {i \in remaining : p.deps[i] \subseteq p.items}

(* Of the remaining items, those that wait for no other. *)
Ready(p, remaining) == {i \in remaining : p.deps[i] \cap remaining = {}}

(* Items by id. *)
Sorted(items) ==
    CHOOSE s \in [1..Cardinality(items) -> items] : \A m, n \in DOMAIN s : m < n => s[m] < s[n]

(* _ordered_items: layer by layer, each by id, as far as it gets. *)
Ordered(p) ==
    LET from[remaining \in SUBSET p.items] ==
            IF Ready(p, remaining) = {} THEN <<>>
            ELSE Sorted(Ready(p, remaining)) \o from[remaining \ Ready(p, remaining)]
    IN  from[p.items]

(* It raises when items remain and none is ready. *)
Sortable(p) == Len(Ordered(p)) = Cardinality(p.items)

-----------------------------------------------------------------------------
(* A pass.                                                                   *)

(* A sandbox that starts out as a copy of the repository. *)
ScaffoldRepo(m) ==
    /\ tree' = [tree EXCEPT ![m] = IF repo = "none" THEN NoTree ELSE NoFiles]
    /\ UNCHANGED <<sandbox, head>>

(* scaffold_node makes what is missing and leaves what it finds. *)
Scaffold(m) == UNCHANGED disk

(* A pass begins.  A retry keeps the plan; a hop after a pass that was       *)
(* accepted may change it.                                                   *)
Begin(m) ==
    /\ pc = "idle"
    /\ passes < MaxPasses
    /\ mode = "local" => m = machine
    /\ \E p \in IF outcome = "passed" THEN Plans ELSE {plan} :
          plan' = p /\ replanned' = (replanned \/ p # plan)
    /\ passes' = passes + 1
    /\ machine' = m
    /\ state' = IF mode = "local" THEN state ELSE NoUpdates
    /\ pc' = "work"
    /\ checked' = NotChecked
    /\ Scaffold(m)
    /\ UNCHANGED <<mode, repo, raises, todo, made, outcome>>

(* A node raises or its process dies: a local run is resumed at the node, an *)
(* activity starts over.  Updates are lost, files are not.                   *)
Fails ==
    /\ outcome' = "raised"
    /\ pc' = IF mode = "distributed" THEN "idle"
             ELSE IF todo # <<>> THEN "work" ELSE pc
    /\ todo' = <<>>
    /\ made' = NoUpdates
    /\ UNCHANGED <<run, machine, state, disk, checked>>

Raise ==
    /\ pc # "idle"
    /\ raises < MaxRaises
    /\ raises' = raises + 1
    /\ Fails

(* work_items_node orders the items first of all; a cycle raises for good. *)
Order ==
    /\ pc = "work"
    /\ Sortable(plan)
    /\ todo' = Ordered(plan)
    /\ pc' = "code"
    /\ UNCHANGED <<run, raises, machine, made, state, disk, checked, outcome>>

(* The coder's diff for the next item is written. *)
CodeItem ==
    /\ pc = "code"
    /\ \E d \in Diffs :
          /\ made' = [made EXCEPT !.code[Head(todo)] = d]
          /\ sandbox' = [sandbox EXCEPT ![machine].code = Written(@, Head(todo), d)]
    /\ pc' = "test"
    /\ UNCHANGED <<run, raises, machine, todo, state, tree, head, checked, outcome>>

TestItem ==
    /\ pc = "test"
    /\ \E d \in Diffs :
          /\ made' = [made EXCEPT !.test[Head(todo)] = d]
          /\ sandbox' = [sandbox EXCEPT ![machine].test = Written(@, Head(todo), d)]
    /\ pc' = "review"
    /\ UNCHANGED <<run, raises, machine, todo, state, tree, head, checked, outcome>>

(* An update that does not replace what an earlier pass left. *)
MergedUnder(old, new) == [i \in Items |-> IF old[i] = "none" THEN new[i] ELSE old[i]]

(* The updates of a node, merged into the state. *)
Merged(old, new) == [i \in Items |-> IF new[i] = "none" THEN old[i] ELSE new[i]]

(* The item is reviewed; after the last one the node returns its updates. *)
ReviewItem ==
    /\ pc = "review"
    /\ todo' = Tail(todo)
    /\ \E r \in {"approved", "rejected"} :
       LET all == [made EXCEPT !.review[Head(todo)] = r] IN
          IF Len(todo) > 1
          THEN made' = all /\ pc' = "code" /\ UNCHANGED state
          ELSE /\ state' = [code |-> Merged(state.code, all.code),
                            test |-> Merged(state.test, all.test),
                            review |-> Merged(state.review, all.review)]
               /\ made' = NoUpdates
               /\ pc' = "check"
    /\ UNCHANGED <<run, raises, machine, disk, checked, outcome>>

(* ruff checks the whole sandbox, the copy of the repository of an earlier   *)
(* pass included; pytest runs all tests there, and fails if there are none.  *)
Check ==
    /\ pc = "check"
    /\ \E ok \in IF \/ \A i \in Items : sandbox[machine].test[i] = "absent"
                    \/ repo = "dirty" /\ tree[machine] # NoTree
                 THEN {FALSE} ELSE BOOLEAN :
          checked' = [code |-> sandbox[machine].code, test |-> sandbox[machine].test,
                      tree |-> tree[machine], passed |-> ok]
    /\ pc' = "integrate"
    /\ UNCHANGED <<run, raises, machine, todo, made, state, disk, outcome>>

(* Modules that are there already are kept. *)
IntegratedNew(files) ==
    [i \in Items |-> IF state.code[i] \in Texts /\ files[i] = "absent" THEN state.code[i]
                     ELSE IF state.code[i] = "delete" THEN "absent" ELSE files[i]]

(* Every code diff in the state, applied to the copy of the repository. *)
Integrated(files) ==
    [i \in Items |-> IF state.code[i] = "none" THEN files[i]
                     ELSE Written(files, i, state.code[i])[i]]

(* Without a repository nothing is written.  With one, it is copied over     *)
(* what there is, the diffs are applied and the tree is committed, which     *)
(* git refuses when nothing has changed since the commit before.             *)
Integrate ==
    /\ pc = "integrate"
    /\ LET files == Integrated(IF tree[machine] = NoTree THEN NoFiles ELSE tree[machine])
       IN  IF repo = "none"
           THEN /\ pc' = "evaluate"
                /\ UNCHANGED <<run, machine, todo, made, state, disk, checked, outcome>>
           ELSE IF files = head[machine] THEN Fails
           ELSE /\ tree' = [tree EXCEPT ![machine] = files]
                /\ head' = [head EXCEPT ![machine] = files]
                /\ pc' = "evaluate"
                /\ UNCHANGED <<run, machine, todo, made, state, sandbox, checked, outcome>>
    /\ UNCHANGED raises

(* BuildEvaluator's checks: a diff and an approval for every item, and what  *)
(* ruff and pytest said.                                                     *)
ItemsOk == \A i \in plan.items : state.code[i] # "none" /\ state.review[i] = "approved"

Evaluate ==
    /\ pc = "evaluate"
    /\ outcome' = IF ItemsOk /\ checked.passed THEN "passed" ELSE "failed"
    /\ pc' = "idle"
    /\ UNCHANGED <<run, raises, machine, todo, made, state, disk, checked>>

Next ==
    \/ \E m \in Machines : Begin(m)
    \/ Raise \/ Order \/ CodeItem \/ TestItem \/ ReviewItem
    \/ Check \/ Integrate \/ Evaluate

Spec == Init /\ [][Next]_vars

-----------------------------------------------------------------------------
(* What holds.                                                               *)

(* Some items wait for each other. *)
Cyclic(p) ==
    \E s \in SUBSET p.items : s # {} /\ \A i \in s : p.deps[i] \cap s # {}

(* When work_items_node starts, the order is found whenever there is one:    *)
(* unless items wait for each other, every item is in it once, after all it  *)
(* depends on (_ordered_items, for plans that the dag check of the design    *)
(* phase lets through).                                                      *)
OrderIsTopological ==
    pc = "work" =>
        IF Cyclic(plan) THEN ~Sortable(plan)
        ELSE LET order == Ordered(plan) IN
             /\ Sortable(plan) /\ ToSet(order) = plan.items
             /\ \A n \in 1..Len(order) :
                   plan.deps[order[n]] \subseteq {order[j] : j \in 1..(n - 1)}

(* The tests run on the modules that were reviewed: when a pass with an      *)
(* approval for every item is evaluated, each module and each test file it   *)
(* brought is what ruff and pytest saw, and each that it deleted they did    *)
(* not see, whatever earlier passes or calls that raised half-way had left   *)
(* in the sandbox.                                                           *)
ChecksSeeReviewedCode ==
    pc = "evaluate" => \A i \in plan.items :
        /\ state.code[i] \in Texts => checked.code[i] = state.code[i]
        /\ state.code[i] = "delete" => checked.code[i] = "absent"
        /\ state.test[i] \in Texts => checked.test[i] = state.test[i]
        /\ state.test[i] = "delete" => checked.test[i] = "absent"

(* What is committed for an item is what was reviewed, and as long as the    *)
(* plan has not changed nothing but its items is.                            *)
CommitHoldsPlan ==
    pc = "evaluate" /\ repo # "none" => \A i \in Items :
        /\ i \in plan.items /\ state.code[i] \in Texts => head[machine][i] = state.code[i]
        /\ i \notin plan.items /\ ~replanned => head[machine][i] = "absent"

(* A first pass is judged by its own files alone: no other items, and not    *)
(* the code of the repository (docs/DESIGN.md:324, "A clean, importable      *)
(* sandbox"); later ones find what was left behind.                          *)
FirstPassIsClean ==
    pc = "evaluate" /\ passes = 1 =>
        /\ checked.tree = NoTree
        /\ \A i \in Items \ plan.items :
              checked.code[i] = "absent" /\ checked.test[i] = "absent"

-----------------------------------------------------------------------------
(* What the documents say and the code does not do.                          *)

(* docs/DESIGN.md:118, "evaluator failed & retries<2" then "rerun same       *)
(* phase": a pass can be repeated.  One that makes what is committed already *)
(* raises in git commit, and the run stops there.                            *)
PassCanBeRepeated ==
    [][ pc = "integrate" /\ raises' = raises => pc' = "evaluate" ]_vars

-----------------------------------------------------------------------------
(* What makes it so, by induction on the steps.                              *)

(* The file is what the diff makes of it. *)
Agrees(diff, file) ==
    /\ diff \in Texts => file = diff
    /\ diff = "delete" => file = "absent"

(* Item i has a diff in the updates u, and the sandbox holds it. *)
Coded(u, i) == u.code[i] # "none" /\ Agrees(u.code[i], sandbox[machine].code[i])
Tested(u, i) == u.test[i] # "none" /\ Agrees(u.test[i], sandbox[machine].test[i])

(* In work_items the items that are through have been written. *)
WorkFits ==
    /\ pc \notin {"code", "test", "review"} => made = NoUpdates
    /\ pc \in {"code", "test", "review"} =>
          \A i \in plan.items \ ToSet(todo) : Coded(made, i) /\ Tested(made, i)
    /\ pc \in {"test", "review"} => Coded(made, Head(todo))
    /\ pc = "review" => Tested(made, Head(todo))

(* After it all have, and what was checked and committed is what they made. *)
StateFits ==
    /\ pc \in {"check", "integrate", "evaluate"} =>
          \A i \in plan.items : Coded(state, i) /\ Tested(state, i)
    /\ pc \in {"integrate", "evaluate"} =>
          checked.code = sandbox[machine].code /\ checked.test = sandbox[machine].test
    /\ pc = "evaluate" /\ repo # "none" =>
          /\ head[machine] # NoTree
          /\ \A i \in plan.items : state.code[i] \in Texts => head[machine][i] = state.code[i]

(* Of other items there is nothing as long as there has been one plan. *)
PlanFits ==
    ~replanned => \A i \in Items \ plan.items :
        /\ state.code[i] = "none" /\ made.code[i] = "none"
        /\ \A m \in Machines : /\ tree[m] # NoTree => tree[m][i] = "absent"
                               /\ head[m] # NoTree => head[m][i] = "absent"

(* In a first pass not even in a sandbox, and there is no copy of the        *)
(* repository before it is integrated.                                       *)
FirstFits ==
    /\ passes = 0 =>
          /\ pc = "idle"
          /\ \A m \in Machines :
                sandbox[m].code = NoFiles /\ sandbox[m].test = NoFiles /\ tree[m] = NoTree
    /\ passes = 1 =>
          /\ \A m \in Machines : \A i \in Items \ plan.items :
                sandbox[m].code[i] = "absent" /\ sandbox[m].test[i] = "absent"
          /\ pc \notin {"idle", "evaluate"} => tree[machine] = NoTree
          /\ pc \in {"integrate", "evaluate"} => checked.tree = NoTree

IInv == WorkFits /\ StateFits /\ PlanFits /\ FirstFits
=============================================================================
