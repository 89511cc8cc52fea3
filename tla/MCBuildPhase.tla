---------------------------- MODULE MCBuildPhase ----------------------------
(* BuildPhase for TLC.                                                       *)
EXTENDS BuildPhase, TLC

PlansOver(items) == [items : {items}, deps : [items -> SUBSET items]]

(* The plans of one item, and those of two in which the order of the ids     *)
(* does not happen to be that of the dependencies.                           *)
SmallPlans == PlansOver({1}) \cup {p \in PlansOver({1, 2}) : p.deps[1] # {}}

(* The machines are interchangeable, and so are the contents. *)
Interchangeable == Permutations(Machines) \cup Permutations(Texts)
=============================================================================
