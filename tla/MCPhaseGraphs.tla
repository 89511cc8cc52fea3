---------------------------- MODULE MCPhaseGraphs ----------------------------
(* PhaseGraphs for TLC.                                                      *)
EXTENDS PhaseGraphs, TLC

Symmetric == Permutations(Slots)

(* Every other design pass drops an item from the plan, and the next one     *)
(* takes it up again.                                                        *)
ChangingPlans == [n \in 0..MaxPasses |-> IF n % 2 = 0 THEN Items ELSE {"first"}]
=============================================================================
