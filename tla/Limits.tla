------------------------------- MODULE Limits -------------------------------
(* How often a run may repeat phases: the same two limits in both            *)
(* orchestrators and in the gate policy.                                     *)
EXTENDS Naturals

CONSTANTS
    MaxRetries,     \* repetitions of one phase after a failed evaluation (2)
    MaxHops         \* backward routes from test_eval in a whole run (2)

ASSUME LimitsAssumption == MaxRetries \in Nat /\ MaxHops \in Nat
=============================================================================
