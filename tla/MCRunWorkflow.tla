---------------------------- MODULE MCRunWorkflow ----------------------------
(* RunWorkflow for TLC.                                                      *)
EXTENDS RunWorkflow, TLC

(* Slots are interchangeable. *)
SlotSymmetry == Permutations(Workers)

(* Scores on both sides of the two marks; design and build always pass. *)
EdgeScores ==
    [p \in Phases |-> CASE p = "requirements" -> {69, 84}
                         [] p \in {"test_eval", "deploy"} -> {69, 70, 84, 85}
                         [] OTHER -> {70, 85}]

(* Only the tests can fail; deploy may need a reviewer, the rest nobody. *)
FailingTests ==
    [p \in Phases |-> CASE p = "test_eval" -> {69, 85}
                         [] p = "deploy"    -> {84, 85}
                         [] OTHER           -> {85}]
=============================================================================
