----------------------------- MODULE MCMasterRun -----------------------------
(* MasterRun for TLC.                                                        *)
EXTENDS MasterRun

(* Scores on both sides of the two marks where they matter most. *)
EdgeScores ==
    [p \in Phases |-> CASE p = "build" -> {70, 85}
                         [] p = "design" -> {84}
                         [] OTHER -> {69, 70, 85}]
=============================================================================
