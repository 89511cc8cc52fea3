----------------------------- MODULE MCEvaluator -----------------------------
(* Evaluator for TLC.                                                        *)
EXTENDS Evaluator
=============================================================================
