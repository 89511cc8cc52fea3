------------------------------- MODULE Phases -------------------------------
(* The phases a run goes through.  Both orchestrators of the repository, the *)
(* local LangGraph master and the Temporal workflow, use the same order.     *)
EXTENDS Naturals

Phases == {"requirements", "design", "build", "test_eval", "deploy"}

FirstPhase == "requirements"

LastPhase == "deploy"

(* A routing table with the tests left out. *)
NextPhaseSkippingTests(p) ==
    CASE p = "requirements" -> "design"
      [] p = "design"       -> "build"
      [] p = "build"        -> "deploy"
      [] OTHER              -> "deploy"

(* The phase after p; the last phase has none and is never asked for one. *)
NextPhase(p) ==
    CASE p = "requirements" -> "design"
      [] p = "design"       -> "build"
      [] p = "build"        -> "test_eval"
      [] OTHER              -> "deploy"

(* The phases regression triage may send a run back to. *)
TriageTargets == {"design", "build"}

NoTarget == "none"

(* The position of p, used to say which phases come after it. *)
Position(p) ==
    CASE p = "requirements" -> 1
      [] p = "design"       -> 2
      [] p = "build"        -> 3
      [] p = "test_eval"    -> 4
      [] OTHER              -> 5

Before(p) == {q \in Phases : Position(q) < Position(p)}
=============================================================================
