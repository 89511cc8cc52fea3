-------------------------- MODULE PhaseGraphsProofs --------------------------
(* Proofs about the phase graphs, for any number of slots, passes and losses *)
(* and any interleaving: what follows from the tables of AgentGraphs for     *)
(* each graph first, and then by induction on the steps for all at once.     *)
EXTENDS PhaseGraphs, TLAPS

-----------------------------------------------------------------------------
(* The graphs.                                                               *)

(* Each edge leads from one superstep to the next, each node is led to, and  *)
(* the gate is alone in the last one.                                        *)
GraphOrdered(p) ==
    /\ "gate" \in Nodes(p) /\ "start" \notin Nodes(p)
    /\ Writes(p, "gate") = {}
    /\ \A n \in Nodes(p) :
          /\ Superstep[p][n] \in 1..Superstep[p]["gate"]
          /\ Superstep[p][n] = Superstep[p]["gate"] => n = "gate"
    /\ Superstep[p]["gate"] \in Nat
    /\ \A e \in Graph[p].edges :
          /\ e[2] \in Nodes(p)
          /\ \/ e[1] = "start" /\ Superstep[p][e[2]] = 1
             \/ e[1] \in Nodes(p) /\ Superstep[p][e[2]] = Superstep[p][e[1]] + 1
    /\ \A n \in Nodes(p) :
          \/ <<"start", n>> \in Graph[p].edges
          \/ \E m \in Nodes(p) : <<m, n>> \in Graph[p].edges

(* What a node reads of its own phase is written in an earlier superstep.    *)
ReadsOrdered(p) ==
    \A n \in Nodes(p) : \A k \in Reads(p, n) \cap Made(p) :
        <<n, k>> \notin Feedback =>
            \E m \in Nodes(p) : k \in Writes(p, m) /\ Superstep[p][m] < Superstep[p][n]

GraphFits(p) == GraphOrdered(p) /\ ReadsOrdered(p)

LEMMA RequirementsTables ==
    /\ Nodes("requirements") = {"intake", "clarify", "author", "compliance",
                                "scope", "evaluate", "gate"}
    /\ Graph["requirements"].edges =
          {<<"start", "intake">>, <<"intake", "clarify">>,
           <<"clarify", "author">>, <<"author", "compliance">>,
           <<"compliance", "evaluate">>, <<"evaluate", "gate">>,
           <<"author", "scope">>, <<"scope", "evaluate">>}
    /\ Made("requirements") = {"clarification_log", "compliance_notes",
                               "eval_scorecard", "intake_summary",
                               "requirements_spec", "scope_assessment"}
    /\ \A n \in Nodes("requirements") :
          Reads("requirements", n) = RequirementsReads[n] /\ Writes("requirements", n) = RequirementsWrites[n]
<1>1. Graph["requirements"] = [edges |-> RequirementsEdges, reads |-> RequirementsReads,
                               writes |-> RequirementsWrites]
  BY DEF Graph
<1>2. Nodes("requirements") = {"intake", "clarify", "author", "compliance",
                               "scope", "evaluate", "gate"}
  BY <1>1 DEF Nodes, RequirementsReads
<1>3. Chain(<<"start", "intake", "clarify", "author", "compliance", "evaluate",
        "gate">>)
      = {<<"start", "intake">>, <<"intake", "clarify">>,
         <<"clarify", "author">>, <<"author", "compliance">>,
         <<"compliance", "evaluate">>, <<"evaluate", "gate">>}
  BY DEF Chain
<1>4. Chain(<<"author", "scope", "evaluate">>)
      = {<<"author", "scope">>, <<"scope", "evaluate">>}
  BY DEF Chain
<1>5. Graph["requirements"].edges =
          {<<"start", "intake">>, <<"intake", "clarify">>,
           <<"clarify", "author">>, <<"author", "compliance">>,
           <<"compliance", "evaluate">>, <<"evaluate", "gate">>,
           <<"author", "scope">>, <<"scope", "evaluate">>}
  BY <1>1, <1>3, <1>4 DEF RequirementsEdges
<1>6. \A n \in Nodes("requirements") :
         Reads("requirements", n) = RequirementsReads[n] /\ Writes("requirements", n) = RequirementsWrites[n]
  BY <1>1 DEF Reads, Writes
<1>7. Made("requirements") = {"clarification_log", "compliance_notes",
                              "eval_scorecard", "intake_summary",
                              "requirements_spec", "scope_assessment"}
  BY <1>2, <1>6 DEF Made, RequirementsWrites
<1> QED
  BY <1>2, <1>5, <1>6, <1>7

LEMMA RequirementsFits == GraphFits("requirements")
<1>1. Superstep["requirements"] = [intake |-> 1, clarify |-> 2, author |-> 3,
                                   compliance |-> 4, scope |-> 4,
                                   evaluate |-> 5, gate |-> 6]
  BY DEF Superstep
<1>2. GraphOrdered("requirements")
  BY <1>1, RequirementsTables DEF GraphOrdered, RequirementsWrites
<1>3. ReadsOrdered("requirements")
  BY <1>1, RequirementsTables DEF ReadsOrdered, RequirementsReads, RequirementsWrites, Feedback
<1> QED
  BY <1>2, <1>3 DEF GraphFits

LEMMA DesignTables ==
    /\ Nodes("design") = {"codebase", "adr", "api", "data", "threat", "work",
                          "package", "evaluate", "gate"}
    /\ Graph["design"].edges =
          {<<"start", "codebase">>, <<"codebase", "adr">>, <<"adr", "api">>,
           <<"api", "work">>, <<"work", "package">>,
           <<"package", "evaluate">>, <<"evaluate", "gate">>,
           <<"adr", "data">>, <<"data", "work">>, <<"adr", "threat">>,
           <<"threat", "work">>}
    /\ Made("design") = {"api_spec", "architecture_decisions", "codebase_map",
                         "data_model", "design_package", "eval_scorecard",
                         "threat_model", "work_plan"}
    /\ \A n \in Nodes("design") :
          Reads("design", n) = DesignReads[n] /\ Writes("design", n) = DesignWrites[n]
<1>1. Graph["design"] = [edges |-> DesignEdges, reads |-> DesignReads,
                         writes |-> DesignWrites]
  BY DEF Graph
<1>2. Nodes("design") = {"codebase", "adr", "api", "data", "threat", "work",
                         "package", "evaluate", "gate"}
  BY <1>1 DEF Nodes, DesignReads
<1>3. Chain(<<"start", "codebase", "adr", "api", "work", "package", "evaluate",
        "gate">>)
      = {<<"start", "codebase">>, <<"codebase", "adr">>, <<"adr", "api">>,
         <<"api", "work">>, <<"work", "package">>, <<"package", "evaluate">>,
         <<"evaluate", "gate">>}
  BY DEF Chain
<1>4. Chain(<<"adr", "data", "work">>)
      = {<<"adr", "data">>, <<"data", "work">>}
  BY DEF Chain
<1>5. Chain(<<"adr", "threat", "work">>)
      = {<<"adr", "threat">>, <<"threat", "work">>}
  BY DEF Chain
<1>6. Graph["design"].edges =
          {<<"start", "codebase">>, <<"codebase", "adr">>, <<"adr", "api">>,
           <<"api", "work">>, <<"work", "package">>,
           <<"package", "evaluate">>, <<"evaluate", "gate">>,
           <<"adr", "data">>, <<"data", "work">>, <<"adr", "threat">>,
           <<"threat", "work">>}
  BY <1>1, <1>3, <1>4, <1>5 DEF DesignEdges
<1>7. \A n \in Nodes("design") :
         Reads("design", n) = DesignReads[n] /\ Writes("design", n) = DesignWrites[n]
  BY <1>1 DEF Reads, Writes
<1>8. Made("design") = {"api_spec", "architecture_decisions", "codebase_map",
                        "data_model", "design_package", "eval_scorecard",
                        "threat_model", "work_plan"}
  BY <1>2, <1>7 DEF Made, DesignWrites
<1> QED
  BY <1>2, <1>6, <1>7, <1>8

LEMMA DesignFits == GraphFits("design")
<1>1. Superstep["design"] = [codebase |-> 1, adr |-> 2, api |-> 3, data |-> 3,
                             threat |-> 3, work |-> 4, package |-> 5,
                             evaluate |-> 6, gate |-> 7]
  BY DEF Superstep
<1>2. GraphOrdered("design")
  BY <1>1, DesignTables DEF GraphOrdered, DesignWrites
<1>3. ReadsOrdered("design")
  BY <1>1, DesignTables DEF ReadsOrdered, DesignReads, DesignWrites, Feedback
<1> QED
  BY <1>2, <1>3 DEF GraphFits

LEMMA ItemsNamed ==
    OfItems = {"code_diff_1", "unit_test_diff_1", "review_report_1",
               "code_diff_2", "unit_test_diff_2", "review_report_2"}
<1>1. Items = {"first", "second"}
  BY DEF Items, ItemArtifacts
<1>2. OfItems = ItemArtifacts["first"] \cup ItemArtifacts["second"]
  BY <1>1 DEF OfItems
<1> QED
  BY <1>2 DEF ItemArtifacts

LEMMA BuildTables ==
    /\ Nodes("build") = {"scaffold", "work_items", "static_and_tests",
                         "integrator", "evaluate", "gate"}
    /\ Graph["build"].edges =
          {<<"start", "scaffold">>, <<"scaffold", "work_items">>,
           <<"work_items", "static_and_tests">>,
           <<"static_and_tests", "integrator">>, <<"integrator", "evaluate">>,
           <<"evaluate", "gate">>}
    /\ Made("build") = OfItems \cup {"env_report", "eval_scorecard",
                                     "pull_request_artifact", "static_report"}
    /\ \A n \in Nodes("build") :
          Reads("build", n) = BuildReads[n] /\ Writes("build", n) = BuildWrites[n]
<1>1. Graph["build"] = [edges |-> BuildEdges, reads |-> BuildReads,
                        writes |-> BuildWrites]
  BY DEF Graph
<1>2. Nodes("build") = {"scaffold", "work_items", "static_and_tests",
                        "integrator", "evaluate", "gate"}
  BY <1>1 DEF Nodes, BuildReads
<1>3. Chain(<<"start", "scaffold", "work_items", "static_and_tests", "integrator",
        "evaluate", "gate">>)
      = {<<"start", "scaffold">>, <<"scaffold", "work_items">>,
         <<"work_items", "static_and_tests">>,
         <<"static_and_tests", "integrator">>, <<"integrator", "evaluate">>,
         <<"evaluate", "gate">>}
  BY DEF Chain
<1>4. Graph["build"].edges =
          {<<"start", "scaffold">>, <<"scaffold", "work_items">>,
           <<"work_items", "static_and_tests">>,
           <<"static_and_tests", "integrator">>, <<"integrator", "evaluate">>,
           <<"evaluate", "gate">>}
  BY <1>1, <1>3 DEF BuildEdges
<1>5. \A n \in Nodes("build") :
         Reads("build", n) = BuildReads[n] /\ Writes("build", n) = BuildWrites[n]
  BY <1>1 DEF Reads, Writes
<1>6. Made("build") = OfItems \cup {"env_report", "eval_scorecard",
                                    "pull_request_artifact", "static_report"}
  BY <1>2, <1>5 DEF Made, BuildWrites
<1> QED
  BY <1>2, <1>4, <1>5, <1>6

LEMMA BuildFits == GraphFits("build")
<1>1. Superstep["build"] = [scaffold |-> 1, work_items |-> 2,
                            static_and_tests |-> 3, integrator |-> 4,
                            evaluate |-> 5, gate |-> 6]
  BY DEF Superstep
<1>2. GraphOrdered("build")
  BY <1>1, BuildTables DEF GraphOrdered, BuildWrites
<1>3. ReadsOrdered("build")
  BY <1>1, BuildTables, ItemsNamed DEF ReadsOrdered, BuildReads, BuildWrites, Feedback
<1> QED
  BY <1>2, <1>3 DEF GraphFits

LEMMA TestEvalTables ==
    /\ Nodes("test_eval") = {"plan", "integration", "e2e", "performance",
                             "security", "triage", "quality", "evaluate",
                             "gate"}
    /\ Graph["test_eval"].edges =
          {<<"start", "plan">>, <<"plan", "integration">>,
           <<"integration", "e2e">>, <<"e2e", "performance">>,
           <<"performance", "security">>, <<"security", "triage">>,
           <<"triage", "quality">>, <<"quality", "evaluate">>,
           <<"evaluate", "gate">>}
    /\ Made("test_eval") = {"eval_scorecard", "quality_report", "test_ids",
                            "test_plan", "test_results", "triage_report"}
    /\ \A n \in Nodes("test_eval") :
          Reads("test_eval", n) = TestEvalReads[n] /\ Writes("test_eval", n) = TestEvalWrites[n]
<1>1. Graph["test_eval"] = [edges |-> TestEvalEdges, reads |-> TestEvalReads,
                            writes |-> TestEvalWrites]
  BY DEF Graph
<1>2. Nodes("test_eval") = {"plan", "integration", "e2e", "performance",
                            "security", "triage", "quality", "evaluate",
                            "gate"}
  BY <1>1 DEF Nodes, TestEvalReads
<1>3. Chain(<<"start", "plan", "integration", "e2e", "performance", "security",
        "triage", "quality", "evaluate", "gate">>)
      = {<<"start", "plan">>, <<"plan", "integration">>,
         <<"integration", "e2e">>, <<"e2e", "performance">>,
         <<"performance", "security">>, <<"security", "triage">>,
         <<"triage", "quality">>, <<"quality", "evaluate">>,
         <<"evaluate", "gate">>}
  BY DEF Chain
<1>4. Graph["test_eval"].edges =
          {<<"start", "plan">>, <<"plan", "integration">>,
           <<"integration", "e2e">>, <<"e2e", "performance">>,
           <<"performance", "security">>, <<"security", "triage">>,
           <<"triage", "quality">>, <<"quality", "evaluate">>,
           <<"evaluate", "gate">>}
  BY <1>1, <1>3 DEF TestEvalEdges
<1>5. \A n \in Nodes("test_eval") :
         Reads("test_eval", n) = TestEvalReads[n] /\ Writes("test_eval", n) = TestEvalWrites[n]
  BY <1>1 DEF Reads, Writes
<1>6. Made("test_eval") = {"eval_scorecard", "quality_report", "test_ids",
                           "test_plan", "test_results", "triage_report"}
  BY <1>2, <1>5 DEF Made, TestEvalWrites
<1> QED
  BY <1>2, <1>4, <1>5, <1>6

LEMMA TestEvalFits == GraphFits("test_eval")
<1>1. Superstep["test_eval"] = [plan |-> 1, integration |-> 2, e2e |-> 3,
                                performance |-> 4, security |-> 5,
                                triage |-> 6, quality |-> 7, evaluate |-> 8,
                                gate |-> 9]
  BY DEF Superstep
<1>2. GraphOrdered("test_eval")
  BY <1>1, TestEvalTables DEF GraphOrdered, TestEvalWrites
<1>3. ReadsOrdered("test_eval")
  BY <1>1, TestEvalTables DEF ReadsOrdered, TestEvalReads, TestEvalWrites, Feedback
<1> QED
  BY <1>2, <1>3 DEF GraphFits

LEMMA DeployTables ==
    /\ Nodes("deploy") = {"release", "infra", "deploy", "soak", "rollback",
                          "evaluate", "gate"}
    /\ Graph["deploy"].edges =
          {<<"start", "release">>, <<"release", "infra">>,
           <<"infra", "deploy">>, <<"deploy", "soak">>,
           <<"soak", "rollback">>, <<"rollback", "evaluate">>,
           <<"evaluate", "gate">>}
    /\ Made("deploy") = {"deploy_log", "eval_scorecard", "infra_plan",
                         "release_notes", "rollback_report", "soak_report"}
    /\ \A n \in Nodes("deploy") :
          Reads("deploy", n) = DeployReads[n] /\ Writes("deploy", n) = DeployWrites[n]
<1>1. Graph["deploy"] = [edges |-> DeployEdges, reads |-> DeployReads,
                         writes |-> DeployWrites]
  BY DEF Graph
<1>2. Nodes("deploy") = {"release", "infra", "deploy", "soak", "rollback",
                         "evaluate", "gate"}
  BY <1>1 DEF Nodes, DeployReads
<1>3. Chain(<<"start", "release", "infra", "deploy", "soak", "rollback", "evaluate",
        "gate">>)
      = {<<"start", "release">>, <<"release", "infra">>,
         <<"infra", "deploy">>, <<"deploy", "soak">>, <<"soak", "rollback">>,
         <<"rollback", "evaluate">>, <<"evaluate", "gate">>}
  BY DEF Chain
<1>4. Graph["deploy"].edges =
          {<<"start", "release">>, <<"release", "infra">>,
           <<"infra", "deploy">>, <<"deploy", "soak">>,
           <<"soak", "rollback">>, <<"rollback", "evaluate">>,
           <<"evaluate", "gate">>}
  BY <1>1, <1>3 DEF DeployEdges
<1>5. \A n \in Nodes("deploy") :
         Reads("deploy", n) = DeployReads[n] /\ Writes("deploy", n) = DeployWrites[n]
  BY <1>1 DEF Reads, Writes
<1>6. Made("deploy") = {"deploy_log", "eval_scorecard", "infra_plan",
                        "release_notes", "rollback_report", "soak_report"}
  BY <1>2, <1>5 DEF Made, DeployWrites
<1> QED
  BY <1>2, <1>4, <1>5, <1>6

LEMMA DeployFits == GraphFits("deploy")
<1>1. Superstep["deploy"] = [release |-> 1, infra |-> 2, deploy |-> 3,
                             soak |-> 4, rollback |-> 5, evaluate |-> 6,
                             gate |-> 7]
  BY DEF Superstep
<1>2. GraphOrdered("deploy")
  BY <1>1, DeployTables DEF GraphOrdered, DeployWrites
<1>3. ReadsOrdered("deploy")
  BY <1>1, DeployTables DEF ReadsOrdered, DeployReads, DeployWrites, Feedback
<1> QED
  BY <1>2, <1>3 DEF GraphFits

LEMMA GraphsFit == \A p \in Phases : GraphFits(p)
BY RequirementsFits, DesignFits, BuildFits, TestEvalFits, DeployFits DEF Phases

(* What is read of other phases is made by one of them, and saved but for    *)
(* the test ids.                                                             *)
LEMMA ReadsOfOthers ==
    ASSUME NEW p \in Phases, NEW n \in Nodes(p), NEW k \in Reads(p, n) \ Made(p)
    PROVE  /\ \E q \in Phases : k \in Made(q)
           /\ k \in OfOnePhase
           /\ k # "test_ids" => k \notin Unsaved
<1>1. k \in {"requirements_spec", "design_package", "quality_report", "test_ids"}
  <2>1. CASE p = "requirements"
    BY <2>1, RequirementsTables DEF RequirementsReads
  <2>2. CASE p = "design"
    BY <2>2, DesignTables DEF DesignReads
  <2>3. CASE p = "build"
    BY <2>3, BuildTables, ItemsNamed DEF BuildReads
  <2>4. CASE p = "test_eval"
    BY <2>4, TestEvalTables DEF TestEvalReads
  <2>5. CASE p = "deploy"
    BY <2>5, DeployTables DEF DeployReads
  <2> QED
    BY <2>1, <2>2, <2>3, <2>4, <2>5 DEF Phases
<1>2. PICK q \in Phases : \A r \in Phases : k \in Made(r) <=> r = q
  BY <1>1, RequirementsTables, DesignTables, BuildTables, TestEvalTables, DeployTables,
     ItemsNamed
  DEF Phases
<1>3. k \in Keys
  BY <1>2 DEF Keys
<1> QED
  BY <1>1, <1>2, <1>3, ItemsNamed DEF OfOnePhase, Unsaved

(* The phase that made an artifact is found. *)
LEMMA MakerFound ==
    ASSUME NEW p \in Phases, NEW k \in Made(p) \cap OfOnePhase
    PROVE  MakerOf(k) = p
BY DEF MakerOf, OfOnePhase

(* Artifacts of items are made in build, which leaves the plan alone.        *)
LEMMA ItemsOfBuild ==
    /\ \A p \in Phases \ {"build"} : Made(p) \cap OfItems = {}
    /\ "design_package" \in Keys \ Made("build")
    /\ OfItems \subseteq Unsaved
    /\ \A s : Dropped(s) \subseteq OfItems
<1>1. \A p \in Phases \ {"build"} : Made(p) \cap OfItems = {}
  BY RequirementsTables, DesignTables, TestEvalTables, DeployTables, ItemsNamed DEF Phases
<1>2. "design_package" \notin Made("build")
  BY BuildTables, ItemsNamed
<1>3. "design_package" \in Keys
  BY DesignTables DEF Keys, Phases
<1>4. \A s : Dropped(s) \subseteq OfItems
  BY DEF Dropped, OfItems
<1> QED
  BY <1>1, <1>2, <1>3, <1>4 DEF Unsaved

LEMMA WritesAreMade ==
    ASSUME NEW p \in Phases
    PROVE  /\ \A n \in Nodes(p) : Writes(p, n) \subseteq Made(p)
           /\ \A k \in Made(p) : k \in Keys /\ \E n \in Nodes(p) : k \in Writes(p, n)
           /\ Nodes(p) \subseteq AllNodes
BY DEF Made, Keys, AllNodes

(* One superstep is followed by the next, from the start to the gate. *)
LEMMA NextSuperstep ==
    ASSUME NEW p \in Phases
    PROVE  /\ After(p, {"start"}) = NodesAt(p, 1)
           /\ \A n \in Nat \ {0} : After(p, NodesAt(p, n)) = NodesAt(p, n + 1)
<1>1. GraphOrdered(p)
  BY GraphsFit DEF GraphFits
<1>2. After(p, {"start"}) \subseteq NodesAt(p, 1)
  BY <1>1 DEF After, NodesAt, GraphOrdered
<1>3. ASSUME NEW x \in NodesAt(p, 1) PROVE x \in After(p, {"start"})
  <2>1. ~\E m \in Nodes(p) : <<m, x>> \in Graph[p].edges
    <3>1. SUFFICES ASSUME NEW m \in Nodes(p), <<m, x>> \in Graph[p].edges PROVE FALSE
      OBVIOUS
    <3>2. Superstep[p][x] = Superstep[p][m] + 1 /\ Superstep[p][m] >= 1
      BY <1>1, <3>1 DEF GraphOrdered
    <3> QED
      BY <1>1, <1>3, <3>2 DEF GraphOrdered, NodesAt
  <2>2. <<"start", x>> \in Graph[p].edges
    BY <1>1, <1>3, <2>1 DEF GraphOrdered, NodesAt
  <2> QED
    BY <2>2 DEF After
<1>4. ASSUME NEW n \in Nat \ {0} PROVE After(p, NodesAt(p, n)) = NodesAt(p, n + 1)
  <2>1. ASSUME NEW x \in After(p, NodesAt(p, n)) PROVE x \in NodesAt(p, n + 1)
    BY <1>1, <2>1 DEF After, NodesAt, GraphOrdered
  <2>2. ASSUME NEW x \in NodesAt(p, n + 1) PROVE x \in After(p, NodesAt(p, n))
    <3>1. <<"start", x>> \notin Graph[p].edges
      BY <1>1, <1>4, <2>2 DEF GraphOrdered, NodesAt
    <3>2. PICK m \in Nodes(p) : <<m, x>> \in Graph[p].edges
      BY <1>1, <2>2, <3>1 DEF GraphOrdered, NodesAt
    <3>3. m \in NodesAt(p, n)
      BY <1>1, <1>4, <2>2, <3>2 DEF GraphOrdered, NodesAt
    <3> QED
      BY <3>2, <3>3 DEF After
  <2> QED
    BY <2>1, <2>2
<1> QED
  BY <1>2, <1>3, <1>4

LEMMA LastSuperstep ==
    ASSUME NEW p \in Phases, NEW n \in 1..Superstep[p]["gate"]
    PROVE  /\ Superstep[p]["gate"] \in Nat
           /\ "gate" \in NodesAt(p, n) => n = Superstep[p]["gate"]
           /\ n = Superstep[p]["gate"] =>
                 NodesAt(p, n) = {"gate"} /\ NodesBefore(p, n) = Nodes(p) \ {"gate"}
           /\ NodesBefore(p, n + 1) = NodesBefore(p, n) \cup NodesAt(p, n)
           /\ NodesAt(p, n) \cap NodesBefore(p, n) = {}
           /\ NodesAt(p, n) \subseteq Nodes(p) /\ NodesBefore(p, n) \subseteq Nodes(p)
           /\ NodesBefore(p, 1) = {}
           /\ "gate" \in Nodes(p) /\ Writes(p, "gate") = {}
<1>1. GraphOrdered(p)
  BY GraphsFit DEF GraphFits
<1>2. n = Superstep[p]["gate"] =>
         NodesAt(p, n) = {"gate"} /\ NodesBefore(p, n) = Nodes(p) \ {"gate"}
  BY <1>1 DEF GraphOrdered, NodesAt, NodesBefore
<1>3. \A m \in Nodes(p) : Superstep[p][m] \in Nat \ {0}
  BY <1>1 DEF GraphOrdered
<1>4. /\ NodesBefore(p, n + 1) = NodesBefore(p, n) \cup NodesAt(p, n)
      /\ NodesAt(p, n) \cap NodesBefore(p, n) = {}
      /\ NodesBefore(p, 1) = {}
  BY <1>1, <1>3 DEF NodesAt, NodesBefore, GraphOrdered
<1> QED
  BY <1>1, <1>2, <1>4 DEF GraphOrdered, NodesAt, NodesBefore

-----------------------------------------------------------------------------
(* Passes.                                                                   *)

LEMMA PassTypes ==
    /\ NoPass \in Passes /\ NoArtifacts \in [Keys -> Nat]
    /\ NoPass.number = 0 /\ NoPass.frontier = {} /\ NoPass.done = {} /\ NoPass.ran = {}
<1>1. NoArtifacts \in [Keys -> Nat]
  BY DEF NoArtifacts
<1> QED
  BY <1>1 DEF NoPass, Passes, Phases, FirstPhase

LEMMA UpdatedFacts ==
    ASSUME NEW state \in [Keys -> Nat], NEW keys, NEW n \in Nat
    PROVE  /\ Updated(state, keys, n) \in [Keys -> Nat]
           /\ \A k \in Keys :
                 Updated(state, keys, n)[k] = IF k \in keys THEN n ELSE state[k]
BY DEF Updated

LEMMA PassFields ==
    ASSUME NEW s \in Passes
    PROVE  /\ s.number \in Nat /\ s.phase \in Phases /\ s.state \in [Keys -> Nat]
           /\ s.frontier \subseteq AllNodes /\ s.done \subseteq AllNodes
           /\ s.ran \subseteq AllNodes /\ s.failed \in BOOLEAN /\ s.green \in BOOLEAN
BY DEF Passes

(* A superstep that is not over: one more node is through. *)
StaysIn(s, t, n) ==
    /\ t.frontier = s.frontier /\ t.ran = s.ran /\ t.state = s.state
    /\ t.done = s.done \cup {n}

(* One that is: its updates are merged. *)
MovesOn(s, t, n) ==
    /\ s.frontier = s.done \cup {n}
    /\ t.frontier = After(s.phase, s.frontier) /\ t.ran = s.ran \cup s.frontier
    /\ t.done = {} /\ s.frontier # {"gate"}
    /\ t.state = Updated(s.state, WrittenBy(s), s.number)

LEMMA UnsavedKeys == Unsaved \subseteq Keys
<1>1. Unsaved \subseteq Made("build") \cup Made("test_eval")
  BY BuildTables, TestEvalTables DEF Unsaved
<1> QED
  BY <1>1 DEF Keys, Phases

(* A pass goes by one plan: the plan is not made in the phase that has items. *)
LEMMA SamePlan ==
    ASSUME NEW s \in Passes, NEW t \in Passes, t.phase = s.phase,
           s.frontier \subseteq Nodes(s.phase), NEW node \in Nodes(s.phase),
           t.state = s.state \/ t.state = Updated(s.state, WrittenBy(s), s.number)
    PROVE  WritesOf(t, node) = WritesOf(s, node)
<1>1. s.phase \in Phases /\ s.number \in Nat /\ s.state \in [Keys -> Nat]
  BY PassFields
<1>2. CASE s.phase = "build"
  <2>1. WrittenBy(s) \subseteq Made("build")
    BY <1>1, <1>2, WritesAreMade DEF WrittenBy, WritesOf
  <2>2. t.state["design_package"] = s.state["design_package"]
    BY <1>1, <2>1, ItemsOfBuild, UpdatedFacts
  <2> QED
    BY <2>2 DEF WritesOf, Dropped
<1>3. CASE s.phase # "build"
  <2>1. Writes(s.phase, node) \cap OfItems = {}
    BY <1>1, <1>3, ItemsOfBuild, WritesAreMade
  <2> QED
    BY <2>1, ItemsOfBuild DEF WritesOf
<1> QED
  BY <1>2, <1>3

(* What RunNode makes of a pass. *)
LEMMA NodeRun ==
    ASSUME TypeOK, NEW w \in Slots, RunNode(w)
    PROVE  \E n \in slot[w].frontier \ slot[w].done, t \in Passes :
              /\ t.number = slot[w].number /\ t.phase = slot[w].phase
              /\ StaysIn(slot[w], t, n) \/ MovesOn(slot[w], t, n)
              /\ slot' = [slot EXCEPT ![w] = t]
              /\ store' = Updated(store, Saves(slot[w].phase, n), slot[w].number)
              /\ UNCHANGED <<mode, phase, owner, passes, carried, accepted, lost, late>>
<1>1. PICK s \in Passes : s = slot[w]
  BY DEF TypeOK
<1> DEFINE Through(n, green) == [s EXCEPT !.done = @ \cup {n},
                                          !.green = green,
                                          !.failed = @ \/ (n \in TestAgents /\ ~green)]
<1>2. PICK n \in s.frontier \ s.done, green \in BOOLEAN :
        /\ store' = Updated(store, Saves(s.phase, n), s.number)
        /\ slot' = [slot EXCEPT ![w] = IF Through(n, green).done = s.frontier
                                       THEN Merged(Through(n, green)) ELSE Through(n, green)]
        /\ UNCHANGED <<mode, phase, owner, passes, carried, accepted, lost, late>>
  BY <1>1, PassFields DEF RunNode
<1>3. PICK u \in Passes :
        /\ u = Through(n, green) /\ u.number = s.number /\ u.phase = s.phase
        /\ u.frontier = s.frontier /\ u.ran = s.ran /\ u.state = s.state
        /\ u.done = s.done \cup {n}
  <2>1. s.done \cup {n} \subseteq AllNodes
    BY <1>1, <1>2, PassFields
  <2>2. (s.failed \/ (n \in TestAgents /\ ~green)) \in BOOLEAN
    BY <1>1, PassFields
  <2>3. Through(n, green) \in Passes
    BY <1>1, <2>1, <2>2 DEF Passes
  <2>4. /\ Through(n, green).number = s.number /\ Through(n, green).phase = s.phase
        /\ Through(n, green).frontier = s.frontier /\ Through(n, green).ran = s.ran
        /\ Through(n, green).state = s.state /\ Through(n, green).done = s.done \cup {n}
    BY <1>1 DEF Passes
  <2> QED
    BY <2>3, <2>4
<1>4. slot' = [slot EXCEPT ![w] = IF u.done = s.frontier THEN Merged(u) ELSE u]
  BY <1>2, <1>3
<1> HIDE DEF Through
<1>5. CASE u.done = s.frontier /\ s.frontier # {"gate"}
  <2>1. PICK v : v = Merged(u)
    OBVIOUS
  <2>2. v = [u EXCEPT !.state = Updated(@, WrittenBy(u), u.number),
                      !.frontier = After(u.phase, u.frontier),
                      !.done = {},
                      !.ran = @ \cup u.frontier]
    BY <1>3, <1>5, <2>1 DEF Merged
  <2>3. After(u.phase, u.frontier) \subseteq AllNodes
    <3>1. GraphOrdered(u.phase) /\ u.phase \in Phases
      BY <1>3, PassFields, GraphsFit DEF GraphFits
    <3> QED
      BY <3>1 DEF After, GraphOrdered, AllNodes
  <2>4. Updated(u.state, WrittenBy(u), u.number) \in [Keys -> Nat]
    BY <1>3, PassFields, UpdatedFacts
  <2>5. /\ v \in Passes /\ v.number = u.number /\ v.phase = u.phase
        /\ v.frontier = After(u.phase, u.frontier) /\ v.ran = u.ran \cup u.frontier
        /\ v.done = {} /\ v.state = Updated(u.state, WrittenBy(u), u.number)
    BY <1>3, <2>2, <2>3, <2>4 DEF Passes
  <2>6. WrittenBy(u) = WrittenBy(s)
    BY <1>3 DEF WrittenBy, WritesOf, Dropped
  <2>7. MovesOn(s, v, n)
    BY <1>3, <1>5, <2>5, <2>6 DEF MovesOn
  <2>8. slot' = [slot EXCEPT ![w] = v]
    BY <1>4, <1>5, <2>1
  <2> QED
    BY <1>1, <1>2, <1>3, <2>5, <2>7, <2>8
<1>6. CASE ~(u.done = s.frontier /\ s.frontier # {"gate"})
  <2>1. slot' = [slot EXCEPT ![w] = u]
    BY <1>3, <1>4, <1>6 DEF Merged
  <2>2. StaysIn(s, u, n)
    BY <1>3 DEF StaysIn
  <2> QED
    BY <1>1, <1>2, <1>3, <2>1, <2>2
<1> QED
  BY <1>5, <1>6

(* A pass that fits fits after a node has run. *)
LEMMA NodeFits ==
    ASSUME NEW s \in Passes, NEW t \in Passes, PassFits(s), NEW n \in s.frontier \ s.done,
           t.number = s.number, t.phase = s.phase, StaysIn(s, t, n) \/ MovesOn(s, t, n)
    PROVE  /\ PassFits(t) /\ s # NoPass /\ t # NoPass
           /\ n \in Nodes(s.phase)
           /\ t.ran \cup t.done = s.ran \cup s.done \cup {n}
<1>1. /\ s # NoPass /\ s.number # 0 /\ t # NoPass /\ s.phase \in Phases
      /\ s.done \subseteq s.frontier /\ s.number \in Nat
      /\ \A node \in s.ran : \A k \in WritesOf(s, node) : s.state[k] = s.number
  BY PassTypes, PassFields DEF PassFits
<1>2. PICK m \in 1..Superstep[s.phase]["gate"] :
        s.frontier = NodesAt(s.phase, m) /\ s.ran = NodesBefore(s.phase, m)
  BY <1>1 DEF PassFits
<1>3. /\ n \in Nodes(s.phase) /\ s.frontier \subseteq Nodes(s.phase)
      /\ s.ran \subseteq Nodes(s.phase)
  BY <1>1, <1>2, LastSuperstep
<1>4. CASE StaysIn(s, t, n)
  <2>1. \A node \in t.ran : \A k \in WritesOf(t, node) : t.state[k] = t.number
    BY <1>1, <1>3, <1>4, SamePlan DEF StaysIn
  <2> QED
    BY <1>1, <1>2, <1>3, <1>4, <2>1 DEF StaysIn, PassFits
<1>5. CASE MovesOn(s, t, n)
  <2>1. m # Superstep[s.phase]["gate"]
    BY <1>1, <1>2, <1>5, LastSuperstep DEF MovesOn
  <2>2. m \in Nat \ {0} /\ m + 1 \in 1..Superstep[s.phase]["gate"]
    BY <1>1, <2>1, LastSuperstep
  <2>3. t.frontier = NodesAt(t.phase, m + 1)
    BY <1>1, <1>2, <1>5, <2>2, NextSuperstep DEF MovesOn
  <2>4. t.ran = NodesBefore(t.phase, m + 1)
    <3>1. NodesBefore(s.phase, m + 1) = NodesBefore(s.phase, m) \cup NodesAt(s.phase, m)
      BY <1>1, <1>2, LastSuperstep
    <3> QED
      BY <1>2, <1>5, <3>1 DEF MovesOn
  <2>5. ASSUME NEW node \in t.ran, NEW k \in WritesOf(t, node) PROVE t.state[k] = t.number
    <3>1. node \in Nodes(s.phase) /\ k \in WritesOf(s, node)
      <4>1. node \in Nodes(s.phase)
        BY <1>1, <1>2, <1>3, <1>5, <2>5, LastSuperstep DEF MovesOn
      <4> QED
        BY <1>3, <1>5, <2>5, <4>1, SamePlan DEF MovesOn
    <3>2. k \in Keys
      BY <1>1, <3>1, WritesAreMade DEF WritesOf
    <3>3. t.state[k] = IF k \in WrittenBy(s) THEN s.number ELSE s.state[k]
      BY <1>1, <1>5, <3>2, UpdatedFacts, PassFields DEF MovesOn
    <3>4. CASE node \in s.frontier
      BY <3>1, <3>3, <3>4 DEF WrittenBy
    <3>5. CASE node \in s.ran
      BY <1>1, <3>1, <3>3, <3>5
    <3> QED
      BY <1>5, <2>5, <3>4, <3>5 DEF MovesOn
  <2>6. PassFits(t)
    BY <1>1, <1>5, <2>2, <2>3, <2>4, <2>5 DEF PassFits, MovesOn
  <2> QED
    BY <1>1, <1>3, <1>5, <2>6 DEF MovesOn
<1> QED
  BY <1>4, <1>5

-----------------------------------------------------------------------------
(* The steps.                                                                *)

LEMMA SlotFacts ==
    ASSUME TypeOK, IInv, NEW w \in Slots
    PROVE  /\ slot[w] \in Passes /\ PassFits(slot[w])
           /\ slot[w].number = 0 <=> slot[w] = NoPass
           /\ slot[w].frontier # {} => slot[w] # NoPass
           /\ slot[w].ran \cup slot[w].done \subseteq Nodes(slot[w].phase)
<1>1. PICK s \in Passes : s = slot[w] /\ PassFits(s)
  BY DEF TypeOK, IInv
<1>2. s.number = 0 <=> s = NoPass
  BY <1>1, PassTypes DEF PassFits
<1>3. s.frontier # {} => s # NoPass
  BY PassTypes
<1>4. s.ran \cup s.done \subseteq Nodes(s.phase)
  <2>1. CASE s = NoPass
    BY <2>1, PassTypes
  <2>2. CASE s # NoPass
    <3>1. PICK n \in 1..Superstep[s.phase]["gate"] :
            /\ s.frontier = NodesAt(s.phase, n) /\ s.ran = NodesBefore(s.phase, n)
            /\ s.done \subseteq s.frontier
      BY <1>1, <2>2 DEF PassFits
    <3> QED
      BY <3>1, PassFields, LastSuperstep
  <2> QED
    BY <2>1, <2>2
<1> QED
  BY <1>1, <1>2, <1>3, <1>4

(* A pass at its gate has run all other nodes. *)
LEMMA AtGate ==
    ASSUME NEW s \in Passes, PassFits(s), "gate" \in s.frontier
    PROVE  /\ s # NoPass /\ s.phase \in Phases
           /\ s.frontier = {"gate"} /\ s.ran = Nodes(s.phase) \ {"gate"}
           /\ "gate" \in Nodes(s.phase) /\ Writes(s.phase, "gate") = {}
<1>1. s # NoPass /\ s.phase \in Phases
  BY PassTypes, PassFields
<1>2. PICK n \in 1..Superstep[s.phase]["gate"] :
        s.frontier = NodesAt(s.phase, n) /\ s.ran = NodesBefore(s.phase, n)
  BY <1>1 DEF PassFits
<1> QED
  BY <1>1, <1>2, LastSuperstep

(* What one phase saves is not what another one makes. *)
LEMMA OtherPhases ==
    ASSUME NEW p \in Phases, NEW q \in Phases \ {p}, NEW k \in Made(q) \cap OfOnePhase,
           NEW n \in Nodes(p)
    PROVE  k \in Keys /\ k \notin Writes(p, n) /\ k \notin Saves(p, n)
<1>1. k \notin Made(p) /\ k \in Keys
  BY DEF OfOnePhase
<1> QED
  BY <1>1, WritesAreMade DEF Saves

(* Taking more passes for late only lets more be written over. *)
LEMMA LateGrows ==
    ASSUME NEW p \in Phases, late[p] \subseteq late'[p], NEW n
    PROVE  \A x \in OrLate(n, p) : x \in {n} \cup late'[p]
BY DEF OrLate

LEMMA GraphsInit == Init => TypeOK /\ IInv
<1> SUFFICES ASSUME Init PROVE TypeOK /\ IInv
  OBVIOUS
<1>1. TypeOK
  <2>1. slot \in [Slots -> Passes] /\ {carried, store} \subseteq [Keys -> Nat]
    BY PassTypes DEF Init
  <2>2. phase \in Phases /\ owner = NoSlot /\ mode \in {"local", "distributed"}
    BY DEF Init, Phases, FirstPhase
  <2>3. passes \in 0..MaxPasses /\ lost \in 0..MaxLost /\ accepted \in [Phases -> Nat]
    BY GraphsAssumption DEF Init
  <2>4. late \in [Phases -> SUBSET Nat]
    BY DEF Init
  <2> QED
    BY <2>1, <2>2, <2>3, <2>4 DEF TypeOK
<1>2. \A w \in Slots : slot[w] = NoPass
  BY DEF Init
<1>3. OwnerFits
  BY <1>2 DEF Init, OwnerFits
<1>4. \A p \in Phases : \A k \in Made(p) :
        k \in Keys /\ store[k] = accepted[p] /\ carried[k] = accepted[p]
  BY WritesAreMade DEF Init, NoArtifacts
<1>5. StoreFits
  BY <1>4 DEF Init, StoreFits, OrLate
<1>6. StateFits
  BY <1>4 DEF Init, StateFits
<1>7. UnsavedFits
  <2>1. Unsaved \subseteq Keys
    BY UnsavedKeys
  <2> QED
    BY <1>2, <2>1 DEF Init, UnsavedFits, NoArtifacts, NoPass
<1> QED
  BY <1>1, <1>2, <1>3, <1>5, <1>6, <1>7 DEF IInv, PassFits

LEMMA BeginKeeps ==
    ASSUME TypeOK, IInv, NEW w \in Slots, Begin(w)
    PROVE  TypeOK' /\ IInv'
<1>1. PICK b : b = [NoPass EXCEPT !.number = passes + 1, !.phase = phase,
                                  !.frontier = After(phase, {"start"}), !.state = Loaded]
  OBVIOUS
<1>2. /\ phase \in Phases /\ owner = NoSlot /\ passes' = passes + 1 /\ passes < MaxPasses
      /\ owner' = w /\ slot' = [slot EXCEPT ![w] = b]
      /\ UNCHANGED <<mode, phase, carried, store, accepted, lost, late>>
  BY <1>1 DEF Begin, TypeOK
<1>3. passes \in Nat /\ Loaded \in [Keys -> Nat]
  BY DEF TypeOK, Loaded
<1>4. After(phase, {"start"}) = NodesAt(phase, 1) /\ NodesAt(phase, 1) \subseteq AllNodes
  BY <1>2, NextSuperstep, WritesAreMade DEF NodesAt
<1>5. /\ b \in Passes /\ b.number = passes + 1 /\ b.phase = phase /\ b.state = Loaded
      /\ b.frontier = NodesAt(phase, 1) /\ b.done = {} /\ b.ran = {}
  <2>1. passes + 1 \in Nat /\ NodesAt(phase, 1) \in SUBSET AllNodes
    BY <1>3, <1>4
  <2>2. b = [NoPass EXCEPT !.number = passes + 1, !.phase = phase,
                           !.frontier = NodesAt(phase, 1), !.state = Loaded]
    BY <1>1, <1>4
  <2>3. /\ b.number = passes + 1 /\ b.phase = phase /\ b.state = Loaded
        /\ b.frontier = NodesAt(phase, 1) /\ b.done = {} /\ b.ran = {}
    BY <2>2 DEF NoPass
  <2>4. b \in Passes
    BY <1>2, <1>3, <2>1, <2>2, PassTypes DEF Passes
  <2> QED
    BY <2>3, <2>4
<1>6. b # NoPass /\ PassFits(b)
  <2>1. 1 \in 1..Superstep[phase]["gate"]
    BY <1>2, GraphsFit DEF GraphFits, GraphOrdered
  <2>2. NodesBefore(phase, 1) = {}
    BY <1>2, <2>1, LastSuperstep
  <2> QED
    BY <1>3, <1>5, <2>1, <2>2, PassTypes DEF PassFits
<1>7. TypeOK'
  BY <1>2, <1>3, <1>5, GraphsAssumption DEF TypeOK
<1>8. slot'[w] = b /\ \A v \in Slots : v # w => slot'[v] = slot[v]
  BY <1>2 DEF TypeOK
<1>9. OwnerFits'
  BY <1>2, <1>5, <1>6, <1>8, GraphsAssumption DEF IInv, OwnerFits
<1>10. StoreFits'
  BY <1>2, <1>5, <1>8 DEF IInv, StoreFits, OrLate
<1>11. StateFits'
  <2>1. ASSUME NEW p \in Phases \ {phase}, NEW k \in Made(p) \cap OfOnePhase,
               k \notin Unsaved \/ mode = "local"
        PROVE  b.state[k] \in OrLate(accepted[p], p)
    <3>1. CASE mode = "local"
      BY <1>5, <2>1, <3>1 DEF Loaded, IInv, StateFits, OrLate
    <3>2. CASE mode # "local"
      BY <1>5, <2>1, <3>2 DEF Loaded, IInv, StoreFits
    <3> QED
      BY <3>1, <3>2
  <2>2. \A p \in Phases \ {phase} : \A k \in Made(p) \cap OfOnePhase :
           k \notin Unsaved \/ mode = "local" => b.state[k] \in OrLate(accepted[p], p)
    BY <2>1
  <2> QED
    BY <1>2, <1>8, <2>2 DEF IInv, StateFits, OrLate
<1>12. UnsavedFits'
  BY <1>2, <1>5, <1>8 DEF IInv, UnsavedFits, Loaded
<1> QED
  BY <1>6, <1>7, <1>8, <1>9, <1>10, <1>11, <1>12 DEF IInv

LEMMA RunNodeKeeps ==
    ASSUME TypeOK, IInv, NEW w \in Slots, RunNode(w)
    PROVE  TypeOK' /\ IInv'
<1>1. PICK s \in Passes : s = slot[w] /\ PassFits(s)
  BY SlotFacts
<1>2. PICK n \in s.frontier \ s.done, t \in Passes :
        /\ t.number = s.number /\ t.phase = s.phase
        /\ StaysIn(s, t, n) \/ MovesOn(s, t, n)
        /\ slot' = [slot EXCEPT ![w] = t]
        /\ store' = Updated(store, Saves(s.phase, n), s.number)
        /\ UNCHANGED <<mode, phase, owner, passes, carried, accepted, lost, late>>
  BY <1>1, NodeRun
<1>3. /\ PassFits(t) /\ s # NoPass /\ t # NoPass /\ n \in Nodes(s.phase)
      /\ t.ran \cup t.done = s.ran \cup s.done \cup {n}
  BY <1>1, <1>2, NodeFits
<1>4. slot'[w] = t /\ \A v \in Slots : v # w => slot'[v] = slot[v]
  BY <1>2 DEF TypeOK
<1>5. s.number \in Nat /\ s.phase \in Phases /\ s.state \in [Keys -> Nat]
  BY PassFields
<1>6. /\ store' \in [Keys -> Nat]
      /\ \A k \in Keys : store'[k] = IF k \in Saves(s.phase, n) THEN s.number ELSE store[k]
  BY <1>2, <1>5, UpdatedFacts DEF TypeOK
<1>7. TypeOK'
  BY <1>2, <1>6 DEF TypeOK
<1>8. OwnerFits'
  BY <1>1, <1>2, <1>3, <1>4 DEF IInv, OwnerFits
<1>9. IF w = owner THEN s.phase = phase /\ owner # NoSlot ELSE s.number \in late[s.phase]
  <2>1. owner # NoSlot \/ w # owner
    BY GraphsAssumption
  <2> QED
    BY <1>1, <1>3, <2>1 DEF IInv, OwnerFits
<1>10. StoreFits'
  <2>1. ASSUME NEW p \in Phases \ {phase}, NEW k \in (Made(p) \cap OfOnePhase) \ Unsaved
        PROVE  store'[k] \in OrLate(accepted[p], p)
    <3>1. k \in Keys /\ store[k] \in OrLate(accepted[p], p)
      BY <2>1 DEF IInv, StoreFits, OfOnePhase
    <3>2. CASE k \in Saves(s.phase, n)
      <4>1. s.phase = p
        BY <1>3, <1>5, <2>1, <3>2, OtherPhases
      <4>2. s.number \in late[p]
        BY <1>9, <2>1, <4>1
      <4> QED
        BY <1>6, <3>1, <3>2, <4>2 DEF OrLate
    <3>3. CASE k \notin Saves(s.phase, n)
      BY <1>6, <3>1, <3>3
    <3> QED
      BY <3>2, <3>3
  <2>2. ASSUME owner # NoSlot, NEW node \in slot'[owner].ran \cup slot'[owner].done,
               NEW k \in Saves(phase, node) \cap OfOnePhase
        PROVE  store'[k] \in OrLate(slot[owner].number, phase)
    <3>1. owner \in Slots /\ slot[owner].phase = phase /\ phase \in Phases
      <4>1. owner \in Slots
        BY <2>2 DEF TypeOK
      <4>2. PICK o \in Passes : o = slot[owner]
        BY <4>1 DEF TypeOK
      <4> QED
        BY <2>2, <4>1, <4>2, PassFields DEF IInv, OwnerFits
    <3>2. CASE w = owner
      <4>1. node \in s.ran \cup s.done \cup {n} /\ k \in Keys
        BY <1>3, <1>4, <2>2, <3>2 DEF OfOnePhase
      <4>2. CASE node = n
        BY <1>1, <1>6, <2>2, <3>1, <3>2, <4>1, <4>2 DEF OrLate
      <4>3. CASE node \in s.ran \cup s.done
        <5>1. store[k] \in OrLate(s.number, phase)
          BY <1>1, <2>2, <3>2, <4>3 DEF IInv, StoreFits
        <5> QED
          BY <1>1, <1>6, <3>2, <4>1, <5>1 DEF OrLate
      <4> QED
        BY <4>1, <4>2, <4>3
    <3>3. CASE w # owner
      <4>1. slot'[owner] = slot[owner] /\ s.number \in late[s.phase]
        BY <1>4, <1>9, <3>1, <3>3
      <4>2. store[k] \in OrLate(slot[owner].number, phase) /\ k \in Keys
        BY <2>2, <4>1 DEF IInv, StoreFits, OfOnePhase
      <4>3. node \in Nodes(phase)
        BY <2>2, <3>1, <4>1, SlotFacts
      <4>4. CASE k \in Saves(s.phase, n)
        <5>1. k \in Made(phase)
          BY <2>2, <3>1, <4>3, WritesAreMade DEF Saves
        <5>2. s.phase = phase
          BY <1>3, <1>5, <2>2, <3>1, <4>4, <5>1, OtherPhases
        <5> QED
          BY <1>6, <4>1, <4>2, <4>4, <5>2 DEF OrLate
      <4>5. CASE k \notin Saves(s.phase, n)
        BY <1>6, <4>2, <4>5
      <4> QED
        BY <4>4, <4>5
    <3> QED
      BY <3>2, <3>3
  <2>3. owner # NoSlot => slot'[owner].number = slot[owner].number
    BY <1>1, <1>2, <1>4 DEF TypeOK
  <2> QED
    BY <1>2, <2>1, <2>2, <2>3 DEF StoreFits, OrLate
<1>11. StateFits'
  <2>1. ASSUME w = owner, NEW p \in Phases \ {phase}, NEW k \in Made(p) \cap OfOnePhase,
               k \notin Unsaved \/ mode = "local"
        PROVE  t.state[k] \in OrLate(accepted[p], p)
    <3>0. s.phase = phase /\ owner # NoSlot
      BY <1>9, <2>1
    <3>1. s.state[k] \in OrLate(accepted[p], p)
      BY <1>1, <2>1, <3>0 DEF IInv, StateFits
    <3>2. CASE StaysIn(s, t, n)
      BY <3>1, <3>2 DEF StaysIn
    <3>3. CASE MovesOn(s, t, n)
      <4>1. k \in Keys
        BY <2>1 DEF OfOnePhase
      <4>2. s.frontier \subseteq Nodes(s.phase)
        <5>1. s.frontier = s.done \cup {n} /\ s.done \subseteq Nodes(s.phase)
          BY <1>1, <3>3, SlotFacts DEF MovesOn
        <5> QED
          BY <1>3, <5>1
      <4>3. k \notin WrittenBy(s)
        BY <1>5, <2>1, <3>0, <4>2, OtherPhases DEF WrittenBy, WritesOf
      <4> QED
        BY <1>5, <3>1, <3>3, <4>1, <4>3, UpdatedFacts DEF MovesOn
    <3> QED
      BY <1>2, <3>2, <3>3
  <2>2. owner # NoSlot =>
           \A p \in Phases \ {phase} : \A k \in Made(p) \cap OfOnePhase :
              k \notin Unsaved \/ mode = "local" =>
                 slot'[owner].state[k] \in OrLate(accepted[p], p)
    <3>1. CASE w = owner
      BY <1>4, <2>1, <3>1
    <3>2. CASE w # owner
      BY <1>4, <3>2 DEF IInv, StateFits, TypeOK
    <3> QED
      BY <3>1, <3>2
  <2> QED
    BY <1>2, <2>2 DEF IInv, StateFits, OrLate
<1>12. UnsavedFits'
  <2>1. ASSUME NEW k \in Unsaved PROVE store'[k] = 0
    BY <1>6, <2>1, UnsavedKeys DEF IInv, UnsavedFits, Saves
  <2>2. ASSUME mode # "local", NEW k \in Unsaved PROVE t.state[k] \in {0, t.number}
    <3>1. s.state[k] \in {0, s.number} /\ k \in Keys
      BY <1>1, <2>2, UnsavedKeys DEF IInv, UnsavedFits
    <3>2. CASE StaysIn(s, t, n)
      BY <1>2, <3>1, <3>2 DEF StaysIn
    <3>3. CASE MovesOn(s, t, n)
      BY <1>2, <1>5, <3>1, <3>3, UpdatedFacts DEF MovesOn
    <3> QED
      BY <1>2, <3>2, <3>3
  <2> QED
    BY <1>2, <1>4, <2>1, <2>2 DEF IInv, UnsavedFits
<1>13. \A v \in Slots : PassFits(slot'[v])
  BY <1>3, <1>4, SlotFacts
<1> QED
  BY <1>7, <1>8, <1>10, <1>11, <1>12, <1>13 DEF IInv

LEMMA AcceptKeeps ==
    ASSUME TypeOK, IInv, NEW w \in Slots, Accept(w)
    PROVE  TypeOK' /\ IInv'
<1>1. PICK s \in Passes : s = slot[w] /\ PassFits(s)
  BY SlotFacts
<1>2. /\ owner = w /\ s.frontier = {"gate"} /\ owner' = NoSlot /\ carried' = s.state
      /\ accepted' = [accepted EXCEPT ![phase] = s.number]
      /\ phase' \in Routes(phase)
      /\ slot' = [slot EXCEPT ![w] = NoPass]
      /\ UNCHANGED <<mode, passes, store, lost, late>>
  BY <1>1 DEF Accept
<1>3. owner # NoSlot /\ s.phase = phase /\ phase \in Phases
  BY <1>1, <1>2, GraphsAssumption, PassFields DEF IInv, OwnerFits
<1>4. s.ran = Nodes(phase) \ {"gate"} /\ Writes(phase, "gate") = {}
  BY <1>1, <1>2, <1>3, AtGate
<1>5. s.number \in Nat /\ s.state \in [Keys -> Nat]
  BY PassFields
<1>6. phase' \in Phases \cup {"end"}
  BY <1>2, <1>3 DEF Routes, NextPhase, TriageTargets, Phases
<1>7. TypeOK'
  BY <1>2, <1>3, <1>5, <1>6, PassTypes DEF TypeOK
<1>8. slot'[w] = NoPass /\ \A v \in Slots : v # w => slot'[v] = slot[v]
  BY <1>2 DEF TypeOK
<1>9. OwnerFits'
  BY <1>2, <1>8 DEF IInv, OwnerFits
<1>10. /\ accepted'[phase] = s.number
       /\ \A p \in Phases \ {phase} : accepted'[p] = accepted[p]
  BY <1>2, <1>3 DEF TypeOK
<1>11. ASSUME NEW k \in Made(phase) \cap OfOnePhase
       PROVE  /\ s.state[k] = s.number
              /\ k \notin Unsaved => store[k] \in OrLate(s.number, phase)
  <2>1. PICK node \in Nodes(phase) : k \in Writes(phase, node)
    BY <1>3, <1>11, WritesAreMade
  <2>2. node \in s.ran
    BY <1>4, <2>1
  <2>3. s.state[k] = s.number
    <3>1. k \in WritesOf(s, node)
      BY <1>3, <1>11, <2>1, ItemsOfBuild DEF WritesOf, OfOnePhase
    <3> QED
      BY <1>1, <1>2, <2>2, <3>1, PassTypes DEF PassFits
  <2>4. k \notin Unsaved => store[k] \in OrLate(s.number, phase)
    BY <1>1, <1>2, <1>3, <1>11, <2>1, <2>2 DEF IInv, StoreFits, Saves
  <2> QED
    BY <2>3, <2>4
<1>12. StoreFits'
  <2>1. ASSUME NEW p \in Phases, NEW k \in (Made(p) \cap OfOnePhase) \ Unsaved
        PROVE  store[k] \in OrLate(accepted'[p], p)
    <3>1. CASE p = phase
      BY <1>10, <1>11, <2>1, <3>1
    <3>2. CASE p # phase
      BY <1>10, <2>1, <3>2 DEF IInv, StoreFits
    <3> QED
      BY <3>1, <3>2
  <2> QED
    BY <1>2, <2>1 DEF StoreFits, OrLate
<1>13. StateFits'
  <2>1. ASSUME mode = "local", NEW p \in Phases, NEW k \in Made(p) \cap OfOnePhase
        PROVE  s.state[k] = accepted'[p]
    <3>1. CASE p = phase
      BY <1>10, <1>11, <2>1, <3>1
    <3>2. CASE p # phase
      BY <1>1, <1>2, <1>3, <1>10, <2>1, <3>2 DEF IInv, StateFits, OwnerFits, OrLate
    <3> QED
      BY <3>1, <3>2
  <2> QED
    BY <1>2, <2>1 DEF StateFits
<1>14. \A v \in Slots : PassFits(slot'[v])
  BY <1>8, SlotFacts DEF PassFits
<1>15. UnsavedFits'
  BY <1>2, <1>8, UnsavedKeys DEF IInv, UnsavedFits, NoPass, NoArtifacts
<1> QED
  BY <1>7, <1>9, <1>12, <1>13, <1>14, <1>15 DEF IInv

LEMMA LoseKeeps ==
    ASSUME TypeOK, IInv, NEW w \in Slots, Lose(w)
    PROVE  TypeOK' /\ IInv'
<1>1. PICK s \in Passes : s = slot[w] /\ PassFits(s)
  BY SlotFacts
<1>2. /\ s # NoPass /\ lost' = lost + 1 /\ lost < MaxLost /\ lost \in Nat
      /\ UNCHANGED <<mode, phase, passes, carried, store, accepted, late>>
  BY <1>1, SlotFacts DEF Lose, TypeOK
<1>3. lost' \in 0..MaxLost
  BY <1>2, GraphsAssumption
<1>4. CASE mode = "local"
  <2>1. PICK kept \in SUBSET s.done : slot' = [slot EXCEPT ![w].done = kept]
    BY <1>1, <1>4 DEF Lose
  <2>2. PICK t : t = [s EXCEPT !.done = kept]
    OBVIOUS
  <2>3. slot' = [slot EXCEPT ![w] = t] /\ owner' = owner
    BY <1>1, <1>4, <2>1, <2>2 DEF Lose
  <2>4. /\ t \in Passes /\ t.number = s.number /\ t.phase = s.phase /\ t.state = s.state
        /\ t.frontier = s.frontier /\ t.ran = s.ran /\ t.done = kept
    BY <2>1, <2>2 DEF Passes
  <2>5. slot'[w] = t /\ \A v \in Slots : v # w => slot'[v] = slot[v]
    BY <2>3 DEF TypeOK
  <2>6. t # NoPass /\ PassFits(t)
    <3>1. s.number # 0
      BY <1>1, <1>2, SlotFacts
    <3> QED
      BY <1>1, <1>2, <2>1, <2>4, <3>1, PassTypes DEF PassFits, WritesOf, Dropped
  <2>7. TypeOK'
    BY <1>2, <1>3, <2>3, <2>4 DEF TypeOK
  <2>8. owner = w /\ owner # NoSlot
    <3>1. late[s.phase] = {}
      BY <1>4, PassFields DEF IInv, OwnerFits
    <3>2. owner = w
      BY <1>1, <1>2, <3>1 DEF IInv, OwnerFits
    <3> QED
      BY <3>2, GraphsAssumption
  <2>9. OwnerFits'
    BY <1>1, <1>2, <2>3, <2>4, <2>5, <2>6, <2>8 DEF IInv, OwnerFits
  <2>10. StoreFits'
    BY <1>1, <1>2, <2>1, <2>3, <2>4, <2>5, <2>8 DEF IInv, StoreFits, OrLate
  <2>11. StateFits'
    BY <1>1, <1>2, <2>3, <2>4, <2>5, <2>8 DEF IInv, StateFits, OrLate
  <2>12. \A v \in Slots : PassFits(slot'[v])
    BY <2>5, <2>6, SlotFacts
  <2>13. UnsavedFits'
    BY <1>2, <1>4 DEF IInv, UnsavedFits
  <2> QED
    BY <2>7, <2>9, <2>10, <2>11, <2>12, <2>13 DEF IInv
<1>5. CASE mode # "local"
  <2>1. /\ slot' = [slot EXCEPT ![w] = NoPass]
        /\ owner' = IF owner = w THEN NoSlot ELSE owner
    BY <1>5 DEF Lose
  <2>2. slot'[w] = NoPass /\ \A v \in Slots : v # w => slot'[v] = slot[v]
    BY <2>1 DEF TypeOK
  <2>3. TypeOK'
    BY <1>2, <1>3, <2>1, PassTypes DEF TypeOK
  <2>4. OwnerFits'
    BY <1>1, <1>2, <1>5, <2>1, <2>2, GraphsAssumption DEF IInv, OwnerFits, TypeOK
  <2>5. owner' # NoSlot => owner' = owner /\ owner \in Slots /\ slot'[owner] = slot[owner]
    BY <2>1, <2>2 DEF TypeOK
  <2>6. StoreFits' /\ StateFits'
    BY <1>2, <2>5 DEF IInv, StoreFits, StateFits, OrLate
  <2>7. UnsavedFits'
    BY <1>2, <2>2, UnsavedKeys DEF IInv, UnsavedFits, NoPass, NoArtifacts
  <2>8. \A v \in Slots : PassFits(slot'[v])
    BY <2>2, SlotFacts DEF PassFits
  <2> QED
    BY <2>3, <2>4, <2>6, <2>7, <2>8 DEF IInv
<1> QED
  BY <1>4, <1>5

LEMMA GiveUpKeeps ==
    ASSUME TypeOK, IInv, NEW w \in Slots, GiveUp(w)
    PROVE  TypeOK' /\ IInv'
<1>1. /\ mode # "local" /\ lost < MaxLost /\ lost' = lost + 1
      /\ late' = [late EXCEPT ![phase] = @ \cup {slot[w].number}]
      /\ owner = w /\ owner' = NoSlot
      /\ UNCHANGED <<mode, phase, passes, slot, carried, store, accepted>>
  BY DEF GiveUp
<1>2. PICK s \in Passes : s = slot[w] /\ s.number \in Nat /\ s.phase \in Phases
  BY PassFields DEF TypeOK
<1>3. s.phase = phase /\ phase \in Phases
  BY <1>1, <1>2, GraphsAssumption DEF IInv, OwnerFits
<1>4. /\ late' \in [Phases -> SUBSET Nat]
      /\ \A p \in Phases : late[p] \subseteq late'[p]
      /\ s.number \in late'[phase]
  BY <1>1, <1>2, <1>3 DEF TypeOK
<1>5. TypeOK'
  BY <1>1, <1>4, GraphsAssumption DEF TypeOK
<1>6. OwnerFits'
  <2>1. ASSUME NEW v \in Slots, slot[v] # NoPass PROVE slot[v].number \in late'[slot[v].phase]
    <3>1. CASE v = w
      BY <1>2, <1>3, <1>4, <3>1
    <3>2. CASE v # w
      <4>1. PICK u \in Passes : u = slot[v] /\ u.phase \in Phases
        BY PassFields DEF TypeOK
      <4>2. u.number \in late[u.phase]
        BY <1>1, <2>1, <3>2, <4>1 DEF IInv, OwnerFits
      <4> QED
        BY <1>4, <4>1, <4>2
    <3> QED
      BY <3>1, <3>2
  <2> QED
    BY <1>1, <2>1 DEF OwnerFits
<1>7. StoreFits'
  <2>1. ASSUME NEW p \in Phases \ {phase}, NEW k \in (Made(p) \cap OfOnePhase) \ Unsaved
        PROVE  store[k] \in {accepted[p]} \cup late'[p]
    BY <1>4, <2>1, LateGrows DEF IInv, StoreFits
  <2> QED
    BY <1>1, <2>1 DEF StoreFits, OrLate
<1>8. StateFits' /\ UnsavedFits'
  BY <1>1 DEF IInv, StateFits, UnsavedFits
<1> QED
  BY <1>1, <1>5, <1>6, <1>7, <1>8 DEF IInv

LEMMA DiscardKeeps ==
    ASSUME TypeOK, IInv, NEW w \in Slots, Discard(w)
    PROVE  TypeOK' /\ IInv'
<1>1. /\ owner # w /\ slot' = [slot EXCEPT ![w] = NoPass]
      /\ UNCHANGED <<mode, phase, owner, passes, carried, store, accepted, lost, late>>
  BY DEF Discard
<1>2. slot'[w] = NoPass /\ \A v \in Slots : v # w => slot'[v] = slot[v]
  BY <1>1 DEF TypeOK
<1>3. TypeOK'
  BY <1>1, PassTypes DEF TypeOK
<1>4. owner # NoSlot => slot'[owner] = slot[owner]
  BY <1>1, <1>2 DEF TypeOK
<1>5. OwnerFits' /\ StoreFits' /\ StateFits' /\ UnsavedFits'
  <2>1. OwnerFits'
    BY <1>1, <1>2, <1>4 DEF IInv, OwnerFits
  <2>2. StoreFits' /\ StateFits'
    BY <1>1, <1>4 DEF IInv, StoreFits, StateFits, OrLate
  <2>3. UnsavedFits'
    BY <1>1, <1>2, UnsavedKeys DEF IInv, UnsavedFits, NoPass, NoArtifacts
  <2> QED
    BY <2>1, <2>2, <2>3
<1>6. \A v \in Slots : PassFits(slot'[v])
  BY <1>2, SlotFacts DEF PassFits
<1> QED
  BY <1>3, <1>5, <1>6 DEF IInv

LEMMA GraphsNext == TypeOK /\ IInv /\ [Next]_vars => TypeOK' /\ IInv'
<1> SUFFICES ASSUME TypeOK, IInv, [Next]_vars PROVE TypeOK' /\ IInv'
  OBVIOUS
<1>1. CASE Next
  <2>1. PICK w \in Slots :
          \/ Begin(w) \/ RunNode(w) \/ Accept(w)
          \/ Lose(w) \/ GiveUp(w) \/ Discard(w)
    BY <1>1 DEF Next
  <2> QED
    BY <2>1, BeginKeeps, RunNodeKeeps, AcceptKeeps, LoseKeeps, GiveUpKeeps, DiscardKeeps
<1>2. CASE UNCHANGED vars
  BY <1>2 DEF vars, TypeOK, IInv, OwnerFits, StoreFits, StateFits, UnsavedFits, OrLate
<1> QED
  BY <1>1, <1>2

-----------------------------------------------------------------------------
(* Theorems.                                                                 *)

(* Types of passes, artifacts and phases in any run of the graphs, local or  *)
(* distributed (GraphState and the orchestrators' nodes).                    *)
THEOREM GraphsTypeOK == Spec => []TypeOK
<1> QED
  BY GraphsInit, GraphsNext, PTL DEF Spec

(* Every pass has run its graph up to one superstep and holds what was made  *)
(* there; the pass that counts has overwritten in the store what lost passes *)
(* of its phase left, and the rest of it is what was accepted (agent_node,   *)
(* assemble, run_phase's latest_artifacts).                                  *)
THEOREM GraphsInvariant == Spec => []IInv
<1> QED
  BY GraphsInit, GraphsNext, PTL DEF Spec

(* A node runs once in a pass and the gate after all others, whatever is     *)
(* lost and resumed (the add_edge calls of the five graphs).                 *)
THEOREM NodesRunOnceHolds == Spec => []NodesRunOnce
<1>1. TypeOK /\ IInv => NodesRunOnce
  <2> SUFFICES ASSUME TypeOK, IInv, NEW w \in Slots
               PROVE  /\ slot[w].frontier \cap slot[w].ran = {}
                      /\ "gate" \in slot[w].frontier =>
                            slot[w].ran \cup {"gate"} = Nodes(slot[w].phase)
    BY DEF NodesRunOnce
  <2>1. PICK s \in Passes : s = slot[w] /\ PassFits(s)
    BY SlotFacts
  <2>2. s.frontier \cap s.ran = {}
    BY <2>1, PassTypes, PassFields, LastSuperstep DEF PassFits
  <2>3. "gate" \in s.frontier => s.ran \cup {"gate"} = Nodes(s.phase)
    BY <2>1, AtGate
  <2> QED
    BY <2>1, <2>2, <2>3
<1> QED
  BY <1>1, GraphsTypeOK, GraphsInvariant, PTL

(* What a node reads of its own phase was made in its own pass, but for      *)
(* feedback and, in a local run, the diffs of items the plan has no more     *)
(* (the agents' relevant_artifacts and output_key against the edges of the   *)
(* graphs, integrator_node's loop over the state).                           *)
THEOREM FreshReadsHolds == Spec => []FreshReads
<1>1. TypeOK /\ IInv => FreshReads
  <2> SUFFICES ASSUME TypeOK, IInv, NEW w \in Slots, NEW n \in slot[w].frontier,
                      NEW k \in ReadsOf(slot[w], n) \cap Made(slot[w].phase),
                      <<n, k>> \notin Feedback,
                      ~(mode = "local" /\ n = "integrator" /\ k \in Dropped(slot[w]))
               PROVE  slot[w].state[k] = slot[w].number
    BY DEF FreshReads
  <2>1. PICK s \in Passes : s = slot[w] /\ PassFits(s) /\ s # NoPass /\ s.phase \in Phases
    BY SlotFacts, PassFields
  <2>2. PICK m \in 1..Superstep[s.phase]["gate"] :
          s.frontier = NodesAt(s.phase, m) /\ s.ran = NodesBefore(s.phase, m)
    BY <2>1 DEF PassFits
  <2>3. n \in Nodes(s.phase) /\ Superstep[s.phase][n] = m /\ k \in Reads(s.phase, n)
    BY <2>1, <2>2 DEF NodesAt, ReadsOf
  <2>4. PICK earlier \in Nodes(s.phase) :
          k \in Writes(s.phase, earlier) /\ Superstep[s.phase][earlier] < m
    BY <2>1, <2>3, GraphsFit DEF GraphFits, ReadsOrdered
  <2>5. earlier \in s.ran
    BY <2>2, <2>4 DEF NodesBefore
  <2>6. CASE k \in Dropped(s)
    <3>1. n = "integrator" /\ s.state[k] # 0 /\ mode # "local"
      BY <2>1, <2>3, <2>6 DEF ReadsOf
    <3>2. k \in Unsaved
      BY <2>6, ItemsOfBuild
    <3> QED
      BY <2>1, <3>1, <3>2 DEF IInv, UnsavedFits
  <2>7. CASE k \notin Dropped(s)
    BY <2>1, <2>4, <2>5, <2>7 DEF PassFits, WritesOf
  <2> QED
    BY <2>6, <2>7
<1> QED
  BY <1>1, GraphsTypeOK, GraphsInvariant, PTL

(* What one phase reads of another was accepted there or is the work of a    *)
(* pass of that phase that was given up and went on, for any number of such  *)
(* passes and in any order of their saves (run_phase's latest_artifacts, the *)
(* master's state).                                                          *)
THEOREM CurrentReadsHolds == Spec => []CurrentReads
<1>1. TypeOK /\ IInv => CurrentReads
  <2> SUFFICES ASSUME TypeOK, IInv, NEW w \in Slots, owner = w,
                      NEW n \in slot[w].frontier,
                      NEW k \in ReadsOf(slot[w], n) \ Made(slot[w].phase),
                      k # "test_ids" \/ mode = "local"
               PROVE  slot[w].state[k] \in {accepted[MakerOf(k)]} \cup late[MakerOf(k)]
    BY DEF CurrentReads
  <2>1. PICK s \in Passes : s = slot[w] /\ PassFits(s) /\ s # NoPass /\ s.phase \in Phases
    BY SlotFacts, PassFields
  <2>2. owner # NoSlot /\ s.phase = phase
    BY <2>1, GraphsAssumption DEF IInv, OwnerFits
  <2>3. n \in Nodes(s.phase) /\ k \in Reads(s.phase, n)
    BY <2>1 DEF PassFits, NodesAt, ReadsOf
  <2>4. PICK q \in Phases : k \in Made(q) /\ k \in OfOnePhase
    BY <2>1, <2>3, ReadsOfOthers
  <2>5. k # "test_ids" => k \notin Unsaved
    BY <2>1, <2>3, ReadsOfOthers
  <2>6. q # phase
    BY <2>1, <2>2, <2>4
  <2>7. s.state[k] \in OrLate(accepted[q], q)
    BY <2>1, <2>2, <2>4, <2>5, <2>6 DEF IInv, StateFits
  <2> QED
    BY <2>1, <2>4, <2>7, MakerFound DEF OrLate
<1> QED
  BY <1>1, GraphsTypeOK, GraphsInvariant, PTL
=============================================================================
