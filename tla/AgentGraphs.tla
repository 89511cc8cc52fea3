----------------------------- MODULE AgentGraphs -----------------------------
(* The five phase graphs: their edges, and the artifacts each node reads     *)
(* (an agent's relevant_artifacts, a function's lookups) and writes (its     *)
(* output_key).  Edges and artifacts are declared in different files and     *)
(* nothing in the program compares them.                                     *)
EXTENDS Phases, Sequences, FiniteSets

(* The edges of a path. *)
Chain(s) == {<<s[i], s[i + 1]>> : i \in 1 .. Len(s) - 1}

(* Compliance and scope started with the author instead of after it. *)
RequirementsEdgesEager ==
    Chain(<<"start", "intake", "clarify", "author", "evaluate", "gate">>)
    \cup Chain(<<"clarify", "compliance", "evaluate">>)
    \cup Chain(<<"clarify", "scope", "evaluate">>)

RequirementsEdges ==
    Chain(<<"start", "intake", "clarify", "author", "compliance", "evaluate", "gate">>)
    \cup Chain(<<"author", "scope", "evaluate">>)

RequirementsReads ==
    [intake     |-> {},
     clarify    |-> {"intake_summary"},
     author     |-> {"intake_summary", "clarification_log"},
     compliance |-> {"requirements_spec"},
     scope      |-> {"requirements_spec"},
     evaluate   |-> {"requirements_spec", "compliance_notes"},
     gate       |-> {"eval_scorecard"}]

RequirementsWrites ==
    [intake |-> {"intake_summary"}, clarify |-> {"clarification_log"},
     author |-> {"requirements_spec"}, compliance |-> {"compliance_notes"},
     scope |-> {"scope_assessment"}, evaluate |-> {"eval_scorecard"}, gate |-> {}]

(* The data model after the threats: one branch longer than the others. *)
DesignEdgesUneven ==
    Chain(<<"start", "codebase", "adr", "api", "work", "package", "evaluate", "gate">>)
    \cup Chain(<<"adr", "threat", "data", "work">>)

DesignEdges ==
    Chain(<<"start", "codebase", "adr", "api", "work", "package", "evaluate", "gate">>)
    \cup Chain(<<"adr", "data", "work">>)
    \cup Chain(<<"adr", "threat", "work">>)

DesignReads ==
    [codebase |-> {"requirements_spec"},
     adr      |-> {"requirements_spec", "codebase_map"},
     api      |-> {"requirements_spec", "architecture_decisions"},
     data     |-> {"requirements_spec", "architecture_decisions"},
     threat   |-> {"requirements_spec", "architecture_decisions"},
     work     |-> {"requirements_spec", "codebase_map", "architecture_decisions",
                   "api_spec", "data_model", "threat_model"},
     package  |-> {"requirements_spec", "codebase_map", "architecture_decisions",
                   "api_spec", "data_model", "threat_model", "work_plan"},
     evaluate |-> {"requirements_spec", "design_package"},
     gate     |-> {"eval_scorecard"}]

DesignWrites ==
    [codebase |-> {"codebase_map"}, adr |-> {"architecture_decisions"},
     api |-> {"api_spec"}, data |-> {"data_model"}, threat |-> {"threat_model"},
     work |-> {"work_plan"}, package |-> {"design_package"},
     evaluate |-> {"eval_scorecard"}, gate |-> {}]

BuildEdges ==
    Chain(<<"start", "scaffold", "work_items", "static_and_tests", "integrator",
            "evaluate", "gate">>)

(* What is written for one item of the work plan; two items are enough to    *)
(* have one in the plan and one that was in an earlier plan.                 *)
ItemArtifacts ==
    [first  |-> {"code_diff_1", "unit_test_diff_1", "review_report_1"},
     second |-> {"code_diff_2", "unit_test_diff_2", "review_report_2"}]

Items == DOMAIN ItemArtifacts

OfItems == UNION {ItemArtifacts[i] : i \in Items}

(* work_items runs coder, test writer and reviewer for one item after the    *)
(* other, each on what the ones before it made.  Artifacts of items are those *)
(* of every item there may be; which of them a pass reads and writes depends *)
(* on its plan.                                                              *)
BuildReads ==
    [scaffold         |-> {},
     work_items       |-> {"requirements_spec", "design_package", "static_report"},
     static_and_tests |-> {},
     integrator       |-> {"design_package", "static_report", "code_diff_1", "code_diff_2"},
     evaluate         |-> {"design_package", "static_report", "code_diff_1", "code_diff_2",
                           "review_report_1", "review_report_2"},
     gate             |-> {"eval_scorecard"}]

BuildWrites ==
    [scaffold |-> {"env_report"},
     work_items |-> OfItems,
     static_and_tests |-> {"static_report"}, integrator |-> {"pull_request_artifact"},
     evaluate |-> {"eval_scorecard"}, gate |-> {}]

TestAgents == {"integration", "e2e", "performance", "security"}

TestEvalEdges ==
    Chain(<<"start", "plan", "integration", "e2e", "performance", "security",
            "triage", "quality", "evaluate", "gate">>)

TestEvalReads ==
    [plan        |-> {"requirements_spec", "design_package"},
     integration |-> {"requirements_spec", "design_package", "test_plan", "test_ids"},
     e2e         |-> {"requirements_spec", "design_package", "test_plan", "test_ids"},
     performance |-> {"requirements_spec", "design_package", "test_plan", "test_ids"},
     security    |-> {"requirements_spec", "design_package", "test_plan", "test_ids"},
     triage      |-> {"test_plan", "test_results", "quality_report"},
     quality     |-> {"requirements_spec", "test_plan", "test_results"},
     evaluate    |-> {"requirements_spec", "test_plan", "test_results", "quality_report"},
     gate        |-> {"eval_scorecard"}]

(* The plan also completes the traceability in the design package, which is  *)
(* an artifact of its own here: test_ids.                                    *)
TestEvalWrites ==
    [plan |-> {"test_plan", "test_ids"},
     integration |-> {"test_results"}, e2e |-> {"test_results"},
     performance |-> {"test_results"}, security |-> {"test_results"},
     triage |-> {"triage_report"}, quality |-> {"quality_report"},
     evaluate |-> {"eval_scorecard"}, gate |-> {}]

DeployEdges ==
    Chain(<<"start", "release", "infra", "deploy", "soak", "rollback", "evaluate", "gate">>)

DeployReads ==
    [release  |-> {"design_package", "test_ids", "quality_report"},
     infra    |-> {"design_package", "test_ids", "quality_report", "release_notes"},
     deploy   |-> {"infra_plan", "release_notes"},
     soak     |-> {"deploy_log"},
     rollback |-> {"deploy_log", "soak_report"},
     evaluate |-> {"quality_report", "deploy_log", "soak_report", "rollback_report"},
     gate     |-> {"eval_scorecard"}]

DeployWrites ==
    [release |-> {"release_notes"}, infra |-> {"infra_plan"}, deploy |-> {"deploy_log"},
     soak |-> {"soak_report"}, rollback |-> {"rollback_report"},
     evaluate |-> {"eval_scorecard"}, gate |-> {}]

-----------------------------------------------------------------------------
Graph ==
    [requirements |-> [edges |-> RequirementsEdges, reads |-> RequirementsReads,
                       writes |-> RequirementsWrites],
     design       |-> [edges |-> DesignEdges, reads |-> DesignReads, writes |-> DesignWrites],
     build        |-> [edges |-> BuildEdges, reads |-> BuildReads, writes |-> BuildWrites],
     test_eval    |-> [edges |-> TestEvalEdges, reads |-> TestEvalReads,
                       writes |-> TestEvalWrites],
     deploy       |-> [edges |-> DeployEdges, reads |-> DeployReads, writes |-> DeployWrites]]

Nodes(p) == DOMAIN Graph[p].reads

Reads(p, n) == Graph[p].reads[n]

Writes(p, n) == Graph[p].writes[n]

After(p, nodes) == {e[2] : e \in {edge \in Graph[p].edges : edge[1] \in nodes}}

Made(p) == UNION {Writes(p, n) : n \in Nodes(p)}

Keys == UNION {Made(p) : p \in Phases}

(* The assembled report never reaches the store. *)
UnsavedWithQuality == OfItems \cup {"test_ids", "quality_report"}

(* Written to the state alone: work_items returns its diffs and reviews, and *)
(* plan_node the completed package, without saving them.                     *)
Unsaved == OfItems \cup {"test_ids"}

Saves(p, n) == Writes(p, n) \ Unsaved

(* Read from the pass before, to learn from it. *)
Feedback == {<<"work_items", "static_report">>, <<"triage", "quality_report">>}
=============================================================================
