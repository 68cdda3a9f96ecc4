---------------------------- MODULE DecisionGraph ----------------------------
(***************************************************************************)
(* The control flow of the decision engine: the three sub-graphs compiled  *)
(* by talent_request_graph, talent_evaluation_dispatch and                 *)
(* talent_evaluation_report, chained by talent_decision_engine, as one     *)
(* relation between nodes.  What a node computes (model calls, retrieval,  *)
(* scoring) is abstracted to the status it reports and the node that runs  *)
(* next; the tables that project nodes to user-visible steps are kept.     *)
(*                                                                         *)
(* Left out because the run manager cannot reach them: the "cancelled"     *)
(* answers of confirm_job and resolve_requirements (the manager only       *)
(* resumes with "select" or "revise"), and retrieve_candidates and         *)
(* no_candidates (the engine enters the evaluation graph only with a       *)
(* non-empty, preselected candidate list).  Nodes without a projection, an *)
(* interrupt or a branch of their own (begin_turn, receive_input,          *)
(* select_exact_job, compile_selected_job, review_consistency) are part of *)
(* the edge that crosses them.                                             *)
(***************************************************************************)
\* Node after which the stream of the engine is exhausted.
End == "END"

(***************************************************************************)
(* <<node, status reported by its update, node that runs next>>.           *)
(***************************************************************************)
RequestEdges ==
    { <<"receive_request", "received", "interpret_input">>,
      <<"interpret_input", "request_understood", "build_plan">>,
      <<"interpret_input", "request_understood", "lookup_jobs">>,
      <<"lookup_jobs", "jobs_found", "build_plan">>,
      <<"lookup_jobs", "jobs_found", "confirm_job">>,
      <<"lookup_jobs", "jobs_found", "no_job_match">>,
      <<"no_job_match", "no_job_match", End>>,
      <<"confirm_job", "job_confirmed", "build_plan">>,
      <<"build_plan", "plan_ready", "filter_candidates">>,
      <<"build_plan", "clarification_required", "resolve_requirements">>,
      <<"filter_candidates", "candidates_ready", "generate_dimensions">>,
      <<"filter_candidates", "candidates_empty", "resolve_requirements">>,
      <<"resolve_requirements", "request_revised", "interpret_input">> }

EvaluationEdges ==
    { <<"generate_dimensions", "dimensions_generated", "validate_dimensions">>,
      <<"validate_dimensions", "dimensions_valid", "prepare_work_items">>,
      <<"validate_dimensions", "dimension_invalid", "dimension_invalid">>,
      <<"dimension_invalid", "dimension_invalid", End>>,
      <<"prepare_work_items", "work_items_ready", "run_assessment_branch">>,
      <<"prepare_work_items", "capacity_exceeded", "capacity_exceeded">>,
      <<"capacity_exceeded", "capacity_exceeded", End>>,
      <<"run_assessment_branch", "work_items_ready", "finalize">>,
      <<"finalize", "branches_ready", "score_dimensions">>,
      <<"finalize", "branches_ready_with_failures", "score_dimensions">> }

ReportEdges ==
    { <<"score_dimensions", "dimensions_scored", "aggregate_candidates">>,
      <<"aggregate_candidates", "candidates_ranked", "compose_report">>,
      <<"compose_report", "report_drafted", "validate_report">>,
      <<"validate_report", "completed", End>> }

Edges == RequestEdges \cup EvaluationEdges \cup ReportEdges

Node == {e[1] : e \in Edges}

GraphStatus == {e[2] : e \in Edges} \cup {""}

\* The nodes whose body calls interrupt() before it returns.
InterruptNode == {"confirm_job", "resolve_requirements"}

\* Terminal graph statuses the run manager reports as a failed run.
FAILED_GRAPH_STATUSES == {"capacity_exceeded", "dimension_invalid", "failed"}

Step == {"understand_request", "filter_candidates", "build_dimensions",
         "parallel_assessment", "score_candidates", "compose_report"}

(***************************************************************************)
(* STEP_BY_START_NODE and STEP_BY_COMPLETION_NODE.                          *)
(***************************************************************************)
StartNodes == {"receive_request", "interpret_input", "filter_candidates",
               "generate_dimensions", "prepare_work_items",
               "run_assessment_branch", "score_dimensions", "compose_report"}

StartStep == [n \in StartNodes |->
    CASE n \in {"receive_request", "interpret_input"} -> "understand_request"
      [] n = "filter_candidates" -> "filter_candidates"
      [] n = "generate_dimensions" -> "build_dimensions"
      [] n \in {"prepare_work_items", "run_assessment_branch"} -> "parallel_assessment"
      [] n = "score_dimensions" -> "score_candidates"
      [] n = "compose_report" -> "compose_report"]

CompletionNodes == {"build_plan", "filter_candidates", "validate_dimensions",
                    "finalize", "aggregate_candidates", "validate_report"}

CompletionStep == [n \in CompletionNodes |->
    CASE n = "build_plan" -> "understand_request"
      [] n = "filter_candidates" -> "filter_candidates"
      [] n = "validate_dimensions" -> "build_dimensions"
      [] n = "finalize" -> "parallel_assessment"
      [] n = "aggregate_candidates" -> "score_candidates"
      [] n = "validate_report" -> "compose_report"]

(***************************************************************************)
(* The manager reads the stream item by item.  A position is the node      *)
(* being executed and the next item it owes: its "tasks" item ("start"),   *)
(* its interrupt ("ask") or its "updates" item ("update").                 *)
(***************************************************************************)
FirstItem(n) ==
    IF n \in InterruptNode THEN "ask"
    ELSE IF n \in StartNodes THEN "start"
    ELSE "update"

At(n) == <<n, FirstItem(n)>>

Entry == At("receive_request")

Position == (Node \cup {End}) \X {"start", "ask", "update"}
=============================================================================
