---------------------------- MODULE EvaluationTurn ----------------------------
(***************************************************************************)
(* What a turn of the decision engine computes: begin_turn, the evaluation *)
(* sub-graph (talent_evaluation_dispatch) with its parallel branches, whose*)
(* searches go through ToolExecutor and the circuit breaker all runs of    *)
(* the process share, and the report sub-graph (talent_evaluation_report). *)
(* DecisionGraph has the edges only; this module has the data.             *)
(*                                                                         *)
(* The engine keeps its channels from turn to turn in the checkpoint of    *)
(* the conversation.  A sub-graph starts from the engine's channels, keeps *)
(* its own while it runs and hands them back when it ends; when a node of  *)
(* it raises, the turn is over and the engine has what it had before.      *)
(*                                                                         *)
(* The request sub-graph is reduced to the candidates it confirms.  A      *)
(* model answers with any value its schema admits, or raises.  Left out:   *)
(* retrieve_candidates and no_candidates (the engine always passes a       *)
(* non-empty list of candidates) and the execution status "failed" of a    *)
(* branch (the wired worker never raises TimeoutError or                   *)
(* BranchExecutionError: the executor has caught the first, nothing raises *)
(* the second).                                                            *)
(***************************************************************************)
EXTENDS CircuitBreaker, Sequences, FiniteSets, Functions

CONSTANTS
    Candidates,         \* candidate ids, numbers: they are compared as strings
    DimensionPlans,     \* what the dimension model may answer
    Scores,             \* scores a judgement may give, of 0..5
    max_work_items,     \* of build_talent_evaluation_dispatch_graph
    max_concurrency,    \* of the run's RunnableConfig: branches at a time
    MaxTurns,           \* bound: turns of the conversation
    MaxFailures         \* bound: failures on the breaker before other runs' stop

Dimension == [weight_percent : 1..100, requirements : Nat \ {0}]

ASSUME EvaluationAssumption ==
    /\ Candidates \subseteq Nat /\ IsFiniteSet(Candidates)
    /\ DimensionPlans \subseteq Seq(Dimension) \ {<<>>}
    /\ Scores \subseteq 0..5
    /\ max_work_items \in Nat \ {0} /\ max_concurrency \in Nat \ {0}
    /\ MaxTurns \in Nat /\ MaxFailures \in Nat

VARIABLES
    turn,       \* turns begun
    node,       \* the node that runs next, End between turns
    engine,     \* TalentDecisionEngineState
    dispatch,   \* TalentEvaluationDispatchState while that graph runs
    calls,      \* for each running branch: its tool calls
    results,    \* branches that have returned and wait for the others
    report      \* TalentEvaluationReportState while that graph runs

graphs == <<dispatch, calls, results, report>>
vars == <<turn, node, engine, graphs, breaker>>

End == "END"
NoReport == [turn |-> 0, order |-> <<>>]
NoScore == -1

-------------------------------------------------------------------------------
(***************************************************************************)
(* The channels.                                                           *)
(***************************************************************************)
EmptyChannels ==
    [candidate_ids |-> {}, dimensions |-> <<>>, branch_results |-> {},
     candidate_assessments |-> {}, ranking |-> <<>>, report |-> NoReport,
     status |-> "received"]

\* Mutant: a turn starts with the previous turn's results.
BranchResultsKept == [EmptyChannels EXCEPT !.branch_results = engine.branch_results]

\* The update of begin_turn.
TurnReset == EmptyChannels

NoDispatch == [dimensions |-> <<>>, branch_results |-> {}, work_items |-> {}, status |-> ""]

NoReporting ==
    [dimension_assessments |-> {}, consistency_issues |-> {},
     candidate_assessments |-> {}, ranking |-> <<>>, report_draft |-> <<>>]

Init ==
    /\ turn = 0 /\ node = End
    /\ engine = EmptyChannels
    /\ dispatch = NoDispatch /\ calls = <<>> /\ results = {} /\ report = NoReporting
    /\ breaker = Reset

\* The sub-graph's own channels are gone with its invocation.
GraphsGone ==
    /\ dispatch' = NoDispatch /\ calls' = <<>> /\ results' = {} /\ report' = NoReporting

\* A node raises: the stream of the run ends, the engine keeps its channels.
Raise ==
    /\ node' = End
    /\ GraphsGone
    /\ UNCHANGED <<turn, engine>>

BeginTurn ==
    /\ node = End /\ turn < MaxTurns
    /\ turn' = turn + 1
    /\ engine' = TurnReset
    /\ node' = "request_subgraph"
    /\ UNCHANGED <<graphs, breaker>>

\* It ends with candidates, without (no job, or the user cancels), or raises.
RequestSubgraph ==
    /\ node = "request_subgraph"
    /\ UNCHANGED <<graphs, breaker, turn>>
    /\ \/ \E candidate_ids \in SUBSET Candidates \ {{}} :
            /\ engine' = [engine EXCEPT !.candidate_ids = candidate_ids,
                                        !.status = "candidates_ready"]
            /\ node' = "receive_dispatch"
       \/ \E status \in {"no_job_match", "cancelled"} :
            engine' = [engine EXCEPT !.status = status] /\ node' = End
       \/ UNCHANGED engine /\ node' = End

-------------------------------------------------------------------------------
(***************************************************************************)
(* The evaluation sub-graph.                                               *)
(***************************************************************************)
\* The task ids, candidate:dimension_number.
WorkItems(candidate_ids, dimensions) == candidate_ids \X DOMAIN dimensions

\* branch_results is an added channel: the update [] leaves what came in.
ReceiveDispatch ==
    /\ node = "receive_dispatch"
    /\ dispatch' = [NoDispatch EXCEPT !.branch_results = engine.branch_results,
                                      !.status = "received"]
    /\ node' = "generate_dimensions"
    /\ UNCHANGED <<turn, engine, calls, results, report, breaker>>

GenerateDimensions ==
    /\ node = "generate_dimensions"
    /\ UNCHANGED breaker
    /\ \/ \E plan \in DimensionPlans :
            /\ dispatch' = [dispatch EXCEPT !.dimensions = plan,
                                            !.status = "dimensions_generated"]
            /\ node' = "validate_dimensions"
            /\ UNCHANGED <<turn, engine, calls, results, report>>
       \/ Raise

\* The weights of the dimensions in a set of positions.
WeightOf(dimensions, positions) ==
    SumFunction([d \in DOMAIN dimensions |->
        IF d \in positions THEN dimensions[d].weight_percent ELSE 0])

\* validate_dimension_plan.
DimensionsValid(dimensions) == WeightOf(dimensions, DOMAIN dimensions) = 100

\* The end of the sub-graph: its channels go to the engine, which routes.
LeaveDispatch(status, next) ==
    /\ engine' = [engine EXCEPT !.dimensions = dispatch.dimensions,
                                !.branch_results = dispatch.branch_results,
                                !.status = status]
    /\ node' = next
    /\ GraphsGone
    /\ UNCHANGED <<turn, breaker>>

ValidateDimensions ==
    /\ node = "validate_dimensions"
    /\ \/ /\ DimensionsValid(dispatch.dimensions)
          /\ node' = "prepare_work_items"
          /\ dispatch' = [dispatch EXCEPT !.status = "dimensions_valid"]
          /\ UNCHANGED <<turn, engine, calls, results, report, breaker>>
       \/ /\ ~DimensionsValid(dispatch.dimensions)
          /\ LeaveDispatch("dimension_invalid", End)

\* One Send per work item; more than the limit are not split but refused.
PrepareWorkItems ==
    LET items == WorkItems(engine.candidate_ids, dispatch.dimensions)
    IN  /\ node = "prepare_work_items"
        /\ \/ /\ Cardinality(items) <= max_work_items
              /\ dispatch' = [dispatch EXCEPT !.work_items = items,
                                              !.status = "work_items_ready"]
              /\ node' = "run_assessment_branch"
              /\ UNCHANGED <<turn, engine, calls, results, report, breaker>>
           \/ /\ Cardinality(items) > max_work_items
              /\ LeaveDispatch("capacity_exceeded", End)

-------------------------------------------------------------------------------
(***************************************************************************)
(* The branches.  Each runs in a thread of its own and submits all its     *)
(* requirements at once to a pool; each requirement is one tool call.      *)
(*                                                                         *)
(* A call is "submitted" until allow() answers, then "admitted" or         *)
(* "blocked".  An admitted call makes one attempt without a timeout, the   *)
(* policy of the runtime, and comes back as                                *)
(*    "found"        evidence with at least one validated fact             *)
(*    "empty"        nothing found, or no fact in what was found           *)
(*    "unextracted"  sources found, extraction failed (or no pack): the    *)
(*                   tool call itself succeeded                            *)
(*    "unavailable"  TransientToolError or TimeoutError                    *)
(*    "refused"      ValueError or PermissionError                         *)
(*    "crashed"      any other exception, which execute() raises again     *)
(***************************************************************************)
Answered == {"found", "empty", "unextracted"}
Outcome == Answered \cup {"unavailable", "refused", "crashed"}
CallStatus == Outcome \cup {"submitted", "admitted", "blocked"}

TasksOf(records) == {r.task : r \in records}

Running == DOMAIN calls
Waiting == dispatch.work_items \ (Running \cup TasksOf(results))

StartBranch ==
    /\ node = "run_assessment_branch"
    /\ Cardinality(Running) < max_concurrency
    /\ \E task \in Waiting :
          LET n == dispatch.dimensions[task[2]].requirements
          IN  calls' = [t \in Running \cup {task} |->
                           IF t = task THEN [i \in 1..n |-> "submitted"] ELSE calls[t]]
    /\ UNCHANGED <<turn, node, engine, dispatch, results, report, breaker>>

SetCall(task, i, status) == calls' = [calls EXCEPT ![task][i] = status]

\* ToolExecutor.execute up to the operation.
AskBreaker ==
    /\ \E task \in Running : \E i \in DOMAIN calls[task] :
          /\ calls[task][i] = "submitted"
          /\ SetCall(task, i, IF Allows(breaker) THEN "admitted" ELSE "blocked")
    /\ breaker' = Allow(breaker)
    /\ UNCHANGED <<turn, node, engine, dispatch, results, report>>

\* What the outcome of a call does to the breaker.
AfterOutcome(b, outcome) ==
    CASE outcome \in Answered -> Succeed(b)
      [] outcome = "unavailable" -> Fail(b)
      [] OTHER -> b

CallReturns ==
    /\ \E task \in Running : \E i \in DOMAIN calls[task] :
          /\ calls[task][i] = "admitted"
          /\ \E outcome \in Outcome :
                /\ SetCall(task, i, outcome)
                /\ breaker' = AfterOutcome(breaker, outcome)
    /\ UNCHANGED <<turn, node, engine, dispatch, results, report>>

Returned(task) == \A i \in DOMAIN calls[task] : calls[task][i] \notin {"submitted", "admitted"}

Outcomes(task) == {calls[task][i] : i \in DOMAIN calls[task]}

\* BranchEvidenceDraft; turn is there for the properties, facts is "some
\* requirement has a fact", which is where evidence references come from.
BranchResult(task) ==
    [task |-> task, turn |-> turn,
     execution_status |-> IF Outcomes(task) \subseteq {"found", "empty"}
                          THEN "succeeded" ELSE "degraded",
     facts |-> "found" \in Outcomes(task)]

\* The pool waits for every requirement before an exception goes on.
BranchEnds ==
    /\ UNCHANGED breaker
    /\ \E task \in Running :
          /\ Returned(task)
          /\ \/ /\ "crashed" \notin Outcomes(task)
                /\ results' = results \cup {BranchResult(task)}
                /\ calls' = [t \in Running \ {task} |-> calls[t]]
                /\ UNCHANGED <<turn, node, engine, dispatch, report>>
             \/ /\ "crashed" \in Outcomes(task)
                /\ Raise

\* The step of the graph ends when every branch has returned.
AllBranchesBack == TasksOf(results) = dispatch.work_items

\* The results join the channel together, then finalize and the way out.
Finalize ==
    /\ node = "run_assessment_branch"
    /\ AllBranchesBack
    /\ engine' = [engine EXCEPT !.dimensions = dispatch.dimensions,
                                !.branch_results = dispatch.branch_results \cup results,
                                !.status = "branches_ready"]
    /\ node' = "receive_report"
    /\ GraphsGone
    /\ UNCHANGED <<turn, breaker>>

-------------------------------------------------------------------------------
(***************************************************************************)
(* The report sub-graph.                                                   *)
(***************************************************************************)
Positions == DOMAIN engine.dimensions
Assessed(records) == {r.task[1] : r \in records}

\* No task twice, no unknown dimension, no gap in candidates x dimensions.
InputAccepted(branches) ==
    /\ branches # {}
    /\ \A a, b \in branches : a.task = b.task => a = b
    /\ TasksOf(branches) = Assessed(branches) \X Positions

ReceiveReport ==
    /\ node = "receive_report"
    /\ UNCHANGED breaker
    /\ \/ /\ InputAccepted(engine.branch_results)
          /\ node' = "score_dimensions"
          /\ UNCHANGED <<turn, engine, graphs>>
       \/ /\ ~InputAccepted(engine.branch_results)
          /\ Raise

\* A judgement of the model: refs "unknown" when one of them is not among
\* the branch's; explained when it lists what is missing or in conflict.
Judgement ==
    [evidence_status : {"sufficient", "partial", "missing", "conflicting"},
     score : Scores \cup {NoScore},
     refs : {"none", "cited", "unknown"},
     explained : BOOLEAN]

\* Mutant: a score may come with any status.
JudgementUnscored(j) ==
    /\ j.refs # "unknown"
    /\ j.evidence_status \in {"sufficient", "partial"} => j.score # NoScore
    /\ j.evidence_status # "missing" => j.refs = "cited"
    /\ j.evidence_status \in {"missing", "conflicting"} => j.explained

\* validate_dimension_judgement.
JudgementAccepted(j) ==
    /\ j.refs # "unknown"
    /\ j.evidence_status \in {"missing", "conflicting"} => j.score = NoScore
    /\ j.evidence_status \in {"sufficient", "partial"} => j.score # NoScore
    /\ j.evidence_status # "missing" => j.refs = "cited"
    /\ j.evidence_status \in {"missing", "conflicting"} => j.explained

Accepted ==
    {[evidence_status |-> j.evidence_status, score |-> j.score] :
        j \in {k \in Judgement : JudgementAccepted(k)}}

\* A branch without a fact is not shown to the model.
Unjudged == [evidence_status |-> "missing", score |-> NoScore]

\* All branches are scored in parallel threads that share nothing; one
\* judgement that is not accepted fails the node.
ScoreDimensions ==
    LET judged == {b \in engine.branch_results : b.facts}
    IN  /\ node = "score_dimensions"
        /\ UNCHANGED breaker
        /\ \/ \E judgement \in [judged -> Accepted] :
                /\ report' = [report EXCEPT !.dimension_assessments =
                       {[task |-> b.task,
                         judgement |-> IF b.facts THEN judgement[b] ELSE Unjudged] :
                            b \in engine.branch_results}]
                /\ node' = "review_consistency"
                /\ UNCHANGED <<turn, engine, dispatch, calls, results>>
           \/ judged # {} /\ Raise

\* Issues must cite evidence of the candidate: one without facts has none.
ReviewConsistency ==
    /\ node = "review_consistency"
    /\ UNCHANGED breaker
    /\ \/ \E issues \in SUBSET Assessed({b \in engine.branch_results : b.facts}) :
            /\ report' = [report EXCEPT !.consistency_issues = issues]
            /\ node' = "aggregate_candidates"
            /\ UNCHANGED <<turn, engine, dispatch, calls, results>>
       \/ Raise

JudgementOf(candidate, position) ==
    (CHOOSE a \in report.dimension_assessments : a.task = <<candidate, position>>).judgement

(***************************************************************************)
(* aggregate_candidate_assessments.  Scores are weight times score over    *)
(* five in the code; here they are counted in fifths, so that they are     *)
(* exact (the code rounds to two decimals, of which it needs one).         *)
(***************************************************************************)
CandidateAssessment(c) ==
    LET scored == {d \in Positions : JudgementOf(c, d).score # NoScore}
        statuses == {JudgementOf(c, d).evidence_status : d \in Positions}
        confirmed == SumFunction([d \in Positions |->
            IF d \in scored
            THEN engine.dimensions[d].weight_percent * JudgementOf(c, d).score ELSE 0])
        coverage == WeightOf(engine.dimensions, scored)
    IN  [candidate_id |-> c,
         confirmed_score |-> confirmed,
         possible_score |-> confirmed + 5 * WeightOf(engine.dimensions, Positions \ scored),
         evidence_coverage_percent |-> coverage,
         confidence |->
            CASE c \in report.consistency_issues -> "low"
              [] c \notin report.consistency_issues /\ statuses = {"sufficient"} -> "high"
              [] /\ c \notin report.consistency_issues /\ statuses # {"sufficient"}
                 /\ coverage >= 70 /\ "conflicting" \notin statuses -> "medium"
              [] OTHER -> "low"]

\* Mutant: what is not known counts in a candidate's favour.
PossibleFirst(a, b) ==
    \/ a.possible_score > b.possible_score
    \/ a.possible_score = b.possible_score /\ a.candidate_id < b.candidate_id

\* The sort key of rank_candidate_assessments.
RanksBefore(a, b) ==
    \/ a.confirmed_score > b.confirmed_score
    \/ /\ a.confirmed_score = b.confirmed_score
       /\ \/ a.evidence_coverage_percent > b.evidence_coverage_percent
          \/ /\ a.evidence_coverage_percent = b.evidence_coverage_percent
             /\ a.candidate_id < b.candidate_id

\* rank_candidate_assessments: the assessments in that order.
Ranked(assessments) ==
    CHOOSE ranked \in [1..Cardinality(assessments) -> assessments] :
        \A i, j \in DOMAIN ranked : i < j => RanksBefore(ranked[i], ranked[j])

AggregateCandidates ==
    LET assessments ==
            {CandidateAssessment(c) : c \in Assessed(report.dimension_assessments)}
        ranked == Ranked(assessments)
    IN  /\ node = "aggregate_candidates"
        /\ report' = [report EXCEPT !.candidate_assessments = assessments,
                                    !.ranking = [i \in DOMAIN ranked |-> ranked[i].candidate_id]]
        /\ node' = "compose_report"
        /\ UNCHANGED <<turn, engine, dispatch, calls, results, breaker>>

\* The writer model may leave candidates out or order them otherwise.
ComposeReport ==
    /\ node = "compose_report"
    /\ UNCHANGED breaker
    /\ \/ \E n \in DOMAIN report.ranking :
          \E draft \in [1..n -> Assessed(report.dimension_assessments)] :
            /\ report' = [report EXCEPT !.report_draft = draft]
            /\ node' = "validate_report"
            /\ UNCHANGED <<turn, engine, dispatch, calls, results>>
       \/ Raise

\* validate_report_draft, rendering, and the end of the turn.
ValidateReport ==
    /\ node = "validate_report"
    /\ UNCHANGED breaker
    /\ \/ /\ report.report_draft = report.ranking
          /\ engine' = [engine EXCEPT
                  !.candidate_assessments = report.candidate_assessments,
                  !.ranking = report.ranking,
                  !.report = [turn |-> turn, order |-> report.report_draft],
                  !.status = "completed"]
          /\ node' = End
          /\ GraphsGone
          /\ UNCHANGED turn
       \/ report.report_draft # report.ranking /\ Raise

-------------------------------------------------------------------------------
(***************************************************************************)
(* Time, and what else uses the breaker: other runs of the process, and    *)
(* the branches that a run which has failed left behind in their threads.  *)
(***************************************************************************)
TimePasses ==
    /\ CanPass(breaker)
    /\ breaker' = Passes(breaker)
    /\ UNCHANGED <<turn, node, engine, graphs>>

OtherCall ==
    /\ \/ breaker' = Allow(breaker)
       \/ \E outcome \in {"found", "unavailable"} :
            /\ outcome = "unavailable" => breaker.failures < MaxFailures
            /\ breaker' = AfterOutcome(breaker, outcome)
    /\ UNCHANGED <<turn, node, engine, graphs>>

Branches == StartBranch \/ AskBreaker \/ CallReturns \/ BranchEnds \/ Finalize

Dispatching ==
    \/ ReceiveDispatch \/ GenerateDimensions \/ ValidateDimensions \/ PrepareWorkItems
    \/ Branches

Reporting ==
    \/ ReceiveReport \/ ScoreDimensions \/ ReviewConsistency \/ AggregateCandidates
    \/ ComposeReport \/ ValidateReport

Turn == RequestSubgraph \/ Dispatching \/ Reporting

Next == BeginTurn \/ Turn \/ TimePasses \/ OtherCall

Spec == Init /\ [][Next]_vars

-------------------------------------------------------------------------------
(***************************************************************************)
(* Properties.                                                             *)
(***************************************************************************)
Task == Candidates \X Nat

Result == [task : Task, turn : Nat, execution_status : {"succeeded", "degraded"}, facts : BOOLEAN]

ReportNodes ==
    {"receive_report", "score_dimensions", "review_consistency",
     "aggregate_candidates", "compose_report", "validate_report"}

(***************************************************************************)
(* The report graph gets one result for each pair of a candidate and a     *)
(* dimension of this turn, all of them produced in this turn, although     *)
(* the channel of branch_results adds what it is given to what the engine  *)
(* still holds, branches crash, and earlier turns of the conversation      *)
(* ended anywhere.                                                         *)
(***************************************************************************)
ReportGetsWholeTurn ==
    node \in ReportNodes =>
        /\ TasksOf(engine.branch_results) = WorkItems(engine.candidate_ids, engine.dimensions)
        /\ \A b \in engine.branch_results : b.turn = turn
        /\ \A a, b \in engine.branch_results : a.task = b.task => a = b

(***************************************************************************)
(* What is missing or in conflict is never scored, and every score rests   *)
(* on a fact that a search of this turn brought back, for this candidate   *)
(* and dimension, whatever the model judges and whichever calls the        *)
(* breaker refused.                                                        *)
(***************************************************************************)
ScoresAreBacked ==
    \A a \in report.dimension_assessments :
        a.judgement.score # NoScore =>
            /\ a.judgement.evidence_status \in {"sufficient", "partial"}
            /\ \E b \in engine.branch_results : b.task = a.task /\ b.facts /\ b.turn = turn

\* a does at least as well as b in every dimension and better in one.
Dominates(a, b) ==
    /\ \A d \in Positions : JudgementOf(a, d).score >= JudgementOf(b, d).score
    /\ \E d \in Positions : JudgementOf(a, d).score > JudgementOf(b, d).score

(***************************************************************************)
(* A candidate that does at least as well as another in every dimension    *)
(* and better in one is ranked before it; a dimension without a score is   *)
(* worse than a score of 0.                                                *)
(***************************************************************************)
RankingRespectsScores ==
    \A i, j \in DOMAIN report.ranking :
        Dominates(report.ranking[i], report.ranking[j]) => i < j

(***************************************************************************)
(* The breaker refuses calls exactly while it counts failure_threshold     *)
(* failures: none is left from before a success or a recovery, in          *)
(* whatever order the calls of parallel branches and runs come back.       *)
(***************************************************************************)
BreakerConsistent == breaker.opened <=> breaker.failures >= failure_threshold

===============================================================================
