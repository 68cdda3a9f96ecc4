------------------------- MODULE EvaluationTurn_proofs -------------------------
(***************************************************************************)
(* Proofs about EvaluationTurn for every set of candidates, every plan of  *)
(* dimensions and every bound: the breaker counts what it says, the report *)
(* graph gets exactly the results of its turn, nothing is scored without a *)
(* fact, and the ranking follows the scores.  The last part is about the   *)
(* executor a search of a turn goes through, which shares the breaker      *)
(* (ToolExecutor): what it counts, and that its audit is true.             *)
(***************************************************************************)
EXTENDS EvaluationTurn, ToolExecutor, FiniteSetTheorems, WellFoundedInduction, TLAPS

\* The breaker, for every threshold and recovery.
BreakerInv == breaker \in Breaker /\ BreakerConsistent

\* Each method of the breaker keeps its entry consistent.
LEMMA BreakerMethods ==
    ASSUME NEW b \in Breaker, b.opened <=> b.failures >= failure_threshold,
           NEW c \in {Allow(b), Succeed(b), Fail(b)}
    PROVE  c \in Breaker /\ (c.opened <=> c.failures >= failure_threshold)
<1>1. Reset \in Breaker /\ (Reset.opened <=> Reset.failures >= failure_threshold)
  BY BreakerAssumption DEF Reset, Breaker
<1>2. CASE c = Allow(b)
  BY <1>1, <1>2 DEF Allow
<1>3. CASE c = Succeed(b)
  BY <1>1, <1>3 DEF Succeed
<1>4. CASE c = Fail(b)
  <2>1. CASE b.failures + 1 >= failure_threshold
    BY <1>4, <2>1, BreakerAssumption DEF Fail, Breaker
  <2>2. CASE ~(b.failures + 1 >= failure_threshold)
    BY <1>4, <2>2, BreakerAssumption DEF Fail, Breaker
  <2> QED BY <2>1, <2>2
<1> QED BY <1>2, <1>3, <1>4

\* An outcome of a call is one of them, or leaves the entry alone.
LEMMA BreakerOutcomes ==
    ASSUME BreakerInv, NEW outcome, breaker' = AfterOutcome(breaker, outcome)
    PROVE  BreakerInv'
<1>1. breaker' \in {breaker, Succeed(breaker), Fail(breaker)}
  BY DEF AfterOutcome, Answered
<1> QED BY <1>1, BreakerMethods DEF BreakerInv, BreakerConsistent

\* BreakerInv is inductive: whoever uses the breaker uses its methods.
LEMMA BreakerStep == BreakerInv /\ [Next]_vars => BreakerInv'
<1> SUFFICES ASSUME BreakerInv, [Next]_vars PROVE BreakerInv'
  OBVIOUS
<1>1. CASE UNCHANGED breaker
  BY <1>1 DEF BreakerInv, BreakerConsistent
<1>2. CASE breaker' = Allow(breaker)
  BY <1>2, BreakerMethods DEF BreakerInv, BreakerConsistent
<1>3. CASE CallReturns
  BY <1>3, BreakerOutcomes DEF CallReturns
<1>4. CASE TimePasses
  <2>1. breaker' \in Breaker
    BY <1>4, BreakerAssumption DEF BreakerInv, Breaker, TimePasses, CanPass, Passes
  <2>2. breaker'.opened = breaker.opened /\ breaker'.failures = breaker.failures
    BY <1>4 DEF BreakerInv, Breaker, TimePasses, Passes
  <2> QED BY <2>1, <2>2 DEF BreakerInv, BreakerConsistent
<1>5. CASE OtherCall
  BY <1>2, <1>5, BreakerOutcomes DEF OtherCall
<1>6. CASE Branches
  BY <1>1, <1>2, <1>3, <1>6
  DEF Branches, StartBranch, AskBreaker, BranchEnds, Finalize
<1>7. CASE Dispatching
  BY <1>1, <1>6, <1>7
  DEF Dispatching, ReceiveDispatch, GenerateDimensions, ValidateDimensions,
      PrepareWorkItems, LeaveDispatch
<1>8. CASE Reporting
  BY <1>1, <1>8
  DEF Reporting, ReceiveReport, ScoreDimensions, ReviewConsistency,
      AggregateCandidates, ComposeReport, ValidateReport
<1>9. CASE BeginTurn \/ RequestSubgraph
  BY <1>1, <1>9 DEF BeginTurn, RequestSubgraph
<1>10. CASE UNCHANGED vars
  BY <1>1, <1>10 DEF vars
<1> QED BY <1>4, <1>5, <1>7, <1>8, <1>9, <1>10 DEF Next, Turn

(***************************************************************************)
(* The breaker refuses calls exactly while it counts failure_threshold     *)
(* failures (CircuitBreaker of talent_tools under any calls).              *)
(***************************************************************************)
THEOREM BreakerCounts == Spec => []BreakerConsistent
<1>1. Init => BreakerInv
  BY BreakerAssumption DEF Init, BreakerInv, BreakerConsistent, Reset, Breaker
<1>2. BreakerInv => BreakerConsistent
  BY DEF BreakerInv
<1> QED BY <1>1, <1>2, BreakerStep, PTL DEF Spec

-------------------------------------------------------------------------------
(***************************************************************************)
(* The results of a turn.                                                  *)
(***************************************************************************)
\* The channels have the names EXCEPT gives them.
Channels ==
    /\ engine = [candidate_ids |-> engine.candidate_ids, dimensions |-> engine.dimensions,
                 branch_results |-> engine.branch_results,
                 candidate_assessments |-> engine.candidate_assessments,
                 ranking |-> engine.ranking, report |-> engine.report,
                 status |-> engine.status]
    /\ dispatch = [dimensions |-> dispatch.dimensions,
                   branch_results |-> dispatch.branch_results,
                   work_items |-> dispatch.work_items, status |-> dispatch.status]

DispatchNodes ==
    {"receive_dispatch", "generate_dimensions", "validate_dimensions",
     "prepare_work_items", "run_assessment_branch"}

\* Until the branches are back, both channels of their results are empty.
NothingYet ==
    /\ node \in DispatchNodes \cup {"request_subgraph"} => engine.branch_results = {}
    /\ dispatch.branch_results = {}

\* The branches are those of the turn's candidates and dimensions.
ItemsOfTurn ==
    node = "run_assessment_branch" =>
        dispatch.work_items = WorkItems(engine.candidate_ids, dispatch.dimensions)

\* A branch returns once, for the turn it ran in.
ReturnedOnce ==
    /\ node # "run_assessment_branch" => results = {} /\ Running = {}
    /\ \A b \in results : b.turn = turn
    /\ \A a, b \in results : a.task = b.task => a = b
    /\ \A b \in results : b.task \notin Running

ResultsInv == Channels /\ NothingYet /\ ItemsOfTurn /\ ReturnedOnce /\ ReportGetsWholeTurn

\* Between two turns, or when a node has raised, nothing is held.
LEMMA NoneHeld ==
    ASSUME ResultsInv, node' = End, GraphsGone, engine' = engine \/ Channels'
    PROVE  ResultsInv'
<1>1. Channels'
  BY DEF ResultsInv, Channels, GraphsGone, NoDispatch
<1>2. node' \notin DispatchNodes \cup ReportNodes \cup {"request_subgraph"}
  BY DEF End, DispatchNodes, ReportNodes
<1>3. NothingYet'
  BY <1>2 DEF NothingYet, GraphsGone, NoDispatch
<1>4. ItemsOfTurn' /\ ReportGetsWholeTurn'
  BY <1>2 DEF ItemsOfTurn, ReportGetsWholeTurn, DispatchNodes
<1>5. ReturnedOnce'
  BY DEF ReturnedOnce, GraphsGone, Running
<1> QED BY <1>1, <1>3, <1>4, <1>5 DEF ResultsInv

\* A step inside the report graph leaves what it was given.
LEMMA ReportKeepsInput ==
    ASSUME ResultsInv, node \in ReportNodes, node' \in ReportNodes,
           UNCHANGED <<turn, engine, dispatch, calls, results>>
    PROVE  ResultsInv'
BY DEF ResultsInv, Channels, NothingYet, ItemsOfTurn, ReturnedOnce,
       ReportGetsWholeTurn, ReportNodes, DispatchNodes, Running, TasksOf, WorkItems

\* A step inside the dispatch graph before the branches start.
LEMMA DispatchGoesOn ==
    ASSUME ResultsInv, node \in DispatchNodes,
           node' \in DispatchNodes \ {"run_assessment_branch"}, node # "run_assessment_branch",
           Channels', dispatch'.branch_results = {}, UNCHANGED <<turn, engine, calls, results>>
    PROVE  ResultsInv'
BY DEF ResultsInv, NothingYet, ItemsOfTurn, ReturnedOnce,
       ReportGetsWholeTurn, ReportNodes, DispatchNodes, Running

\* The channels are empty before the first turn.
LEMMA ResultsInit == Init => ResultsInv
<1> SUFFICES ASSUME Init PROVE ResultsInv
  OBVIOUS
<1>1. node \notin DispatchNodes \cup ReportNodes \cup {"request_subgraph"}
  BY DEF Init, End, DispatchNodes, ReportNodes
<1>2. Channels /\ NothingYet
  BY <1>1 DEF Init, Channels, NothingYet, EmptyChannels, NoDispatch
<1>3. ReturnedOnce
  BY DEF Init, ReturnedOnce, Running
<1> QED BY <1>1, <1>2, <1>3
    DEF ResultsInv, ItemsOfTurn, ReportGetsWholeTurn, DispatchNodes

\* The branches: each returns the result of its own work item, once.
LEMMA BranchesKeepResults == ResultsInv /\ Branches => ResultsInv'
<1> SUFFICES ASSUME ResultsInv, Branches PROVE ResultsInv'
  OBVIOUS
<1>1. CASE StartBranch
  <2>1. PICK task \in Waiting :
          LET n == dispatch.dimensions[task[2]].requirements
          IN  calls' = [t \in Running \cup {task} |->
                           IF t = task THEN [i \in 1..n |-> "submitted"] ELSE calls[t]]
    BY <1>1 DEF StartBranch
  <2>2. DOMAIN calls' = DOMAIN calls \cup {task} /\ task \notin TasksOf(results)
    BY <2>1 DEF Waiting, Running
  <2>3. ReturnedOnce'
    BY <1>1, <2>2 DEF StartBranch, ResultsInv, ReturnedOnce, Running, TasksOf
  <2> QED BY <1>1, <2>3
      DEF StartBranch, ResultsInv, Channels, NothingYet, ItemsOfTurn, ReportGetsWholeTurn,
          ReportNodes, WorkItems
<1>2. CASE AskBreaker \/ CallReturns
  <2>1. DOMAIN calls' = DOMAIN calls
    BY <1>2 DEF AskBreaker, CallReturns, SetCall
  <2>2. UNCHANGED <<turn, node, engine, dispatch, results>>
    BY <1>2 DEF AskBreaker, CallReturns
  <2>3. ReturnedOnce'
    BY <2>1, <2>2 DEF ResultsInv, ReturnedOnce, Running
  <2> QED BY <2>2, <2>3
      DEF ResultsInv, Channels, NothingYet, ItemsOfTurn, ReportGetsWholeTurn,
          ReportNodes, WorkItems, TasksOf
<1>3. CASE BranchEnds
  <2>1. PICK task \in Running :
          \/ /\ results' = results \cup {BranchResult(task)}
             /\ calls' = [t \in Running \ {task} |-> calls[t]]
             /\ UNCHANGED <<turn, node, engine, dispatch, report>>
          \/ Raise
    BY <1>3 DEF BranchEnds
  <2>2. CASE Raise
    BY <2>2, NoneHeld DEF Raise
  <2>3. CASE /\ results' = results \cup {BranchResult(task)}
             /\ calls' = [t \in Running \ {task} |-> calls[t]]
             /\ UNCHANGED <<turn, node, engine, dispatch, report>>
    <3>1. BranchResult(task).task = task /\ BranchResult(task).turn = turn
      BY DEF BranchResult
    <3>2. Running' = Running \ {task}
      BY <2>3 DEF Running
    <3>3. \A b \in results : b.task # task
      BY <2>1 DEF ResultsInv, ReturnedOnce
    <3>4. node = "run_assessment_branch"
      BY <2>1 DEF ResultsInv, ReturnedOnce
    <3>5. ReturnedOnce'
      BY <2>3, <3>1, <3>2, <3>3, <3>4 DEF ResultsInv, ReturnedOnce
    <3> QED BY <2>3, <3>5
        DEF ResultsInv, Channels, NothingYet, ItemsOfTurn, ReportGetsWholeTurn,
            ReportNodes, WorkItems, TasksOf
  <2> QED BY <2>1, <2>2, <2>3
<1>4. CASE Finalize
  <2>1. /\ engine'.branch_results = results
        /\ engine'.candidate_ids = engine.candidate_ids
        /\ engine'.dimensions = dispatch.dimensions
        /\ Channels'
    BY <1>4 DEF Finalize, ResultsInv, Channels, NothingYet, GraphsGone, NoDispatch
  <2>2. TasksOf(results) = WorkItems(engine.candidate_ids, dispatch.dimensions)
    BY <1>4 DEF Finalize, AllBranchesBack, ResultsInv, ItemsOfTurn
  <2>3. ReportGetsWholeTurn'
    BY <1>4, <2>1, <2>2
    DEF Finalize, ResultsInv, ReturnedOnce, ReportGetsWholeTurn, TasksOf, WorkItems
  <2>4. node' \notin DispatchNodes \cup {"request_subgraph"}
    BY <1>4 DEF Finalize, DispatchNodes
  <2>5. NothingYet' /\ ItemsOfTurn'
    BY <1>4, <2>4
    DEF Finalize, NothingYet, ItemsOfTurn, GraphsGone, NoDispatch, DispatchNodes
  <2>6. ReturnedOnce'
    BY <1>4 DEF Finalize, GraphsGone, ReturnedOnce, Running
  <2> QED BY <2>1, <2>3, <2>5, <2>6 DEF ResultsInv
<1> QED BY <1>1, <1>2, <1>3, <1>4 DEF Branches

\* The evaluation graph, up to handing the results over.
LEMMA DispatchingKeepsResults == ResultsInv /\ Dispatching => ResultsInv'
<1> SUFFICES ASSUME ResultsInv, Dispatching PROVE ResultsInv'
  OBVIOUS
<1> DEFINE Leaves == /\ \E status : engine' = [engine EXCEPT !.dimensions = dispatch.dimensions,
                                      !.branch_results = dispatch.branch_results,
                                      !.status = status]
                     /\ node' = End /\ GraphsGone
<1>1. CASE Leaves
  <2>1. Channels'
    BY <1>1 DEF ResultsInv, Channels, GraphsGone, NoDispatch
  <2> QED BY <1>1, <2>1, NoneHeld
<1>2. CASE Raise
  BY <1>2, NoneHeld DEF Raise
<1>3. CASE ReceiveDispatch
  <2>1. dispatch'.branch_results = {} /\ Channels'
    BY <1>3 DEF ReceiveDispatch, ResultsInv, NothingYet, Channels, NoDispatch, DispatchNodes
  <2> QED BY <1>3, <2>1, DispatchGoesOn DEF ReceiveDispatch, DispatchNodes
<1>4. CASE GenerateDimensions
  <2>1. CASE Raise
    BY <2>1, <1>2
  <2>2. CASE ~Raise
    <3>1. dispatch'.branch_results = {} /\ Channels'
      BY <1>4, <2>2 DEF GenerateDimensions, ResultsInv, NothingYet, Channels
    <3> QED BY <1>4, <2>2, <3>1, DispatchGoesOn DEF GenerateDimensions, DispatchNodes
  <2> QED BY <2>1, <2>2
<1>5. CASE ValidateDimensions
  <2>1. CASE LeaveDispatch("dimension_invalid", End)
    BY <2>1, <1>1 DEF LeaveDispatch
  <2>2. CASE ~LeaveDispatch("dimension_invalid", End)
    <3>1. dispatch'.branch_results = {} /\ Channels'
      BY <1>5, <2>2 DEF ValidateDimensions, ResultsInv, NothingYet, Channels
    <3> QED BY <1>5, <2>2, <3>1, DispatchGoesOn DEF ValidateDimensions, DispatchNodes
  <2> QED BY <2>1, <2>2
<1>6. CASE PrepareWorkItems
  <2>1. CASE LeaveDispatch("capacity_exceeded", End)
    BY <2>1, <1>1 DEF LeaveDispatch
  <2>2. CASE ~LeaveDispatch("capacity_exceeded", End)
    <3>1. /\ dispatch' = [dispatch EXCEPT
                !.work_items = WorkItems(engine.candidate_ids, dispatch.dimensions),
                !.status = "work_items_ready"]
          /\ node = "prepare_work_items" /\ node' = "run_assessment_branch"
          /\ UNCHANGED <<turn, engine, calls, results>>
      BY <1>6, <2>2 DEF PrepareWorkItems
    <3>2. /\ dispatch'.branch_results = {} /\ Channels'
          /\ dispatch'.work_items = WorkItems(engine'.candidate_ids, dispatch'.dimensions)
      BY <3>1 DEF ResultsInv, NothingYet, Channels
    <3>3. NothingYet' /\ ItemsOfTurn'
      BY <3>1, <3>2 DEF ResultsInv, NothingYet, ItemsOfTurn, DispatchNodes
    <3>4. ReturnedOnce' /\ ReportGetsWholeTurn'
      BY <3>1 DEF ResultsInv, ReturnedOnce, ReportGetsWholeTurn, ReportNodes, Running
    <3> QED BY <3>2, <3>3, <3>4 DEF ResultsInv
  <2> QED BY <2>1, <2>2
<1>7. CASE Branches
  BY <1>7, BranchesKeepResults
<1> QED BY <1>3, <1>4, <1>5, <1>6, <1>7 DEF Dispatching

\* The report graph reads the results and does not change them.
LEMMA ReportingKeepsResults == ResultsInv /\ Reporting => ResultsInv'
<1> SUFFICES ASSUME ResultsInv, Reporting PROVE ResultsInv'
  OBVIOUS
<1>1. CASE Raise
  BY <1>1, NoneHeld DEF Raise
<1>2. CASE ValidateReport
  <2>1. CASE report.report_draft = report.ranking
    <3>1. Channels'
      BY <1>2, <2>1 DEF ValidateReport, ResultsInv, Channels, GraphsGone, NoDispatch
    <3> QED BY <1>2, <2>1, <3>1, NoneHeld DEF ValidateReport
  <2>2. CASE report.report_draft # report.ranking
    BY <1>1, <1>2, <2>2 DEF ValidateReport
  <2> QED BY <2>1, <2>2
<1>3. CASE ReceiveReport /\ ~Raise
  BY <1>3, ReportKeepsInput DEF ReceiveReport, ReportNodes, graphs
<1>4. CASE ScoreDimensions /\ ~Raise
  BY <1>4, ReportKeepsInput DEF ScoreDimensions, ReportNodes
<1>5. CASE ReviewConsistency /\ ~Raise
  BY <1>5, ReportKeepsInput DEF ReviewConsistency, ReportNodes
<1>6. CASE AggregateCandidates
  BY <1>6, ReportKeepsInput DEF AggregateCandidates, ReportNodes
<1>7. CASE ComposeReport /\ ~Raise
  BY <1>7, ReportKeepsInput DEF ComposeReport, ReportNodes
<1> QED BY <1>1, <1>2, <1>3, <1>4, <1>5, <1>6, <1>7 DEF Reporting

\* ResultsInv is inductive.
LEMMA ResultsStep == ResultsInv /\ [Next]_vars => ResultsInv'
<1> SUFFICES ASSUME ResultsInv, [Next]_vars PROVE ResultsInv'
  OBVIOUS
<1>1. CASE UNCHANGED <<turn, node, engine, graphs>>
  BY <1>1 DEF ResultsInv, Channels, NothingYet, ItemsOfTurn, ReturnedOnce,
              ReportGetsWholeTurn, Running, WorkItems, TasksOf, graphs
<1>2. CASE BeginTurn
  <2>1. /\ engine'.branch_results = {} /\ Channels' /\ dispatch'.branch_results = {}
        /\ results' = {} /\ Running' = {} /\ node' = "request_subgraph"
    BY <1>2 DEF BeginTurn, TurnReset, EmptyChannels, ResultsInv, Channels, NothingYet,
                ReturnedOnce, End, graphs, Running
  <2> QED BY <2>1
      DEF ResultsInv, NothingYet, ItemsOfTurn, ReturnedOnce, ReportGetsWholeTurn, ReportNodes
<1>3. CASE RequestSubgraph
  <2>1. engine'.branch_results = {} /\ Channels' /\ UNCHANGED <<turn, graphs>>
    BY <1>3 DEF RequestSubgraph, ResultsInv, Channels, NothingYet, graphs
  <2>2. node' \in {"receive_dispatch", End} /\ node = "request_subgraph"
    BY <1>3 DEF RequestSubgraph
  <2>3. results' = {} /\ Running' = {} /\ dispatch'.branch_results = {}
    BY <2>1, <2>2 DEF ResultsInv, ReturnedOnce, NothingYet, graphs, Running
  <2> QED BY <2>1, <2>2, <2>3
      DEF ResultsInv, NothingYet, ItemsOfTurn, ReturnedOnce, ReportGetsWholeTurn, ReportNodes,
          End
<1>4. CASE Dispatching
  BY <1>4, DispatchingKeepsResults
<1>5. CASE Reporting
  BY <1>5, ReportingKeepsResults
<1>6. CASE TimePasses \/ OtherCall \/ UNCHANGED vars
  BY <1>1, <1>6 DEF TimePasses, OtherCall, vars
<1> QED BY <1>2, <1>3, <1>4, <1>5, <1>6 DEF Next, Turn

(***************************************************************************)
(* The report graph gets one result of this turn for each candidate and    *)
(* dimension of this turn, and nothing else (begin_turn of the engine, the *)
(* added channel branch_results, the branches of the dispatch graph).      *)
(***************************************************************************)
THEOREM ReportInputIsWhole == Spec => []ReportGetsWholeTurn
<1>1. ResultsInv => ReportGetsWholeTurn
  BY DEF ResultsInv
<1> QED BY <1>1, ResultsInit, ResultsStep, PTL DEF Spec

-------------------------------------------------------------------------------
(***************************************************************************)
(* The scores of a turn.                                                   *)
(***************************************************************************)
ReportChannels ==
    report = [dimension_assessments |-> report.dimension_assessments,
              consistency_issues |-> report.consistency_issues,
              candidate_assessments |-> report.candidate_assessments,
              ranking |-> report.ranking, report_draft |-> report.report_draft]

\* Only the report graph assesses.
AssessedInReport == node \notin ReportNodes => report.dimension_assessments = {}

ScoresInv == ResultsInv /\ ReportChannels /\ AssessedInReport /\ ScoresAreBacked

\* The update of score_dimensions.
LEMMA AcceptedJudgements ==
    ASSUME NEW j \in Accepted, j.score # NoScore
    PROVE  j.evidence_status \in {"sufficient", "partial"}
<1>1. PICK k \in Judgement :
        /\ JudgementAccepted(k)
        /\ j = [evidence_status |-> k.evidence_status, score |-> k.score]
  BY DEF Accepted
<1>2. k.evidence_status \notin {"missing", "conflicting"}
  BY <1>1 DEF JudgementAccepted
<1>3. k.evidence_status \in {"sufficient", "partial", "missing", "conflicting"}
  BY DEF Judgement
<1> QED BY <1>1, <1>2, <1>3

\* Steps that leave assessments, results and turn alone, or clear the report.
LEMMA ScoresKept ==
    ASSUME ScoresInv, ReportChannels', AssessedInReport',
           \/ report'.dimension_assessments = {}
           \/ /\ report'.dimension_assessments = report.dimension_assessments
              /\ UNCHANGED <<turn, engine>>
    PROVE  ReportChannels' /\ AssessedInReport' /\ ScoresAreBacked'
BY DEF ScoresInv, ScoresAreBacked

\* A step that drops the report graph drops its assessments.
LEMMA ReportCleared ==
    ASSUME ScoresInv, report' = NoReporting
    PROVE  ReportChannels' /\ AssessedInReport' /\ ScoresAreBacked'
BY DEF ReportChannels, AssessedInReport, ScoresAreBacked, NoReporting

\* A step elsewhere leaves the assessments and what they rest on.
LEMMA ReportUntouched ==
    ASSUME ScoresInv, node \notin ReportNodes, UNCHANGED report
    PROVE  ReportChannels' /\ AssessedInReport' /\ ScoresAreBacked'
BY DEF ScoresInv, ReportChannels, AssessedInReport, ScoresAreBacked

\* ScoresInv is inductive: only score_dimensions makes assessments.
LEMMA ScoresStep == ScoresInv /\ [Next]_vars => ScoresInv'
<1> SUFFICES ASSUME ScoresInv, [Next]_vars
             PROVE  ReportChannels' /\ AssessedInReport' /\ ScoresAreBacked'
  BY ResultsStep DEF ScoresInv
<1>1. CASE UNCHANGED <<turn, node, engine, report>>
  BY <1>1, ScoresKept DEF ScoresInv, ReportChannels, AssessedInReport
<1>2. CASE TimePasses \/ OtherCall \/ UNCHANGED vars
  BY <1>1, <1>2 DEF TimePasses, OtherCall, vars, graphs
<1>3. CASE BeginTurn \/ RequestSubgraph
  BY <1>3, ReportUntouched DEF BeginTurn, RequestSubgraph, graphs, End, ReportNodes
<1>4. CASE Raise
  BY <1>4, ReportCleared DEF Raise, GraphsGone
<1>5. CASE Dispatching
  <2>1. CASE StartBranch \/ AskBreaker \/ CallReturns
    BY <1>1, <2>1 DEF StartBranch, AskBreaker, CallReturns
  <2>2. CASE BranchEnds \/ Finalize
    BY <1>1, <1>4, <2>2, ReportCleared DEF BranchEnds, Finalize, GraphsGone
  <2>3. CASE ReceiveDispatch \/ GenerateDimensions \/ ValidateDimensions \/ PrepareWorkItems
    BY <1>4, <2>3, ReportUntouched, ReportCleared
    DEF ReceiveDispatch, GenerateDimensions, ValidateDimensions, PrepareWorkItems,
        LeaveDispatch, GraphsGone, ReportNodes
  <2> QED BY <1>5, <2>1, <2>2, <2>3 DEF Dispatching, Branches
<1>6. CASE Reporting /\ ~Raise
  <2>1. CASE ReceiveReport
    <3>1. node' \in ReportNodes /\ UNCHANGED <<turn, engine, report>>
      BY <1>6, <2>1 DEF ReceiveReport, graphs, ReportNodes
    <3> QED BY <3>1, ScoresKept DEF ScoresInv, ReportChannels, AssessedInReport
  <2>2. CASE ScoreDimensions
    <3> DEFINE judged == {b \in engine.branch_results : b.facts}
    <3>1. PICK judgement \in [judged -> Accepted] :
            /\ report' = [report EXCEPT !.dimension_assessments =
                   {[task |-> b.task,
                     judgement |-> IF b.facts THEN judgement[b] ELSE Unjudged] :
                        b \in engine.branch_results}]
            /\ node' = "review_consistency"
            /\ UNCHANGED <<turn, engine>>
      BY <1>6, <2>2 DEF ScoreDimensions
    <3>2. report'.dimension_assessments =
            {[task |-> b.task, judgement |-> IF b.facts THEN judgement[b] ELSE Unjudged] :
                b \in engine.branch_results}
      BY <3>1 DEF ScoresInv, ReportChannels
    <3>3. ReportChannels' /\ AssessedInReport'
      BY <3>1 DEF ScoresInv, ReportChannels, AssessedInReport, ReportNodes
    <3>4. \A b \in engine.branch_results : b.turn = turn
      BY <2>2 DEF ScoreDimensions, ScoresInv, ResultsInv, ReportGetsWholeTurn, ReportNodes
    <3>5. ASSUME NEW a \in report'.dimension_assessments, a.judgement.score # NoScore
          PROVE  /\ a.judgement.evidence_status \in {"sufficient", "partial"}
                 /\ \E b \in engine.branch_results : b.task = a.task /\ b.facts /\ b.turn = turn
      <4>1. PICK b \in engine.branch_results :
              a = [task |-> b.task, judgement |-> IF b.facts THEN judgement[b] ELSE Unjudged]
        BY <3>2
      <4>2. b.facts
        BY <3>5, <4>1 DEF Unjudged
      <4>3. a.judgement = judgement[b] /\ judgement[b] \in Accepted
        BY <4>1, <4>2
      <4> QED BY <3>4, <3>5, <4>1, <4>2, <4>3, AcceptedJudgements
    <3>6. ScoresAreBacked'
      BY <3>1, <3>5 DEF ScoresAreBacked
    <3> QED BY <3>3, <3>6
  <2>3. CASE ReviewConsistency \/ AggregateCandidates \/ ComposeReport
    <3>1. /\ report'.dimension_assessments = report.dimension_assessments
          /\ ReportChannels' /\ node' \in ReportNodes /\ UNCHANGED <<turn, engine>>
      BY <1>6, <2>3
      DEF ReviewConsistency, AggregateCandidates, ComposeReport, ScoresInv, ReportChannels,
          ReportNodes
    <3> QED BY <3>1, ScoresKept DEF AssessedInReport
  <2>4. CASE ValidateReport
    BY <1>6, <2>4, ReportCleared DEF ValidateReport, GraphsGone
  <2> QED BY <1>6, <2>1, <2>2, <2>3, <2>4 DEF Reporting
<1> QED BY <1>2, <1>3, <1>4, <1>5, <1>6 DEF Next, Turn

(***************************************************************************)
(* Every score rests on a fact that a search of this turn found for this   *)
(* candidate and dimension, and nothing missing or in conflict is scored   *)
(* (score_branch and validate_dimension_judgement).                        *)
(***************************************************************************)
THEOREM ScoresRestOnFacts == Spec => []ScoresAreBacked
<1>1. Init => ScoresInv
  BY ResultsInit
  DEF Init, ScoresInv, ReportChannels, AssessedInReport, ScoresAreBacked, NoReporting
<1>2. ScoresInv => ScoresAreBacked
  BY DEF ScoresInv
<1> QED BY <1>1, <1>2, ScoresStep, PTL DEF Spec

-------------------------------------------------------------------------------
(***************************************************************************)
(* The ranking.  First sums: SumFunction takes its terms in the order of a *)
(* choice, which is the same for any two functions on one domain, so two   *)
(* sums can be compared term by term.                                      *)
(***************************************************************************)
\* Induction over the naturals, as a statement about sets.
LEMMA SetInduction ==
    ASSUME NEW S, 0 \in S, \A n \in Nat : n \in S => n + 1 \in S
    PROVE  Nat \subseteq S
<1> DEFINE T == Nat \ S
<1>1. SUFFICES ASSUME T # {} PROVE FALSE
  OBVIOUS
<1>2. \E x \in T : \A y \in T : ~(<<y, x>> \in OpToRel(<, Nat))
  <2>1. T \subseteq Nat
    OBVIOUS
  <2> HIDE DEF T
  <2> QED BY <1>1, <2>1, WFMin, NatLessThanWellFounded
<1>3. PICK x \in T : \A y \in T : ~(y < x)
  BY <1>2 DEF OpToRel
<1>4. x # 0 /\ x - 1 \in Nat /\ x - 1 < x /\ x - 1 + 1 = x
  BY <1>3
<1>5. x - 1 \in S
  BY <1>3, <1>4
<1> QED BY <1>4, <1>5

Pick(s) == CHOOSE x \in s : TRUE

\* F adds up f over the subsets of D with at most n elements.
AddsUp(F, f, D, n) ==
    \A s \in SUBSET D : Cardinality(s) <= n =>
        F[s] = IF s = {} THEN 0 ELSE f[Pick(s)] + F[s \ {Pick(s)}]

\* What is left of a set when an element is picked.
LEMMA PickedOut ==
    ASSUME NEW D, IsFiniteSet(D), NEW s \in SUBSET D
    PROVE  /\ IsFiniteSet(s) /\ Cardinality(s) \in Nat
           /\ Cardinality(s) = 0 <=> s = {}
           /\ s # {} => /\ Pick(s) \in s
                        /\ Cardinality(s \ {Pick(s)}) = Cardinality(s) - 1
<1>1. IsFiniteSet(s)
  BY FS_Subset
<1>2. Cardinality(s) \in Nat /\ (Cardinality(s) = 0 <=> s = {})
  BY <1>1, FS_CardinalityType, FS_EmptySet
<1>3. s # {} => Pick(s) \in s
  BY DEF Pick
<1> QED BY <1>1, <1>2, <1>3, FS_RemoveElement

\* F does so for all of them.
Sums(F, f, D) ==
    F = [s \in SUBSET D |-> IF s = {} THEN 0 ELSE f[Pick(s)] + F[s \ {Pick(s)}]]

\* There is such an F.
LEMMA SumsExist ==
    ASSUME NEW D, IsFiniteSet(D), NEW f
    PROVE  \E F : Sums(F, f, D)
<1> DEFINE S == {n \in Nat : \E F : F = [s \in SUBSET D |-> F[s]] /\ AddsUp(F, f, D, n)}
<1>1. 0 \in S
  <2> DEFINE F == [s \in SUBSET D |-> 0]
  <2>1. AddsUp(F, f, D, 0)
    <3>1. ASSUME NEW s \in SUBSET D, Cardinality(s) <= 0 PROVE s = {}
      <4>1. Cardinality(s) \in Nat
        BY PickedOut
      <4>2. Cardinality(s) = 0
        BY <3>1, <4>1
      <4> QED BY <4>2, PickedOut
    <3> QED BY <3>1 DEF AddsUp
  <2>2. F = [s \in SUBSET D |-> F[s]]
    OBVIOUS
  <2> HIDE DEF F
  <2> QED BY <2>1, <2>2
<1>2. ASSUME NEW n \in Nat, n \in S PROVE n + 1 \in S
  <2>1. PICK F : AddsUp(F, f, D, n)
    BY <1>2
  <2> DEFINE G == [s \in SUBSET D |-> IF Cardinality(s) <= n THEN F[s]
                                      ELSE f[Pick(s)] + F[s \ {Pick(s)}]]
  <2>2. ASSUME NEW s \in SUBSET D, Cardinality(s) <= n + 1
        PROVE  G[s] = IF s = {} THEN 0 ELSE f[Pick(s)] + G[s \ {Pick(s)}]
    <3>1. CASE s = {}
      <4>1. Cardinality(s) <= n
        BY <3>1, FS_EmptySet
      <4> QED BY <2>1, <3>1, <4>1 DEF AddsUp
    <3>2. CASE s # {}
      <4>1. /\ s \ {Pick(s)} \in SUBSET D
            /\ Cardinality(s) \in Nat /\ Cardinality(s \ {Pick(s)}) = Cardinality(s) - 1
        BY <3>2, PickedOut
      <4>2. G[s \ {Pick(s)}] = F[s \ {Pick(s)}]
        BY <2>2, <4>1
      <4>3. G[s] = f[Pick(s)] + F[s \ {Pick(s)}]
        BY <2>1, <3>2 DEF AddsUp
      <4> QED BY <3>2, <4>2, <4>3
    <3> QED BY <3>1, <3>2
  <2>3. G = [s \in SUBSET D |-> G[s]]
    OBVIOUS
  <2> HIDE DEF G
  <2>4. AddsUp(G, f, D, n + 1)
    BY <2>2 DEF AddsUp
  <2> QED BY <2>3, <2>4
<1>3. Cardinality(D) \in S
  <2> HIDE DEF S
  <2> QED BY <1>1, <1>2, SetInduction, FS_CardinalityType
<1>4. PICK F : F = [s \in SUBSET D |-> F[s]] /\ AddsUp(F, f, D, Cardinality(D))
  BY <1>3
<1>5. \A s \in SUBSET D : Cardinality(s) <= Cardinality(D)
  BY FS_Subset
<1>6. \A s \in SUBSET D : F[s] = IF s = {} THEN 0 ELSE f[Pick(s)] + F[s \ {Pick(s)}]
  BY <1>4, <1>5 DEF AddsUp
<1>7. F = [s \in SUBSET D |-> IF s = {} THEN 0 ELSE f[Pick(s)] + F[s \ {Pick(s)}]]
  BY <1>4, <1>6, Zenon
<1> QED BY <1>7, Zenon DEF Sums

\* SumFunction is the value of such an F.
LEMMA SumAddsUp ==
    ASSUME NEW D, IsFiniteSet(D), NEW f, DOMAIN f = D
    PROVE  \E F : SumFunction(f) = F[D] /\ Sums(F, f, D)
<1> DEFINE P(F) == F = [s \in SUBSET D |-> IF s = {} THEN 0 ELSE f[Pick(s)] + F[s \ {Pick(s)}]]
           G == CHOOSE F : P(F)
<1>1. P(G)
  <2>1. \E F : Sums(F, f, D)
    BY SumsExist
  <2>2. \E F : P(F)
    BY <2>1, Zenon DEF Sums
  <2> QED BY <2>2, Zenon
<1>2. SumFunction(f) = G[D]
  BY Zenon DEF SumFunction, SumFunctionOnSet, FoldFunctionOnSet, MapThenFoldSet, Pick
<1> QED BY <1>1, <1>2, Zenon DEF Sums

\* A sum of naturals is one; larger terms make a larger sum.
LEMMA SumsCompare ==
    ASSUME NEW D, IsFiniteSet(D), NEW f \in [D -> Nat], NEW g \in [D -> Nat],
           \A d \in D : f[d] <= g[d]
    PROVE  /\ SumFunction(f) \in Nat /\ SumFunction(g) \in Nat
           /\ SumFunction(f) <= SumFunction(g)
           /\ (\E d \in D : f[d] < g[d]) => SumFunction(f) < SumFunction(g)
<1>1. PICK F : SumFunction(f) = F[D] /\ Sums(F, f, D)
  <2>1. DOMAIN f = D
    OBVIOUS
  <2> QED BY <2>1, SumAddsUp
<1>2. PICK G : SumFunction(g) = G[D] /\ Sums(G, g, D)
  <2>1. DOMAIN g = D
    OBVIOUS
  <2> QED BY <2>1, SumAddsUp
<1>3. /\ \A s \in SUBSET D : F[s] = IF s = {} THEN 0 ELSE f[Pick(s)] + F[s \ {Pick(s)}]
      /\ \A s \in SUBSET D : G[s] = IF s = {} THEN 0 ELSE g[Pick(s)] + G[s \ {Pick(s)}]
  BY <1>1, <1>2 DEF Sums
<1> DEFINE Less(s) == /\ F[s] \in Nat /\ G[s] \in Nat /\ F[s] <= G[s]
                      /\ (\E d \in s : f[d] < g[d]) => F[s] < G[s]
           S == {n \in Nat : \A s \in SUBSET D : Cardinality(s) = n => Less(s)}
<1>4. 0 \in S
  <2>1. ASSUME NEW s \in SUBSET D, Cardinality(s) = 0 PROVE Less(s)
    <3>1. s = {}
      BY <2>1, PickedOut
    <3>2. F[s] = 0 /\ G[s] = 0
      BY <1>3, <3>1
    <3> QED BY <3>1, <3>2
  <2> HIDE DEF Less
  <2> QED BY <2>1
<1>5. ASSUME NEW n \in Nat, n \in S PROVE n + 1 \in S
  <2>1. ASSUME NEW s \in SUBSET D, Cardinality(s) = n + 1 PROVE Less(s)
    <3> DEFINE x == Pick(s)
               r == s \ {x}
    <3>1. s # {} /\ x \in s /\ x \in D /\ r \in SUBSET D /\ Cardinality(r) = n
      BY <2>1, PickedOut
    <3>2. Less(r)
      BY <1>5, <3>1
    <3>3. F[s] = f[x] + F[r] /\ G[s] = g[x] + G[r]
      BY <1>3, <3>1
    <3>4. \A d \in s : d = x \/ d \in r
      OBVIOUS
    <3>5. f[x] \in Nat /\ g[x] \in Nat /\ f[x] <= g[x]
      BY <3>1
    <3> HIDE DEF x, r
    <3> QED BY <3>2, <3>3, <3>4, <3>5
  <2> HIDE DEF Less
  <2> QED BY <2>1
<1>6. Less(D)
  <2>1. Cardinality(D) \in S
    <3> HIDE DEF S
    <3> QED BY <1>4, <1>5, SetInduction, FS_CardinalityType
  <2> HIDE DEF Less
  <2> QED BY <2>1
<1> QED BY <1>1, <1>2, <1>6

\* What the order of the ranking compares.
HasRank(a) ==
    /\ a.confirmed_score \in Nat /\ a.evidence_coverage_percent \in Nat
    /\ a.candidate_id \in Nat

\* It is a strict order, total on assessments of different candidates.
LEMMA RanksBeforeOrders ==
    ASSUME NEW a, NEW b, HasRank(a), HasRank(b)
    PROVE  /\ RanksBefore(a, b) => ~RanksBefore(b, a)
           /\ a.candidate_id # b.candidate_id => RanksBefore(a, b) \/ RanksBefore(b, a)
           /\ \A c : HasRank(c) /\ RanksBefore(c, a) /\ RanksBefore(a, b) => RanksBefore(c, b)
BY DEF RanksBefore, HasRank

\* An assessment stands behind as many others as rank before it.
LEMMA RankedSorts ==
    ASSUME NEW A, IsFiniteSet(A), \A a \in A : HasRank(a),
           \A a, b \in A : a.candidate_id = b.candidate_id => a = b
    PROVE  /\ Ranked(A) \in [1..Cardinality(A) -> A]
           /\ \A i, j \in 1..Cardinality(A) :
                  i < j => RanksBefore(Ranked(A)[i], Ranked(A)[j])
<1> DEFINE n == Cardinality(A)
           Sorted(q) == \A i, j \in DOMAIN q : i < j => RanksBefore(q[i], q[j])
<1>1. n \in Nat /\ ExistsBijection(1..n, A)
  BY FS_CardinalityType
<1> HIDE DEF n
<1>2. PICK s \in [1..n -> A] : \A i, j \in 1..n : s[i] = s[j] => i = j
  BY <1>1 DEF ExistsBijection, Bijection, Injection, IsInjective
<1>3. IsFiniteSet(1..n) /\ Cardinality(1..n) = n
  BY <1>1, FS_Interval
<1> DEFINE Behind(k) == {j \in 1..n : RanksBefore(s[j], s[k])}
           rank == [k \in 1..n |-> Cardinality(Behind(k)) + 1]
<1>4. \A k \in 1..n : HasRank(s[k])
  BY <1>2
<1>5. ASSUME NEW k \in 1..n
      PROVE  Behind(k) \subseteq (1..n) \ {k} /\ IsFiniteSet(Behind(k))
             /\ Cardinality(Behind(k)) \in Nat
  <2>1. ~RanksBefore(s[k], s[k])
    BY <1>4, RanksBeforeOrders
  <2>2. IsFiniteSet(Behind(k))
    BY <1>3, FS_Subset
  <2> QED BY <2>1, <2>2, FS_CardinalityType
<1>6. ASSUME NEW j \in 1..n, NEW k \in 1..n, RanksBefore(s[j], s[k])
      PROVE  rank[j] < rank[k]
  <2>1. Behind(j) \subseteq Behind(k)
    <3>1. ASSUME NEW i \in 1..n, RanksBefore(s[i], s[j]) PROVE RanksBefore(s[i], s[k])
      BY <1>4, <1>6, <3>1, RanksBeforeOrders
    <3> QED BY <3>1
  <2>2. j \in Behind(k) /\ j \notin Behind(j)
    BY <1>5, <1>6
  <2>3. IsFiniteSet(Behind(k)) /\ Cardinality(Behind(j)) \in Nat /\ Cardinality(Behind(k)) \in Nat
    BY <1>5
  <2> HIDE DEF Behind
  <2>4. Cardinality(Behind(j)) <= Cardinality(Behind(k))
        /\ Cardinality(Behind(j)) # Cardinality(Behind(k))
    BY <2>1, <2>2, <2>3, FS_Subset
  <2> QED BY <2>3, <2>4
<1>7. rank \in [1..n -> 1..n]
  <2>1. ASSUME NEW k \in 1..n PROVE Cardinality(Behind(k)) + 1 \in 1..n
    <3>1. IsFiniteSet((1..n) \ {k}) /\ Cardinality((1..n) \ {k}) = n - 1
      BY <1>3, FS_RemoveElement
    <3>2. Cardinality(Behind(k)) <= n - 1
      BY <1>5, <3>1, FS_Subset
    <3> HIDE DEF Behind
    <3> QED BY <1>1, <1>5, <3>2
  <2> HIDE DEF Behind
  <2> QED BY <2>1
<1> HIDE DEF rank
<1>8. ASSUME NEW j \in 1..n, NEW k \in 1..n, rank[j] = rank[k] PROVE j = k
  <2> rank[j] \in Int
    BY <1>1, <1>7
  <2>1. ~RanksBefore(s[j], s[k]) /\ ~RanksBefore(s[k], s[j])
    BY <1>6, <1>8
  <2>2. s[j] = s[k]
    BY <1>2, <1>4, <2>1, RanksBeforeOrders
  <2> QED BY <1>2, <2>2
<1>9. \A i \in 1..n : \E k \in 1..n : rank[k] = i
  <2>1. rank \in Injection(1..n, 1..n)
    BY <1>7, <1>8 DEF Injection, IsInjective
  <2>2. rank \in Surjection(1..n, 1..n)
    BY <1>3, <2>1, FS_Injection
  <2> QED BY <2>2 DEF Surjection
<1> DEFINE place == [i \in 1..n |-> CHOOSE k \in 1..n : rank[k] = i]
           q == [i \in 1..n |-> s[place[i]]]
<1>10. \A i \in 1..n : place[i] \in 1..n /\ rank[place[i]] = i
  BY <1>9
<1> HIDE DEF place
<1>11. q \in [1..n -> A] /\ Sorted(q)
  <2>1. ASSUME NEW i \in 1..n, NEW j \in 1..n, i < j
        PROVE  RanksBefore(s[place[i]], s[place[j]])
    <3>1. place[i] # place[j] /\ ~RanksBefore(s[place[j]], s[place[i]])
      BY <1>6, <1>10, <2>1
    <3>2. s[place[i]] # s[place[j]]
      BY <1>2, <1>10, <3>1
    <3> QED BY <1>2, <1>4, <1>10, <3>1, <3>2, RanksBeforeOrders
  <2> QED BY <1>2, <1>10, <2>1
<1>12. Ranked(A) = CHOOSE p \in [1..n -> A] : Sorted(p)
  BY DEF Ranked, n
<1>13. Ranked(A) \in [1..n -> A] /\ Sorted(Ranked(A))
  <2> HIDE DEF Sorted, q
  <2> QED BY <1>11, <1>12
<1> QED BY <1>13 DEF n

\* What the assessment of a candidate is computed from.
Judged ==
    /\ engine.dimensions \in Seq(Dimension)
    /\ TasksOf(report.dimension_assessments) = engine.candidate_ids \X Positions
    /\ \A a \in report.dimension_assessments : a.judgement.score \in Scores \cup {NoScore}

\* Every candidate has a score, or none, for every dimension.
LEMMA EveryScore ==
    ASSUME Judged, NEW c \in engine.candidate_ids, NEW d \in Positions
    PROVE  /\ JudgementOf(c, d).score \in Int
           /\ JudgementOf(c, d).score = NoScore \/ JudgementOf(c, d).score \in 0..5
           /\ engine.dimensions[d].weight_percent \in 1..100
<1>1. <<c, d>> \in TasksOf(report.dimension_assessments)
  BY DEF Judged
<1>2. \E a \in report.dimension_assessments : a.task = <<c, d>>
  BY <1>1 DEF TasksOf
<1>3. JudgementOf(c, d).score \in Scores \cup {NoScore}
  BY <1>2 DEF JudgementOf, Judged
<1>4. Scores \subseteq 0..5
  BY EvaluationAssumption
<1>5. engine.dimensions[d] \in Dimension
  BY DEF Judged, Positions
<1>6. engine.dimensions[d].weight_percent \in 1..100
  BY <1>5 DEF Dimension
<1>7. JudgementOf(c, d).score = NoScore \/ JudgementOf(c, d).score \in 0..5
  BY <1>3, <1>4
<1> QED BY <1>6, <1>7 DEF NoScore

\* The terms of the two sums of a candidate that the order compares.
Points(c) ==
    [d \in Positions |->
        IF JudgementOf(c, d).score # NoScore
        THEN engine.dimensions[d].weight_percent * JudgementOf(c, d).score ELSE 0]
Covered(c) ==
    [d \in Positions |->
        IF JudgementOf(c, d).score # NoScore
        THEN engine.dimensions[d].weight_percent ELSE 0]

\* The score of an assessment is the sum over its dimensions.
LEMMA AssessmentSums ==
    ASSUME NEW c
    PROVE  /\ CandidateAssessment(c).candidate_id = c
           /\ CandidateAssessment(c).confirmed_score = SumFunction(Points(c))
           /\ CandidateAssessment(c).evidence_coverage_percent = SumFunction(Covered(c))
<1> DEFINE scored == {d \in Positions : JudgementOf(c, d).score # NoScore}
<1>1. Points(c) = [d \in Positions |->
            IF d \in scored
            THEN engine.dimensions[d].weight_percent * JudgementOf(c, d).score ELSE 0]
  BY DEF Points
<1>2. Covered(c) = [d \in DOMAIN engine.dimensions |->
            IF d \in scored THEN engine.dimensions[d].weight_percent ELSE 0]
  BY DEF Covered, Positions
<1>3. WeightOf(engine.dimensions, scored) = SumFunction(Covered(c))
  BY <1>2, Zenon DEF WeightOf
<1>4. /\ CandidateAssessment(c).candidate_id = c
      /\ CandidateAssessment(c).confirmed_score = SumFunction([d \in Positions |->
            IF d \in scored
            THEN engine.dimensions[d].weight_percent * JudgementOf(c, d).score ELSE 0])
      /\ CandidateAssessment(c).evidence_coverage_percent = WeightOf(engine.dimensions, scored)
  BY DEF CandidateAssessment
<1> HIDE DEF scored
<1> QED BY <1>1, <1>3, <1>4

\* Their terms are naturals.
LEMMA TermsAreNat ==
    ASSUME Judged, NEW c \in engine.candidate_ids
    PROVE  Points(c) \in [Positions -> Nat] /\ Covered(c) \in [Positions -> Nat]
<1>1. ASSUME NEW d \in Positions, JudgementOf(c, d).score # NoScore
      PROVE  engine.dimensions[d].weight_percent * JudgementOf(c, d).score \in Nat
  <2>1. \A w \in 1..100, x \in 0..5 : w * x \in Nat
    OBVIOUS
  <2>2. engine.dimensions[d].weight_percent \in 1..100 /\ JudgementOf(c, d).score \in 0..5
    BY <1>1, EveryScore
  <2> QED BY <2>1, <2>2
<1>2. \A d \in Positions : engine.dimensions[d].weight_percent \in Nat
  BY EveryScore
<1> QED BY <1>1, <1>2 DEF Points, Covered

\* What dominates has at least as much of both, and more of one.
LEMMA TermsCompare ==
    ASSUME Judged, NEW a \in engine.candidate_ids, NEW b \in engine.candidate_ids,
           NEW d \in Positions, JudgementOf(a, d).score >= JudgementOf(b, d).score
    PROVE  /\ Points(b)[d] <= Points(a)[d] /\ Covered(b)[d] <= Covered(a)[d]
           /\ JudgementOf(a, d).score > JudgementOf(b, d).score =>
                  Points(b)[d] < Points(a)[d] \/ Covered(b)[d] < Covered(a)[d]
<1> DEFINE w == engine.dimensions[d].weight_percent
           x == JudgementOf(a, d).score
           y == JudgementOf(b, d).score
<1>1. /\ w \in 1..100
      /\ x \in Int /\ (x = NoScore \/ x \in 0..5)
      /\ y \in Int /\ (y = NoScore \/ y \in 0..5)
  BY EveryScore
<1>2. /\ Points(a)[d] = IF x # NoScore THEN w * x ELSE 0
      /\ Points(b)[d] = IF y # NoScore THEN w * y ELSE 0
      /\ Covered(a)[d] = IF x # NoScore THEN w ELSE 0
      /\ Covered(b)[d] = IF y # NoScore THEN w ELSE 0
  BY DEF Points, Covered
<1>3. x >= y
  OBVIOUS
<1> HIDE DEF w, x, y
<1>4. CASE y = NoScore
  <2>1. x # NoScore => w * x >= 0
    BY <1>1
  <2>2. x > y => x # NoScore
    BY <1>1, <1>4
  <2> QED BY <1>1, <1>2, <1>4, <2>1, <2>2 DEF x, y
<1>5. CASE y # NoScore
  <2>1. x # NoScore /\ x \in 0..5 /\ y \in 0..5
    BY <1>1, <1>3, <1>5 DEF NoScore
  <2>2. w * y <= w * x /\ (x > y => w * y < w * x)
    BY <1>1, <1>3, <2>1
  <2> QED BY <1>1, <1>2, <1>5, <2>1, <2>2 DEF x, y
<1> QED BY <1>4, <1>5

\* An assessment has finitely many dimensions.
LEMMA FinitePositions == ASSUME Judged PROVE IsFiniteSet(Positions)
<1> DEFINE n == Len(engine.dimensions)
<1>1. Positions = 1..n /\ n \in Int
  BY DEF Judged, Positions
<1> HIDE DEF n
<1>2. IsFiniteSet(1..n)
  BY <1>1, FS_Interval
<1> QED BY <1>1, <1>2

\* Assessments are comparable.
LEMMA AssessmentsHaveRanks ==
    ASSUME Judged, engine.candidate_ids \subseteq Candidates, NEW c \in engine.candidate_ids
    PROVE  HasRank(CandidateAssessment(c))
<1>1. IsFiniteSet(Positions)
  BY FinitePositions
<1>2. \A d \in Positions : Points(c)[d] <= Points(c)[d] /\ Covered(c)[d] <= Covered(c)[d]
  BY TermsAreNat
<1>3. SumFunction(Points(c)) \in Nat /\ SumFunction(Covered(c)) \in Nat
  BY <1>1, <1>2, TermsAreNat, SumsCompare
<1>4. c \in Nat
  BY EvaluationAssumption
<1> QED BY <1>3, <1>4, AssessmentSums DEF HasRank

\* A candidate that dominates another ranks before it.
LEMMA DominanceRanks ==
    ASSUME Judged, engine.candidate_ids \subseteq Candidates,
           NEW a \in engine.candidate_ids, NEW b \in engine.candidate_ids, Dominates(a, b)
    PROVE  RanksBefore(CandidateAssessment(a), CandidateAssessment(b))
<1>1. IsFiniteSet(Positions)
  BY FinitePositions
<1>2. /\ Points(a) \in [Positions -> Nat] /\ Points(b) \in [Positions -> Nat]
      /\ Covered(a) \in [Positions -> Nat] /\ Covered(b) \in [Positions -> Nat]
  BY TermsAreNat
<1>3. \A d \in Positions : Points(b)[d] <= Points(a)[d] /\ Covered(b)[d] <= Covered(a)[d]
  BY TermsCompare DEF Dominates
<1>4. PICK d \in Positions :
        Points(b)[d] < Points(a)[d] \/ Covered(b)[d] < Covered(a)[d]
  BY TermsCompare DEF Dominates
<1>5. /\ SumFunction(Points(a)) \in Nat /\ SumFunction(Points(b)) \in Nat
      /\ SumFunction(Points(b)) <= SumFunction(Points(a))
      /\ Points(b)[d] < Points(a)[d] => SumFunction(Points(b)) < SumFunction(Points(a))
  BY <1>1, <1>2, <1>3, SumsCompare
<1>6. /\ SumFunction(Covered(a)) \in Nat /\ SumFunction(Covered(b)) \in Nat
      /\ SumFunction(Covered(b)) <= SumFunction(Covered(a))
      /\ Covered(b)[d] < Covered(a)[d] => SumFunction(Covered(b)) < SumFunction(Covered(a))
  BY <1>1, <1>2, <1>3, SumsCompare
<1> QED BY <1>4, <1>5, <1>6, AssessmentSums DEF RanksBefore

AssessedNodes ==
    {"review_consistency", "aggregate_candidates", "compose_report", "validate_report"}

\* Candidates and dimensions of the turn.
TurnTyped ==
    /\ engine.candidate_ids \subseteq Candidates
    /\ engine.dimensions \in Seq(Dimension) /\ dispatch.dimensions \in Seq(Dimension)

\* The assessments are complete once they are made, and the ranking is of them.
RankingInv ==
    /\ ScoresInv /\ TurnTyped
    /\ node \in AssessedNodes => Judged
    /\ node \notin {"compose_report", "validate_report"} => report.ranking = <<>>
    /\ RankingRespectsScores

\* aggregate_candidates puts candidates in the order of their assessments.
LEMMA AggregateRanks ==
    ASSUME RankingInv, AggregateCandidates
    PROVE  RankingRespectsScores'
<1> DEFINE ids == Assessed(report.dimension_assessments)
           A == {CandidateAssessment(c) : c \in ids}
           ranked == Ranked(A)
<1>1. /\ Judged /\ engine.candidate_ids \subseteq Candidates
      /\ report'.ranking = [i \in DOMAIN ranked |-> ranked[i].candidate_id]
      /\ report'.dimension_assessments = report.dimension_assessments /\ engine' = engine
  BY DEF RankingInv, AggregateCandidates, AssessedNodes, TurnTyped, ScoresInv, ReportChannels
<1>2. ids \subseteq engine.candidate_ids
  <2>1. ASSUME NEW r \in report.dimension_assessments PROVE r.task[1] \in engine.candidate_ids
    <3>1. r.task \in engine.candidate_ids \X Positions
      BY <1>1 DEF Judged, TasksOf
    <3> QED BY <3>1
  <2> QED BY <2>1 DEF Assessed
<1> HIDE DEF ids
<1>3. IsFiniteSet(A)
  <2> DEFINE f == [c \in ids |-> CandidateAssessment(c)]
  <2>1. IsFiniteSet(ids)
    BY <1>1, <1>2, EvaluationAssumption, FS_Subset
  <2>2. f \in Surjection(ids, A)
    BY DEF Surjection
  <2> QED BY <2>1, <2>2, FS_Surjection
<1>4. ASSUME NEW a \in A
      PROVE  a.candidate_id \in ids /\ a = CandidateAssessment(a.candidate_id) /\ HasRank(a)
  BY <1>1, <1>2, AssessmentSums, AssessmentsHaveRanks
<1>5. \A a, b \in A : a.candidate_id = b.candidate_id => a = b
  BY <1>4
<1> HIDE DEF A
<1>6. /\ ranked \in [1..Cardinality(A) -> A]
      /\ \A i, j \in 1..Cardinality(A) : i < j => RanksBefore(ranked[i], ranked[j])
  BY <1>3, <1>4, <1>5, RankedSorts
<1>7. Cardinality(A) \in Nat
  BY <1>3, FS_CardinalityType
<1> HIDE DEF ranked
<1>8. ASSUME NEW i \in DOMAIN report'.ranking, NEW j \in DOMAIN report'.ranking,
             Dominates(report'.ranking[i], report'.ranking[j])
      PROVE  i < j
  <2>1. /\ i \in 1..Cardinality(A) /\ j \in 1..Cardinality(A)
        /\ ranked[i] \in A /\ ranked[j] \in A
        /\ report'.ranking[i] = ranked[i].candidate_id
        /\ report'.ranking[j] = ranked[j].candidate_id
    BY <1>1, <1>6
  <2>2. RanksBefore(ranked[i], ranked[j])
    BY <1>1, <1>2, <1>4, <1>8, <2>1, DominanceRanks
  <2>3. ~RanksBefore(ranked[j], ranked[i])
    BY <1>4, <2>1, <2>2, RanksBeforeOrders
  <2>4. i # j /\ ~(j < i)
    BY <1>6, <2>1, <2>2, <2>3
  <2> QED BY <1>7, <2>1, <2>4
<1>9. \A a, b : Dominates(a, b)' = Dominates(a, b)
  BY <1>1 DEF Dominates, JudgementOf, Positions
<1> QED BY <1>8, <1>9 DEF RankingRespectsScores

\* score_dimensions assesses every candidate in every dimension.
LEMMA ScoringJudges ==
    ASSUME RankingInv, ScoreDimensions, node' = "review_consistency"
    PROVE  Judged'
<1> DEFINE judged == {b \in engine.branch_results : b.facts}
<1>1. PICK judgement \in [judged -> Accepted] :
        /\ report' = [report EXCEPT !.dimension_assessments =
               {[task |-> b.task,
                 judgement |-> IF b.facts THEN judgement[b] ELSE Unjudged] :
                    b \in engine.branch_results}]
        /\ UNCHANGED engine
  BY DEF ScoreDimensions, Raise, End
<1>2. report'.dimension_assessments =
        {[task |-> b.task, judgement |-> IF b.facts THEN judgement[b] ELSE Unjudged] :
            b \in engine.branch_results}
  BY <1>1 DEF RankingInv, ScoresInv, ReportChannels
<1>3. TasksOf(engine.branch_results) = engine.candidate_ids \X Positions
  BY DEF RankingInv, ScoresInv, ResultsInv, ReportGetsWholeTurn, ReportNodes, ScoreDimensions,
         WorkItems, Positions
<1>4. TasksOf(report'.dimension_assessments) = TasksOf(engine.branch_results)
  <2> DEFINE Given(b) ==
        [task |-> b.task, judgement |-> IF b.facts THEN judgement[b] ELSE Unjudged]
  <2>1. \A b \in engine.branch_results : Given(b).task = b.task
    OBVIOUS
  <2>2. report'.dimension_assessments = {Given(b) : b \in engine.branch_results}
    BY <1>2
  <2> HIDE DEF Given
  <2> QED BY <2>1, <2>2 DEF TasksOf
<1>5. ASSUME NEW j \in Accepted PROVE j.score \in Scores \cup {NoScore}
  BY DEF Accepted, Judgement
<1>6. ASSUME NEW a \in report'.dimension_assessments
      PROVE  a.judgement.score \in Scores \cup {NoScore}
  <2>1. PICK b \in engine.branch_results :
          a = [task |-> b.task, judgement |-> IF b.facts THEN judgement[b] ELSE Unjudged]
    BY <1>2
  <2>2. CASE b.facts
    <3>1. a.judgement = judgement[b] /\ judgement[b] \in Accepted
      BY <2>1, <2>2
    <3> QED BY <1>5, <3>1
  <2>3. CASE ~b.facts
    BY <2>1, <2>3 DEF Unjudged
  <2> QED BY <2>2, <2>3
<1>7. engine.dimensions \in Seq(Dimension)
  BY DEF RankingInv, TurnTyped
<1> QED BY <1>1, <1>3, <1>4, <1>6, <1>7 DEF Judged, Positions

\* What RankingInv adds to ScoresInv.
RankingParts ==
    /\ TurnTyped
    /\ node \in AssessedNodes => Judged
    /\ node \notin {"compose_report", "validate_report"} => report.ranking = <<>>
    /\ RankingRespectsScores

\* Steps that leave the assessments and the ranking.
LEMMA RankingKept ==
    ASSUME RankingInv, UNCHANGED engine, dispatch'.dimensions = dispatch.dimensions,
           report'.dimension_assessments = report.dimension_assessments,
           report'.ranking = report.ranking,
           \/ node' = node
           \/ node = "review_consistency" /\ node' = "aggregate_candidates"
           \/ node = "compose_report" /\ node' = "validate_report"
           \/ node \notin AssessedNodes /\ node' \notin AssessedNodes
    PROVE  RankingParts'
<1>1. TurnTyped'
  BY DEF RankingInv, TurnTyped
<1>2. Judged => Judged'
  BY DEF Judged, Positions
<1>3. node' \in AssessedNodes => Judged'
  BY <1>2 DEF RankingInv, AssessedNodes
<1>4. node' \notin {"compose_report", "validate_report"} => report'.ranking = <<>>
  BY DEF RankingInv, AssessedNodes
<1>5. \A a, b : Dominates(a, b)' = Dominates(a, b)
  BY DEF Dominates, JudgementOf, Positions
<1>6. RankingRespectsScores'
  BY <1>5 DEF RankingInv, RankingRespectsScores
<1> QED BY <1>1, <1>3, <1>4, <1>6 DEF RankingParts

\* Steps without a ranking before or after the report graph.
LEMMA NotRankedYet ==
    ASSUME report'.ranking = <<>>, TurnTyped', node' \notin AssessedNodes
    PROVE  RankingParts'
BY DEF RankingParts, RankingRespectsScores

\* The end of the sub-graphs.
LEMMA GraphsGoneRanks ==
    ASSUME RankingInv, GraphsGone, node' \notin AssessedNodes,
           engine'.candidate_ids = engine.candidate_ids,
           engine'.dimensions \in {engine.dimensions, dispatch.dimensions}
    PROVE  RankingParts'
<1>1. report'.ranking = <<>> /\ dispatch'.dimensions = <<>>
  BY DEF GraphsGone, NoReporting, NoDispatch
<1>2. TurnTyped'
  BY <1>1 DEF RankingInv, TurnTyped
<1> QED BY <1>1, <1>2, NotRankedYet

\* RankingInv is inductive.
LEMMA RankingStep == RankingInv /\ [Next]_vars => RankingInv'
<1> SUFFICES ASSUME RankingInv, [Next]_vars PROVE RankingParts'
  BY ScoresStep DEF RankingInv, RankingParts
<1>1. /\ TurnTyped /\ ReportChannels /\ Channels
      /\ node \notin {"compose_report", "validate_report"} => report.ranking = <<>>
  BY DEF RankingInv, ScoresInv, ResultsInv
<1>2. CASE TimePasses \/ OtherCall \/ UNCHANGED vars
  BY <1>2, RankingKept DEF TimePasses, OtherCall, vars, graphs
<1>3. CASE Raise
  BY <1>3, GraphsGoneRanks DEF Raise, End, AssessedNodes
<1>4. CASE BeginTurn
  <2>1. /\ node = End /\ node' = "request_subgraph" /\ UNCHANGED <<report, dispatch>>
        /\ engine'.candidate_ids = {} /\ engine'.dimensions = <<>>
    BY <1>4 DEF BeginTurn, TurnReset, EmptyChannels, graphs
  <2>2. TurnTyped'
    BY <1>1, <2>1 DEF TurnTyped
  <2> QED BY <1>1, <2>1, <2>2, NotRankedYet DEF End, AssessedNodes
<1>5. CASE RequestSubgraph
  <2>1. /\ node = "request_subgraph" /\ node' \notin AssessedNodes /\ UNCHANGED <<report, dispatch>>
        /\ engine'.dimensions = engine.dimensions
        /\ engine'.candidate_ids = engine.candidate_ids \/ engine'.candidate_ids \subseteq Candidates
    BY <1>1, <1>5 DEF RequestSubgraph, graphs, Channels, End, AssessedNodes
  <2>2. TurnTyped'
    BY <1>1, <2>1 DEF TurnTyped
  <2> QED BY <1>1, <2>1, <2>2, NotRankedYet
<1>6. CASE Dispatching
  <2>1. CASE ReceiveDispatch
    <3>1. /\ node = "receive_dispatch" /\ node' = "generate_dimensions"
          /\ UNCHANGED <<engine, report>> /\ dispatch'.dimensions = <<>>
      BY <2>1 DEF ReceiveDispatch, NoDispatch
    <3>2. TurnTyped'
      BY <1>1, <3>1 DEF TurnTyped
    <3> QED BY <1>1, <3>1, <3>2, NotRankedYet DEF AssessedNodes
  <2>2. CASE GenerateDimensions /\ ~Raise
    <3>1. PICK plan \in DimensionPlans :
            /\ dispatch' = [dispatch EXCEPT !.dimensions = plan, !.status = "dimensions_generated"]
            /\ node' = "validate_dimensions" /\ UNCHANGED <<engine, report>>
      BY <2>2 DEF GenerateDimensions
    <3>2. dispatch'.dimensions = plan /\ plan \in Seq(Dimension)
      BY <1>1, <3>1, EvaluationAssumption DEF Channels
    <3>3. TurnTyped'
      BY <1>1, <3>1, <3>2 DEF TurnTyped
    <3> QED BY <1>1, <2>2, <3>1, <3>3, NotRankedYet DEF AssessedNodes, GenerateDimensions
  <2>3. ASSUME NEW status, NEW next, LeaveDispatch(status, next), next \notin AssessedNodes
        PROVE  RankingParts'
    <3>1. /\ engine'.candidate_ids = engine.candidate_ids
          /\ engine'.dimensions = dispatch.dimensions
      BY <1>1, <2>3 DEF LeaveDispatch, Channels
    <3> QED BY <2>3, <3>1, GraphsGoneRanks DEF LeaveDispatch
  <2>4. CASE ValidateDimensions \/ PrepareWorkItems
    <3>1. CASE LeaveDispatch("dimension_invalid", End) \/ LeaveDispatch("capacity_exceeded", End)
      BY <2>3, <3>1 DEF End, AssessedNodes
    <3>2. CASE ~(LeaveDispatch("dimension_invalid", End) \/ LeaveDispatch("capacity_exceeded", End))
      <4>1. /\ node \in {"validate_dimensions", "prepare_work_items"}
            /\ node' \in {"prepare_work_items", "run_assessment_branch"}
            /\ UNCHANGED <<engine, report>> /\ dispatch'.dimensions = dispatch.dimensions
        BY <1>1, <2>4, <3>2 DEF ValidateDimensions, PrepareWorkItems, Channels
      <4> QED BY <4>1, RankingKept DEF AssessedNodes
    <3> QED BY <3>1, <3>2
  <2>5. CASE StartBranch \/ AskBreaker \/ CallReturns
    BY <2>5, RankingKept DEF StartBranch, AskBreaker, CallReturns
  <2>6. CASE BranchEnds
    BY <1>3, <2>6, RankingKept DEF BranchEnds
  <2>7. CASE Finalize
    <3>1. /\ engine'.candidate_ids = engine.candidate_ids
          /\ engine'.dimensions = dispatch.dimensions
          /\ GraphsGone /\ node' \notin AssessedNodes
      BY <1>1, <2>7 DEF Finalize, Channels, AssessedNodes
    <3> QED BY <3>1, GraphsGoneRanks
  <2> QED BY <1>3, <1>6, <2>1, <2>2, <2>4, <2>5, <2>6, <2>7 DEF Dispatching, Branches
<1>7. CASE Reporting /\ ~Raise
  <2>1. CASE ReceiveReport
    BY <1>7, <2>1, RankingKept DEF ReceiveReport, graphs, AssessedNodes
  <2>2. CASE ScoreDimensions
    <3>1. /\ node = "score_dimensions" /\ node' = "review_consistency"
          /\ UNCHANGED <<engine, dispatch>> /\ report'.ranking = report.ranking
      BY <1>1, <1>7, <2>2 DEF ScoreDimensions, ReportChannels
    <3>2. TurnTyped' /\ Judged' /\ report'.ranking = <<>>
      BY <1>1, <2>2, <3>1, ScoringJudges DEF TurnTyped
    <3> QED BY <3>2 DEF RankingParts, RankingRespectsScores
  <2>3. CASE ReviewConsistency \/ ComposeReport
    <3>1. /\ \/ node = "review_consistency" /\ node' = "aggregate_candidates"
             \/ node = "compose_report" /\ node' = "validate_report"
          /\ UNCHANGED <<engine, dispatch>> /\ report'.ranking = report.ranking
          /\ report'.dimension_assessments = report.dimension_assessments
      BY <1>1, <1>7, <2>3 DEF ReviewConsistency, ComposeReport, ReportChannels
    <3> QED BY <3>1, RankingKept
  <2>4. CASE AggregateCandidates
    <3>1. /\ node = "aggregate_candidates" /\ node' = "compose_report"
          /\ UNCHANGED <<engine, dispatch>>
          /\ report'.dimension_assessments = report.dimension_assessments
      BY <1>1, <2>4 DEF AggregateCandidates, ReportChannels
    <3>2. TurnTyped'
      BY <1>1, <3>1 DEF TurnTyped
    <3>3. Judged'
      BY <3>1 DEF RankingInv, Judged, Positions, AssessedNodes
    <3>4. RankingRespectsScores'
      BY <2>4, AggregateRanks
    <3> QED BY <3>1, <3>2, <3>3, <3>4 DEF RankingParts
  <2>5. CASE ValidateReport
    <3>1. /\ engine'.candidate_ids = engine.candidate_ids
          /\ engine'.dimensions = engine.dimensions
          /\ GraphsGone /\ node' \notin AssessedNodes
      BY <1>1, <1>7, <2>5 DEF ValidateReport, Channels, AssessedNodes, End
    <3> QED BY <3>1, GraphsGoneRanks
  <2> QED BY <1>7, <2>1, <2>2, <2>3, <2>4, <2>5 DEF Reporting
<1> QED BY <1>2, <1>3, <1>4, <1>5, <1>6, <1>7 DEF Next, Turn

(***************************************************************************)
(* A candidate that does at least as well as another in every dimension    *)
(* and better in one is ranked before it, for any candidates, plans and    *)
(* scores (aggregate_candidate_assessments, rank_candidate_assessments).   *)
(***************************************************************************)
THEOREM RankingFollowsScores == Spec => []RankingRespectsScores
<1>1. Init => RankingInv
  <2> SUFFICES ASSUME Init PROVE RankingInv
    OBVIOUS
  <2>1. ScoresInv
    BY ResultsInit
    DEF Init, ScoresInv, ReportChannels, AssessedInReport, ScoresAreBacked, NoReporting
  <2>2. /\ engine.candidate_ids = {} /\ engine.dimensions = <<>>
        /\ dispatch.dimensions = <<>> /\ report.ranking = <<>> /\ node = End
    BY DEF Init, EmptyChannels, NoDispatch, NoReporting
  <2>3. TurnTyped
    BY <2>2 DEF TurnTyped
  <2> QED BY <2>1, <2>2, <2>3 DEF RankingInv, RankingRespectsScores, AssessedNodes, End
<1>2. RankingInv => RankingRespectsScores
  BY DEF RankingInv
<1> QED BY <1>1, <1>2, RankingStep, PTL DEF Spec

-------------------------------------------------------------------------------
(***************************************************************************)
(* ToolExecutor, for any calls, attempts, threshold and recovery: the same *)
(* breaker under one executor, whose calls overlap.                        *)
(***************************************************************************)

BreakerTyped == breaker \in Breaker /\ streak \in Nat

FailuresInv == BreakerTyped /\ BreakerCountsCalls

\* Only these steps talk to the breaker.
Tells(c) == Ask(c) \/ Delivered(c) \/ GivesUp(c)

\* The others leave it and its count alone.
LEMMA BreakerLeft ==
    ASSUME ExecutorNext, ~\E c \in Calls : Tells(c), ~Clock
    PROVE  UNCHANGED <<breaker, streak>>
BY DEF ExecutorNext, Proceeds, Tells, NoContext, Attempt, Retries, Refuses, Crashes, Finish,
       TimesOut, Ends

\* allow() forgets the failures when the recovery is over, and only then.
LEMMA AskCounts == ASSUME FailuresInv, NEW c \in Calls, Ask(c) PROVE FailuresInv'
<1>1. /\ breaker' = (IF Recovered(breaker) THEN Reset ELSE breaker)
      /\ streak' = (IF Recovered(breaker) THEN 0 ELSE streak)
  BY DEF Ask, Allow
<1>2. CASE Recovered(breaker)
  BY <1>1, <1>2, BreakerAssumption
  DEF FailuresInv, BreakerTyped, BreakerCountsCalls, Reset, Breaker
<1>3. CASE ~Recovered(breaker)
  BY <1>1, <1>3 DEF FailuresInv, BreakerTyped, BreakerCountsCalls
<1> QED BY <1>2, <1>3

\* A success forgets the failures.
LEMMA DeliveredCounts == ASSUME FailuresInv, NEW c \in Calls, Delivered(c) PROVE FailuresInv'
BY BreakerAssumption
DEF Delivered, Succeed, FailuresInv, BreakerTyped, BreakerCountsCalls, Reset, Breaker

\* A call that gives up is one failure, and the threshold-th opens.
LEMMA GivesUpCounts == ASSUME FailuresInv, NEW c \in Calls, GivesUp(c) PROVE FailuresInv'
<1>1. /\ breaker \in Breaker /\ breaker.failures = streak /\ streak \in Nat
      /\ breaker' = Fail(breaker) /\ streak' = streak + 1
      /\ breaker.opened <=> streak >= failure_threshold
  BY DEF GivesUp, FailuresInv, BreakerTyped, BreakerCountsCalls
<1>2. CASE streak + 1 >= failure_threshold
  <2>1. breaker' = [failures |-> streak + 1, opened |-> TRUE, elapsed |-> 0]
    BY <1>1, <1>2 DEF Fail
  <2> QED BY <1>1, <1>2, <2>1, BreakerAssumption
          DEF FailuresInv, BreakerTyped, BreakerCountsCalls, Breaker
<1>3. CASE ~(streak + 1 >= failure_threshold)
  <2>1. breaker' = [breaker EXCEPT !.failures = streak + 1]
    BY <1>1, <1>3 DEF Fail
  <2> QED BY <1>1, <1>3, <2>1, BreakerAssumption
          DEF FailuresInv, BreakerTyped, BreakerCountsCalls, Breaker
<1> QED BY <1>2, <1>3

\* Time opens and closes nothing by itself.
LEMMA ClockCounts == ASSUME FailuresInv, Clock PROVE FailuresInv'
BY BreakerAssumption
DEF Clock, CanPass, Passes, FailuresInv, BreakerTyped, BreakerCountsCalls, Breaker

\* FailuresInv is inductive.
LEMMA BreakerKept == FailuresInv /\ [ExecutorNext]_executorVars => FailuresInv'
<1> SUFFICES ASSUME FailuresInv, [ExecutorNext]_executorVars PROVE FailuresInv'
  OBVIOUS
<1>1. CASE UNCHANGED <<breaker, streak>>
  BY <1>1 DEF FailuresInv, BreakerTyped, BreakerCountsCalls
<1>2. ASSUME NEW c \in Calls, Tells(c) PROVE FailuresInv'
  BY <1>2, AskCounts, DeliveredCounts, GivesUpCounts DEF Tells
<1> QED BY <1>1, <1>2, BreakerLeft, ClockCounts DEF executorVars

(***************************************************************************)
(* The breaker is open exactly when as many calls as its threshold used up *)
(* their attempts since one succeeded or the recovery began; the late end  *)
(* of an operation whose call gave up on it never counts (ToolExecutor and *)
(* CircuitBreaker of talent_tools).                                        *)
(***************************************************************************)
THEOREM BreakerCountsFailedCalls == ExecutorSpec => []BreakerCountsCalls
<1>1. ExecutorInit => FailuresInv
  BY BreakerAssumption
  DEF ExecutorInit, FailuresInv, BreakerTyped, BreakerCountsCalls, Reset, Breaker
<1>2. FailuresInv => BreakerCountsCalls
  BY DEF FailuresInv
<1> QED BY <1>1, <1>2, BreakerKept, PTL DEF ExecutorSpec

-------------------------------------------------------------------------------
(* The audit of ToolExecutor.                                              *)

\* What a call holds at each place of execute: the status is decided on the
\* way to _finish, an operation was started before anything is waited for,
\* and a next attempt is only made while one is left.
CallOK(c) ==
    /\ call[c] \in Call
    /\ call[c].pc \in {"new", "trying", "waiting", "told"} => call[c].status = "none"
    /\ call[c].pc = "new" => call[c].attempt = 0
    /\ call[c].pc = "trying" => call[c].attempt < max_attempts
    /\ call[c].pc \in {"waiting", "told"} => call[c].attempt > 0
    /\ call[c].status = "blocked" => call[c].attempt = 0
    /\ call[c].status = "succeeded" => call[c].attempt > 0 /\ call[c].got = "data"

\* A call is recorded when it returns, once, and never when it raises.
Recorded(c) ==
    IF call[c].pc = "returned" THEN RecordsOf(c) = {Record(c)} ELSE RecordsOf(c) = {}

AuditInv == call = [c \in Calls |-> call[c]] /\ \A c \in Calls : CallOK(c) /\ Recorded(c)

\* A step of call c that is not its _finish.
Moves(c) == call' = [call EXCEPT ![c] = call'[c]] /\ UNCHANGED audit

\* Such a step keeps the records true when it keeps its call in order and is
\* not made by a call that has returned.
LEMMA MovesKeeps ==
    ASSUME AuditInv, NEW c \in Calls, Moves(c), CallOK(c)', 
           call[c].pc # "returned", call'[c].pc # "returned"
    PROVE  AuditInv'
<1>1. \A d \in Calls \ {c} : call'[d] = call[d]
  BY DEF AuditInv, Moves
<1>2. ASSUME NEW d \in Calls PROVE (CallOK(d) /\ Recorded(d))'
  <2>1. CASE d = c
    BY <2>1 DEF AuditInv, Moves, Recorded, RecordsOf
  <2>2. CASE d # c
    BY <1>1, <2>2 DEF AuditInv, Moves, CallOK, Recorded, RecordsOf, Record
  <2> QED BY <2>1, <2>2
<1>3. call' = [d \in Calls |-> call'[d]]
  BY DEF AuditInv, Moves
<1> QED BY <1>2, <1>3 DEF AuditInv

\* The steps of a call before _finish.
LEMMA StepsKeep ==
    ASSUME AuditInv, NEW c \in Calls,
           \/ NoContext(c) \/ Ask(c) \/ Attempt(c) \/ TimesOut(c) \/ Delivered(c)
           \/ Retries(c) \/ GivesUp(c) \/ Refuses(c) \/ Crashes(c)
    PROVE  AuditInv'
<1>1. CallOK(c) /\ call = [d \in Calls |-> call[d]]
  BY DEF AuditInv
<1>2. call[c] \in Call /\ c \in DOMAIN call
  BY <1>1 DEF CallOK
<1>3. /\ call[c].pc \in {"new", "trying", "waiting", "told"}
      /\ Moves(c) /\ call'[c].pc # "returned" /\ CallOK(c)'
  <2>1. CASE NoContext(c)
    <3>1. call'[c] = [call[c] EXCEPT !.pc = "raised"] /\ Moves(c)
      BY <1>1, <2>1 DEF NoContext, Moves
    <3> QED BY <1>1, <1>2, <2>1, <3>1 DEF NoContext, CallOK, Call
  <2>2. CASE Ask(c)
    <3>1. /\ Moves(c)
          /\ \/ call'[c] = [call[c] EXCEPT !.pc = "trying"]
             \/ call'[c] = [call[c] EXCEPT !.pc = "finishing", !.status = "blocked",
                                           !.degraded = TRUE]
      BY <1>1, <2>2 DEF Ask, Moves
    <3>2. call[c].pc = "new" /\ call[c].attempt = 0 /\ 0 < max_attempts
      BY <1>1, <2>2, PolicyAssumption DEF Ask, CallOK
    <3>3. CASE call'[c] = [call[c] EXCEPT !.pc = "trying"]
      BY <1>1, <1>2, <3>1, <3>2, <3>3 DEF CallOK, Call
    <3>4. CASE call'[c] = [call[c] EXCEPT !.pc = "finishing", !.status = "blocked",
                                          !.degraded = TRUE]
      BY <1>1, <1>2, <3>1, <3>2, <3>4 DEF CallOK, Call, Statuses
    <3> QED BY <3>1, <3>3, <3>4
  <2>3. CASE Attempt(c)
    <3>1. Moves(c) /\ call'[c] = [call[c] EXCEPT !.pc = "waiting", !.attempt = call[c].attempt + 1]
      BY <1>1, <2>3 DEF Attempt, Moves
    <3>2. call[c].attempt + 1 \in 0..max_attempts /\ call[c].attempt + 1 > 0
      BY <1>1, <1>2, <2>3, PolicyAssumption DEF Attempt, CallOK, Call
    <3>3. call'[c] \in Call
      BY <1>2, <3>1, <3>2 DEF Call
    <3> QED BY <1>1, <1>2, <2>3, <3>1, <3>2, <3>3 DEF Attempt, CallOK, Call
  <2>4. CASE TimesOut(c)
    <3>1. Moves(c) /\ call'[c] = [call[c] EXCEPT !.pc = "told", !.got = "timeout"]
      BY <1>1, <2>4 DEF TimesOut, Moves
    <3> QED BY <1>1, <1>2, <2>4, <3>1 DEF TimesOut, CallOK, Call
  <2>5. CASE Delivered(c)
    <3>1. Moves(c) /\ call'[c] = [call[c] EXCEPT !.pc = "finishing", !.status = "succeeded"]
      BY <1>1, <2>5 DEF Delivered, Moves
    <3> QED BY <1>1, <1>2, <2>5, <3>1 DEF Delivered, CallOK, Call, Statuses
  <2>6. CASE Retries(c)
    <3>1. Moves(c) /\ call'[c] = [call[c] EXCEPT !.pc = "trying", !.got = "none"]
      BY <1>1, <2>6 DEF Retries, Moves
    <3> QED BY <1>1, <1>2, <2>6, <3>1 DEF Retries, CallOK, Call
  <2>7. CASE GivesUp(c)
    <3>1. Moves(c) /\ call'[c] = [call[c] EXCEPT !.pc = "finishing", !.got = "none",
                                        !.status = "failed", !.degraded = TRUE]
      BY <1>1, <2>7 DEF GivesUp, Moves
    <3> QED BY <1>1, <1>2, <2>7, <3>1 DEF GivesUp, CallOK, Call, Statuses
  <2>8. CASE Refuses(c)
    <3>1. Moves(c) /\ call'[c] = [call[c] EXCEPT !.pc = "finishing", !.status = "failed"]
      BY <1>1, <2>8 DEF Refuses, Moves
    <3> QED BY <1>1, <1>2, <2>8, <3>1 DEF Refuses, CallOK, Call, Statuses
  <2>9. CASE Crashes(c)
    <3>1. Moves(c) /\ call'[c] = [call[c] EXCEPT !.pc = "raised"]
      BY <1>1, <2>9 DEF Crashes, Moves
    <3> QED BY <1>1, <1>2, <2>9, <3>1 DEF Crashes, CallOK, Call
  <2> QED BY <2>1, <2>2, <2>3, <2>4, <2>5, <2>6, <2>7, <2>8, <2>9
<1> QED BY <1>3, MovesKeeps

\* The end of an operation is seen by the call that waits for it, or by nobody.
LEMMA EndsKeeps ==
    ASSUME AuditInv, NEW t \in threads, NEW outcome \in OperationOutcomes, Ends(t, outcome),
           threads \subseteq Calls \X Nat
    PROVE  AuditInv'
<1> DEFINE c == t[1]
<1>1. c \in Calls /\ CallOK(c) /\ call = [d \in Calls |-> call[d]]
  BY DEF AuditInv
<1>2. CASE UNCHANGED call
  <2>1. \A d \in Calls : CallOK(d)' /\ Recorded(d)'
    BY <1>2 DEF Ends, AuditInv, CallOK, Recorded, RecordsOf, Record
  <2> QED BY <1>2, <2>1 DEF AuditInv
<1>3. CASE call[c].pc = "waiting" /\ call[c].attempt = t[2]
  <2>1. call' = [call EXCEPT ![c] = [@ EXCEPT !.pc = "told", !.got = outcome]]
    BY <1>3 DEF Ends
  <2>2. Moves(c) /\ call'[c] = [call[c] EXCEPT !.pc = "told", !.got = outcome]
    BY <1>1, <2>1 DEF Ends, Moves
  <2>3. CallOK(c)' /\ call'[c].pc # "returned"
    BY <1>1, <1>3, <2>2 DEF CallOK, Call
  <2> QED BY <1>1, <1>3, <2>2, <2>3, MovesKeeps
<1> QED BY <1>2, <1>3 DEF Ends

\* _finish writes the record of its call, or raises without one.
LEMMA FinishKeeps == ASSUME AuditInv, NEW c \in Calls, Finish(c) PROVE AuditInv'
<1>1. CallOK(c) /\ RecordsOf(c) = {} /\ call = [d \in Calls |-> call[d]]
      /\ call[c].pc = "finishing"
  BY DEF AuditInv, Recorded, Finish
<1>2. CASE audit' = audit \cup {Record(c)} /\ call' = [call EXCEPT ![c].pc = "returned"]
  <2>1. CallOK(c)' /\ Record(c)' = Record(c) /\ call'[c].pc = "returned"
    BY <1>1, <1>2 DEF CallOK, Call, Record
  <2>2. Record(c).call = c
    BY DEF Record
  <2>3. RecordsOf(c)' = {Record(c)'}
    BY <1>1, <1>2, <2>1, <2>2 DEF RecordsOf
  <2>4. ASSUME NEW d \in Calls \ {c} PROVE (CallOK(d) /\ Recorded(d))'
    <3>1. call'[d] = call[d]
      BY <1>1, <1>2
    <3>2. RecordsOf(d)' = RecordsOf(d)
      BY <1>2, <2>2 DEF RecordsOf
    <3> QED BY <3>1, <3>2 DEF AuditInv, CallOK, Recorded, Record
  <2> QED BY <1>1, <1>2, <2>1, <2>3, <2>4 DEF AuditInv, Recorded
<1>3. CASE call' = [call EXCEPT ![c].pc = "raised"] /\ UNCHANGED audit
  <2>1. CallOK(c)' /\ Moves(c) /\ call'[c].pc # "returned"
    BY <1>1, <1>3 DEF CallOK, Call, Moves
  <2> QED BY <1>1, <2>1, MovesKeeps
<1> QED BY <1>2, <1>3 DEF Finish

\* An operation belongs to a call.
ThreadsTyped == threads \subseteq Calls \X Nat

\* Operations are started by attempts.
LEMMA ThreadsKept == ASSUME AuditInv, ThreadsTyped, [ExecutorNext]_executorVars PROVE ThreadsTyped'
<1>1. ASSUME NEW c \in Calls, Attempt(c) PROVE ThreadsTyped'
  BY <1>1 DEF Attempt, ThreadsTyped, AuditInv, CallOK, Call
<1>2. CASE threads' \subseteq threads
  BY <1>2 DEF ThreadsTyped
<1> QED
  BY <1>1, <1>2
  DEF ExecutorNext, Proceeds, NoContext, Ask, Delivered, Retries, GivesUp, Refuses, Crashes, Finish,
      TimesOut, Ends, Clock, executorVars

\* AuditInv is inductive.
LEMMA AuditKept == AuditInv /\ ThreadsTyped /\ [ExecutorNext]_executorVars => AuditInv'
<1> SUFFICES ASSUME AuditInv, ThreadsTyped, [ExecutorNext]_executorVars PROVE AuditInv'
  OBVIOUS
<1>1. CASE UNCHANGED <<call, audit>>
  <2>1. \A d \in Calls : CallOK(d)' /\ Recorded(d)'
    BY <1>1 DEF AuditInv, CallOK, Recorded, RecordsOf, Record
  <2> QED BY <1>1, <2>1 DEF AuditInv
<1>2. CASE Clock \/ UNCHANGED executorVars
  BY <1>1, <1>2 DEF Clock, executorVars
<1>3. ASSUME NEW t \in threads, NEW outcome \in OperationOutcomes, Ends(t, outcome) PROVE AuditInv'
  BY <1>3, EndsKeeps DEF ThreadsTyped
<1>4. ASSUME NEW c \in Calls, NoContext(c) \/ Proceeds(c) \/ TimesOut(c) PROVE AuditInv'
  BY <1>4, StepsKeep, FinishKeeps DEF Proceeds
<1> QED BY <1>2, <1>3, <1>4 DEF ExecutorNext

(***************************************************************************)
(* A call that returned an envelope has the one record the envelope says,  *)
(* a call that raised has none, and a record never counts an attempt that  *)
(* was not made (_finish of talent_tools), whatever operations hang or end *)
(* late and whichever writes of the sink fail.                             *)
(***************************************************************************)
THEOREM AuditTellsWhatHappened == ExecutorSpec => []AuditIsTrue
<1>1. ExecutorInit => AuditInv /\ ThreadsTyped
  BY PolicyAssumption
  DEF ExecutorInit, AuditInv, CallOK, Recorded, RecordsOf, NewCall, Call, ThreadsTyped
<1>2. AuditInv => AuditIsTrue
  BY DEF AuditInv, CallOK, Recorded, AuditIsTrue
<1>3. AuditInv /\ ThreadsTyped /\ [ExecutorNext]_executorVars => AuditInv' /\ ThreadsTyped'
  BY AuditKept, ThreadsKept
<1> QED BY <1>1, <1>2, <1>3, PTL DEF ExecutorSpec
================================================================================
