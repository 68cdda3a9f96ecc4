----------------------------- MODULE RequestGraph -----------------------------
(***************************************************************************)
(* The data of the request sub-graph (talent_request_graph) over the turns *)
(* of one conversation, with the manager's side of its two questions       *)
(* (resume_run and _resume_value in talent_run_stream).                    *)
(*                                                                         *)
(* The sub-graph is invoked afresh in each turn with four channels of the  *)
(* engine; its channels reach the engine when it has ended, and are lost   *)
(* when the run ends before.  A question suspends the run inside a node;   *)
(* the answer runs that node again with the decision the manager made of   *)
(* it.                                                                     *)
(*                                                                         *)
(* What the model makes of a request is reduced to what it was given: the  *)
(* last text, the texts it could read and the confirmed job.  QueryPlan    *)
(* copies the draft, so the plan is the draft, and candidate_ids is the    *)
(* plan the candidates were filtered by.  Titles, summaries and the texts  *)
(* of questions are left out, and so are the functions no node calls       *)
(* (_resolve_conditions, _resolve_empty_candidates and their helpers) and  *)
(* the action "cancel", which the manager never sends.                     *)
(***************************************************************************)
EXTENDS Integers, FiniteSets, Sequences, Functions

CONSTANTS
    Job,                    \* job codes
    Text,                   \* what else a user may write
    None,
    previous_turn_limit,    \* of recent_request_messages
    MaxMessages             \* bound: messages of the conversation

\* POST /runs and POST /runs/{run_id}/resume take any text, a job code too.
Value == Job \cup Text

ASSUME RequestAssumption ==
    /\ None \notin Value
    /\ previous_turn_limit \in Nat
    /\ MaxMessages \in Nat

VARIABLES
    engine,     \* TalentDecisionEngineState, as far as the request writes it
    state,      \* TalentRequestState while the sub-graph runs
    node,       \* the node that runs next, End between turns
    run,        \* status of the conversation's run, "none" when it has ended
    pending,    \* run.pending_interrupt
    decision    \* what the suspended node is resumed with

vars == <<engine, state, node, run, pending, decision>>

End == "END"

Modes == {"job_name", "detailed_requirement"}

RequestStatus ==
    {"", "received", "request_understood", "jobs_found", "job_confirmed", "plan_ready",
     "clarification_required", "no_job_match", "candidates_ready", "candidates_empty",
     "request_revised"}

-------------------------------------------------------------------------------
(***************************************************************************)
(* The channels.                                                           *)
(***************************************************************************)
NoRequest == [original_text |-> None, target_job |-> None, texts |-> {}]

NoPlan == [text |-> None, job |-> None, texts |-> {}, blocked |-> FALSE]

NoQuestion == [type |-> "", interaction_id |-> None, options |-> {}]

NoDecision == [action |-> "", interaction_id |-> None, value |-> None]

NoState ==
    [messages |-> <<>>, request_text |-> None, input_mode |-> "",
     draft |-> NoPlan, job_matches |-> <<>>, selected_job |-> None,
     talent_request |-> NoRequest, query_plan |-> NoPlan, candidate_ids |-> NoPlan,
     plan_version |-> 0, status |-> ""]

Init ==
    /\ engine = [messages |-> <<>>, talent_request |-> NoRequest, query_plan |-> NoPlan,
                 candidate_ids |-> NoPlan, status |-> ""]
    /\ state = NoState /\ node = End
    /\ run = "none" /\ pending = NoQuestion /\ decision = NoDecision

LastOf(messages) == messages[Len(messages)]

\* It counts messages, not turns: a turn has one more for each revision.
recent_request_messages(messages) ==
    {messages[i] : i \in {i \in 1..Len(messages) : i >= Len(messages) - previous_turn_limit}}

\* What the model may answer.
Drafts(confirmed_job) ==
    [text : {LastOf(state.messages)},
     job : {confirmed_job},
     texts : {recent_request_messages(state.messages) \cup state.talent_request.texts},
     blocked : BOOLEAN]

-------------------------------------------------------------------------------
(***************************************************************************)
(* The turn up to the sub-graph.                                           *)
(***************************************************************************)
\* The run's message is an input of the graph: the engine has it at once.
CreateRun ==
    /\ run = "none" /\ Len(engine.messages) < MaxMessages
    /\ \E message \in Value : engine' = [engine EXCEPT !.messages = Append(@, message)]
    /\ run' = "running" /\ node' = "begin_turn"
    /\ UNCHANGED <<state, pending, decision>>

\* The update of begin_turn, and the input of the sub-graph.
BeginTurn ==
    /\ run = "running" /\ node = "begin_turn"
    /\ engine' = [engine EXCEPT !.candidate_ids = NoPlan, !.status = "received"]
    /\ state' = [NoState EXCEPT !.messages = engine.messages,
                                !.talent_request = engine.talent_request]
    /\ node' = "receive_request"
    /\ UNCHANGED <<run, pending, decision>>

At(here) == run = "running" /\ node = here

\* A node of the sub-graph returns an update.
Returns(update, next) ==
    /\ state' = update
    /\ node' = next
    /\ decision' = NoDecision
    /\ UNCHANGED <<engine, run, pending>>

ReceiveRequest ==
    /\ At("receive_request")
    /\ Returns([state EXCEPT !.request_text = LastOf(state.messages), !.job_matches = <<>>,
                             !.selected_job = None, !.query_plan = NoPlan,
                             !.candidate_ids = NoPlan, !.plan_version = 0,
                             !.status = "received"],
               "interpret_input")

-------------------------------------------------------------------------------
(***************************************************************************)
(* Understanding the request and finding its job.                          *)
(***************************************************************************)
InterpretInput ==
    /\ At("interpret_input")
    /\ \E draft \in Drafts(None), mode \in Modes :
          Returns([state EXCEPT !.draft = draft, !.input_mode = mode,
                                !.status = "request_understood"],
                  IF mode = "job_name" THEN "lookup_jobs" ELSE "build_plan")

\* For each job found, whether its name is the query exactly.
JobMatches == UNION {[found -> BOOLEAN] : found \in SUBSET Job}

ExactMatches(matches) == {job_code \in DOMAIN matches : matches[job_code]}

\* With _route_job_matches.
LookupJobs ==
    /\ At("lookup_jobs")
    /\ \E matches \in JobMatches :
          Returns([state EXCEPT !.job_matches = matches, !.status = "jobs_found"],
                  IF \E job_code \in Job : ExactMatches(matches) = {job_code} THEN "select_exact_job"
                  ELSE IF DOMAIN matches # {} THEN "confirm_job"
                  ELSE "no_job_match")

SelectExactJob ==
    /\ At("select_exact_job")
    /\ \E job_code \in ExactMatches(state.job_matches) :
          Returns([state EXCEPT !.selected_job = job_code, !.status = "job_confirmed"],
                  "compile_selected_job")

\* interrupt() suspends the node; _handle_updates keeps the payload.
Ask(question) ==
    /\ pending' = question
    /\ decision' = NoDecision
    /\ run' = "waiting_input"
    /\ UNCHANGED <<engine, state, node>>

JobQuestion ==
    [type |-> "job_selection", interaction_id |-> None, options |-> DOMAIN state.job_matches]

AskForJob == At("confirm_job") /\ decision = NoDecision /\ Ask(JobQuestion)

\* What the node takes; on anything else it raises.
SelectsJob == decision.action = "select" /\ decision.value \in DOMAIN state.job_matches

ConfirmJob ==
    /\ At("confirm_job")
    /\ SelectsJob
    /\ Returns([state EXCEPT !.selected_job = decision.value, !.status = "job_confirmed"],
               "compile_selected_job")

CompileSelectedJob ==
    /\ At("compile_selected_job")
    /\ \E draft \in Drafts(state.selected_job) :
          Returns([state EXCEPT !.draft = draft, !.input_mode = "job_name"],
                  "build_plan")

NoJobMatch ==
    /\ At("no_job_match")
    /\ Returns([state EXCEPT !.query_plan = NoPlan, !.talent_request = NoRequest,
                             !.status = "no_job_match"],
               "request_done")

-------------------------------------------------------------------------------
(***************************************************************************)
(* The plan, its candidates and the revision of the request.               *)
(***************************************************************************)
\* Mutant: the request of the turn before is kept.
BuildPlanOnly ==
    /\ At("build_plan")
    /\ Returns([state EXCEPT !.query_plan = state.draft,
                             !.status = IF state.draft.blocked THEN "clarification_required"
                                        ELSE "plan_ready"],
               IF state.draft.blocked THEN "resolve_requirements" ELSE "filter_candidates")

\* With _route_after_plan.
BuildPlan ==
    /\ At("build_plan")
    /\ Returns([state EXCEPT !.talent_request = [original_text |-> state.request_text,
                                                 target_job |-> state.selected_job,
                                                 texts |-> state.draft.texts],
                             !.query_plan = state.draft,
                             !.status = IF state.draft.blocked THEN "clarification_required"
                                        ELSE "plan_ready"],
               IF state.draft.blocked THEN "resolve_requirements" ELSE "filter_candidates")

\* With _route_candidates.
FilterCandidates ==
    /\ At("filter_candidates")
    /\ \/ Returns([state EXCEPT !.candidate_ids = state.query_plan, !.status = "candidates_ready"],
                  "request_done")
       \/ Returns([state EXCEPT !.candidate_ids = NoPlan, !.status = "candidates_empty"],
                  "resolve_requirements")

\* The interaction id is "rr-v" and the version of the plan.
RevisionQuestion ==
    [type |-> "requirement_revision", interaction_id |-> state.plan_version, options |-> {}]

\* parse() of resolve_requirements.
Revises == decision.action = "revise" /\ decision.interaction_id = state.plan_version

\* A decision that parse() refuses is asked for again.
AskForRevision == At("resolve_requirements") /\ ~Revises /\ Ask(RevisionQuestion)

\* Mutant: the job of the text before stays selected.
RevisionKeepsJob ==
    /\ At("resolve_requirements")
    /\ Revises
    /\ Returns([state EXCEPT !.request_text = decision.value,
                             !.messages = Append(@, decision.value),
                             !.job_matches = <<>>, !.candidate_ids = NoPlan,
                             !.plan_version = @ + 1, !.status = "request_revised"],
               "interpret_input")

ResolveRequirements ==
    /\ At("resolve_requirements")
    /\ Revises
    /\ Returns([state EXCEPT !.request_text = decision.value,
                             !.messages = Append(@, decision.value),
                             !.selected_job = None, !.job_matches = <<>>,
                             !.candidate_ids = NoPlan,
                             !.plan_version = @ + 1, !.status = "request_revised"],
               "interpret_input")

-------------------------------------------------------------------------------
(***************************************************************************)
(* The manager and the end of the turn.                                    *)
(***************************************************************************)
\* Mutant: an answer is passed on without looking at the options.
AnyAnswer(value) == TRUE

\* _resume_value accepts the value; otherwise the request is refused (409).
IsAnswer(value) == pending.type = "job_selection" => value \in pending.options

\* The manager stamps the id of its own question on the answer: the request
\* carries none.
ResumeRun ==
    /\ run = "waiting_input"
    /\ pending.type = "requirement_revision" => Len(state.messages) < MaxMessages
    /\ \E value \in Value :
          /\ IsAnswer(value)
          /\ decision' =
                [action |-> IF pending.type = "job_selection" THEN "select" ELSE "revise",
                 interaction_id |-> pending.interaction_id, value |-> value]
    /\ pending' = NoQuestion
    /\ run' = "running"
    /\ UNCHANGED <<engine, state, node>>

\* The sub-graph's output, with _route_after_request.
LeaveRequest ==
    /\ run = "running" /\ node = "request_done"
    /\ engine' = [messages |-> state.messages, talent_request |-> state.talent_request,
                  query_plan |-> state.query_plan, candidate_ids |-> state.candidate_ids,
                  status |-> state.status]
    /\ state' = NoState
    /\ IF state.status = "candidates_ready"
       THEN node' = "evaluation_subgraph" /\ UNCHANGED run
       ELSE node' = End /\ run' = "none"
    /\ UNCHANGED <<pending, decision>>

\* Evaluation and report are through, a node raises, the user cancels or the
\* process restarts.
EndRun ==
    /\ run # "none"
    /\ run' = "none" /\ node' = End
    /\ state' = NoState /\ pending' = NoQuestion /\ decision' = NoDecision
    /\ UNCHANGED engine

Understand ==
    \/ InterpretInput \/ LookupJobs \/ SelectExactJob \/ AskForJob \/ ConfirmJob
    \/ CompileSelectedJob \/ NoJobMatch

Plan == BuildPlan \/ FilterCandidates \/ AskForRevision \/ ResolveRequirements

Next ==
    \/ CreateRun \/ BeginTurn \/ ReceiveRequest \/ Understand \/ Plan
    \/ ResumeRun \/ LeaveRequest \/ EndRun

Spec == Init /\ [][Next]_vars

-------------------------------------------------------------------------------
(***************************************************************************)
(* Properties.                                                             *)
(***************************************************************************)
Requests ==
    [original_text : Value \cup {None}, target_job : Job \cup {None}, texts : SUBSET Value]

Plans ==
    [text : Value \cup {None}, job : Job \cup {None}, texts : SUBSET Value, blocked : BOOLEAN]

UnderstandNodes ==
    {"receive_request", "interpret_input", "lookup_jobs", "select_exact_job", "confirm_job",
     "compile_selected_job", "no_job_match"}

PlanNodes == {"build_plan", "filter_candidates", "resolve_requirements", "request_done"}

SubgraphNodes == UnderstandNodes \cup PlanNodes

Engines ==
    [messages : Seq(Value), talent_request : Requests, query_plan : Plans,
     candidate_ids : Plans, status : RequestStatus]

States ==
    [messages : Seq(Value), request_text : Value \cup {None}, input_mode : Modes \cup {""},
     draft : Plans, job_matches : JobMatches, selected_job : Job \cup {None},
     talent_request : Requests, query_plan : Plans, candidate_ids : Plans,
     plan_version : Nat, status : RequestStatus]

Decisions ==
    [action : {"select", "revise"}, interaction_id : Nat \cup {None}, value : Value]

Questions ==
    [type : {"", "job_selection", "requirement_revision"}, interaction_id : Nat \cup {None},
     options : SUBSET Job]

\* Every variable has its type; a run waits only where a node has asked, the
\* manager holds a question exactly then, and the sub-graph's messages are
\* non-empty while it runs.
RequestTypeOK ==
    /\ engine \in Engines /\ state \in States
    /\ pending \in Questions /\ decision \in Decisions \cup {NoDecision}
    /\ node \in SubgraphNodes \cup {End, "begin_turn", "evaluation_subgraph"}
    /\ run \in {"none", "running", "waiting_input"}
    /\ run = "none" <=> node = End
    /\ run = "waiting_input" <=> pending # NoQuestion
    /\ run = "waiting_input" => node \in {"confirm_job", "resolve_requirements"}
    /\ node # End => engine.messages # <<>>
    /\ node \in SubgraphNodes => state.messages # <<>>

\* The evaluation starts from a plan of the last thing the user said, be it the
\* message of the turn or a revision: plan, request, job and candidates belong
\* together, and nothing in the plan awaits a clarification.
PlanIsOfLastText ==
    node = "evaluation_subgraph" =>
        /\ engine.query_plan.text = LastOf(engine.messages)
        /\ engine.talent_request.original_text = LastOf(engine.messages)
        /\ engine.talent_request.target_job = engine.query_plan.job
        /\ engine.candidate_ids = engine.query_plan
        /\ ~engine.query_plan.blocked

\* What the manager lets through, the suspended node accepts: a run does not fail
\* on an answer its user got confirmed, and is not asked the same again.
AnswersAreAccepted ==
    decision # NoDecision =>
        \/ node = "confirm_job" /\ SelectsJob
        \/ node = "resolve_requirements" /\ Revises

\* The messages of this turn: the engine has the conversation up to the first
\* of them.
TurnMessages == {state.messages[i] : i \in Len(engine.messages)..Len(state.messages)}

\* The request that goes to the evaluation was compiled from all texts of the
\* turn, also when there are more of them than recent_request_messages returns.
TurnIsUnderstood ==
    node = "request_done" /\ state.status = "candidates_ready" =>
        TurnMessages \subseteq state.talent_request.texts

===============================================================================
