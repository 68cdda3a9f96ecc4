------------------------- MODULE RequestGraph_proofs -------------------------
(***************************************************************************)
(* Proofs about RequestGraph, for every set of jobs and texts, any number  *)
(* of turns and revisions and any window of messages.                      *)
(***************************************************************************)
EXTENDS RequestGraph, TLAPS

\* The nodes of SubgraphNodes, one set.
LEMMA Nodes ==
    SubgraphNodes =
        {"receive_request", "interpret_input", "lookup_jobs", "select_exact_job", "confirm_job",
         "compile_selected_job", "no_job_match", "build_plan", "filter_candidates",
         "resolve_requirements", "request_done"}
BY DEF SubgraphNodes, UnderstandNodes, PlanNodes

\* The last of some messages is one of them.
LEMMA LastIsMessage ==
    ASSUME NEW messages \in Seq(Value), messages # <<>>
    PROVE  LastOf(messages) \in Value /\ Len(messages) \in Nat \ {0}
BY DEF LastOf

\* What the model reads are messages, the last one among them.
LEMMA WindowIsOfMessages ==
    ASSUME NEW messages \in Seq(Value), messages # <<>>
    PROVE  /\ recent_request_messages(messages) \subseteq Value
           /\ LastOf(messages) \in recent_request_messages(messages)
<1>1. recent_request_messages(messages) \subseteq Value
  BY DEF recent_request_messages
<1>2. LastOf(messages) \in recent_request_messages(messages)
  <2>1. Len(messages) \in {i \in 1..Len(messages) : i >= Len(messages) - previous_turn_limit}
    BY LastIsMessage, RequestAssumption
  <2>2. QED
    BY <2>1 DEF recent_request_messages, LastOf
<1>3. QED
  BY <1>1, <1>2

\* A draft is a plan.
LEMMA DraftsArePlans ==
    ASSUME state \in States, state.messages # <<>>,
           NEW job \in Job \cup {None}, NEW draft \in Drafts(job)
    PROVE  /\ draft \in Plans
           /\ draft.text = LastOf(state.messages) /\ draft.job = job
           /\ draft.texts = recent_request_messages(state.messages)
                                \cup state.talent_request.texts
<1>1. LastOf(state.messages) \in Value /\ recent_request_messages(state.messages) \subseteq Value
  BY LastIsMessage, WindowIsOfMessages DEF States
<1>2. state.talent_request.texts \subseteq Value
  BY DEF States, Requests
<1>3. QED
  BY <1>1, <1>2 DEF Drafts, Plans

\* Nothing is a member of its type.
LEMMA EmptyIsTyped ==
    /\ NoRequest \in Requests /\ NoPlan \in Plans
    /\ NoQuestion \in Questions
    /\ NoState \in States /\ <<>> \in JobMatches
<1>1. <<>> \in [{} -> BOOLEAN]
  OBVIOUS
<1>2. <<>> \in JobMatches
  BY <1>1 DEF JobMatches
<1>3. NoRequest \in Requests /\ NoPlan \in Plans
  BY DEF NoRequest, NoPlan, Requests, Plans
<1>4. NoQuestion \in Questions
  BY DEF NoQuestion, Questions
<1>5. <<>> \in Seq(Value)
  OBVIOUS
<1>6. NoState \in States
  BY <1>2, <1>3, <1>5 DEF NoState, States, RequestStatus
<1>7. QED
  BY <1>2, <1>3, <1>4, <1>6

\* A job found is a job.
LEMMA MatchesAreJobs ==
    ASSUME state \in States
    PROVE  DOMAIN state.job_matches \subseteq Job
<1>1. state.job_matches \in JobMatches
  BY DEF States
<1>2. QED
  BY <1>1 DEF JobMatches

-------------------------------------------------------------------------------
(***************************************************************************)
(* Types.                                                                  *)
(***************************************************************************)
\* A node that returns a typed update and goes on inside the sub-graph keeps
\* the types.
LEMMA ReturnsTyped ==
    ASSUME RequestTypeOK, NEW here \in SubgraphNodes, At(here),
           NEW update \in States, update.messages # <<>>,
           NEW next \in SubgraphNodes, Returns(update, next)
    PROVE  RequestTypeOK'
<1>1. End \notin SubgraphNodes
  BY Nodes DEF End
<1>2. decision' = NoDecision
  BY DEF Returns
<1>3. QED
  BY <1>1, <1>2 DEF RequestTypeOK, Returns, At, Nodes

\* So does a node that asks.
LEMMA AskTyped ==
    ASSUME RequestTypeOK, NEW here \in {"confirm_job", "resolve_requirements"}, At(here),
           NEW question \in Questions, question.type # "", Ask(question)
    PROVE  RequestTypeOK'
<1>1. decision' = NoDecision
  BY DEF Ask
<1>2. NoQuestion.type = ""
  BY DEF NoQuestion
<1>3. QED
  BY <1>1, <1>2 DEF RequestTypeOK, Ask, At, End

\* A thread without a request has typed channels.
LEMMA TypeInit == Init => RequestTypeOK
<1> SUFFICES ASSUME Init PROVE RequestTypeOK
  OBVIOUS
<1>1. engine \in Engines
  <2>1. <<>> \in Seq(Value)
    OBVIOUS
  <2>2. QED
    BY <2>1, EmptyIsTyped DEF Init, Engines, RequestStatus
<1>2. QED
  BY <1>1, EmptyIsTyped, Nodes DEF Init, RequestTypeOK, End

\* Every step of the sub-graph, of the manager and of the engine keeps the types.
LEMMA TypeStep == RequestTypeOK /\ [Next]_vars => RequestTypeOK'
<1> SUFFICES ASSUME RequestTypeOK, [Next]_vars PROVE RequestTypeOK'
  OBVIOUS
<1> USE DEF RequestTypeOK
<1>1. CASE CreateRun
  <2> PICK message \in Value : engine' = [engine EXCEPT !.messages = Append(@, message)]
    BY <1>1 DEF CreateRun
  <2>1. engine.messages \in Seq(Value)
    BY DEF Engines
  <2>2. Append(engine.messages, message) \in Seq(Value) /\ Append(engine.messages, message) # <<>>
    BY <2>1
  <2>3. engine' \in Engines /\ engine'.messages # <<>>
    BY <2>2 DEF Engines
  <2>4. QED
    BY <1>1, <2>3, Nodes DEF CreateRun, End
<1>2. CASE BeginTurn
  <2>1. state' \in States /\ state'.messages # <<>>
    BY <1>2, EmptyIsTyped DEF BeginTurn, Engines, RequestStatus, States, End
  <2>2. engine' \in Engines /\ engine'.messages = engine.messages
    BY <1>2, EmptyIsTyped DEF BeginTurn, Engines, RequestStatus
  <2>3. engine.messages # <<>>
    BY <1>2 DEF BeginTurn, End
  <2>4. QED
    BY <1>2, <2>1, <2>2, <2>3, Nodes DEF BeginTurn, End
<1>3. CASE ReceiveRequest
  <2> DEFINE update ==
        [state EXCEPT !.request_text = LastOf(state.messages), !.job_matches = <<>>,
                      !.selected_job = None, !.query_plan = NoPlan,
                      !.candidate_ids = NoPlan, !.plan_version = 0, !.status = "received"]
  <2>1. At("receive_request") /\ Returns(update, "interpret_input")
    BY <1>3 DEF ReceiveRequest
  <2>2. state.messages # <<>>
    BY <2>1, Nodes DEF At
  <2>3. LastOf(state.messages) \in Value
    BY <2>2, LastIsMessage DEF States
  <2>4. update \in States /\ update.messages = state.messages
    BY <2>3, EmptyIsTyped DEF States, RequestStatus
  <2>5. QED
    BY <2>1, <2>2, <2>4, ReturnsTyped, Nodes
<1>4. CASE InterpretInput
  <2> PICK draft \in Drafts(None), mode \in Modes :
        Returns([state EXCEPT !.draft = draft, !.input_mode = mode,
                              !.status = "request_understood"],
                IF mode = "job_name" THEN "lookup_jobs" ELSE "build_plan")
    BY <1>4 DEF InterpretInput
  <2> DEFINE update == [state EXCEPT !.draft = draft, !.input_mode = mode,
                                     !.status = "request_understood"]
  <2>1. At("interpret_input") /\ state.messages # <<>>
    BY <1>4, Nodes DEF InterpretInput, At
  <2>2. update \in States /\ update.messages = state.messages
    BY <2>1, DraftsArePlans DEF States, RequestStatus
  <2>3. QED
    BY <2>1, <2>2, ReturnsTyped, Nodes
<1>5. CASE LookupJobs
  <2> PICK matches \in JobMatches :
        Returns([state EXCEPT !.job_matches = matches, !.status = "jobs_found"],
                IF \E job_code \in Job : ExactMatches(matches) = {job_code} THEN "select_exact_job"
                ELSE IF DOMAIN matches # {} THEN "confirm_job"
                ELSE "no_job_match")
    BY <1>5 DEF LookupJobs
  <2> DEFINE update == [state EXCEPT !.job_matches = matches, !.status = "jobs_found"]
  <2>1. At("lookup_jobs") /\ state.messages # <<>>
    BY <1>5, Nodes DEF LookupJobs, At
  <2>2. update \in States /\ update.messages = state.messages
    BY <2>1 DEF States, RequestStatus
  <2>3. QED
    BY <2>1, <2>2, ReturnsTyped, Nodes
<1>6. CASE SelectExactJob
  <2> PICK job_code \in ExactMatches(state.job_matches) :
        Returns([state EXCEPT !.selected_job = job_code, !.status = "job_confirmed"],
                "compile_selected_job")
    BY <1>6 DEF SelectExactJob
  <2> DEFINE update == [state EXCEPT !.selected_job = job_code, !.status = "job_confirmed"]
  <2>1. At("select_exact_job") /\ state.messages # <<>>
    BY <1>6, Nodes DEF SelectExactJob, At
  <2>2. job_code \in Job
    BY MatchesAreJobs DEF ExactMatches
  <2>3. update \in States /\ update.messages = state.messages
    BY <2>1, <2>2 DEF States, RequestStatus
  <2>4. QED
    BY <2>1, <2>3, ReturnsTyped, Nodes
<1>7. CASE AskForJob
  <2>1. JobQuestion \in Questions /\ JobQuestion.type # ""
    BY MatchesAreJobs DEF JobQuestion, Questions
  <2>2. QED
    BY <1>7, <2>1, AskTyped DEF AskForJob
<1>8. CASE ConfirmJob
  <2> DEFINE update == [state EXCEPT !.selected_job = decision.value, !.status = "job_confirmed"]
  <2>1. At("confirm_job") /\ Returns(update, "compile_selected_job")
    BY <1>8 DEF ConfirmJob
  <2>2. state.messages # <<>> /\ decision.value \in Job
    BY <1>8, <2>1, Nodes, MatchesAreJobs DEF ConfirmJob, At, SelectsJob
  <2>3. update \in States /\ update.messages = state.messages
    BY <2>2 DEF States, RequestStatus
  <2>4. QED
    BY <2>1, <2>2, <2>3, ReturnsTyped, Nodes
<1>9. CASE CompileSelectedJob
  <2> PICK draft \in Drafts(state.selected_job) :
        Returns([state EXCEPT !.draft = draft, !.input_mode = "job_name"], "build_plan")
    BY <1>9 DEF CompileSelectedJob
  <2> DEFINE update == [state EXCEPT !.draft = draft, !.input_mode = "job_name"]
  <2>1. At("compile_selected_job") /\ state.messages # <<>>
    BY <1>9, Nodes DEF CompileSelectedJob, At
  <2>2. state.selected_job \in Job \cup {None}
    BY DEF States
  <2>3. update \in States /\ update.messages = state.messages
    BY <2>1, <2>2, DraftsArePlans DEF States, Modes
  <2>4. QED
    BY <2>1, <2>3, ReturnsTyped, Nodes
<1>10. CASE NoJobMatch
  <2> DEFINE update == [state EXCEPT !.query_plan = NoPlan, !.talent_request = NoRequest,
                                     !.status = "no_job_match"]
  <2>1. At("no_job_match") /\ Returns(update, "request_done")
    BY <1>10 DEF NoJobMatch
  <2>2. state.messages # <<>>
    BY <2>1, Nodes DEF At
  <2>3. update \in States /\ update.messages = state.messages
    BY EmptyIsTyped DEF States, RequestStatus
  <2>4. QED
    BY <2>1, <2>2, <2>3, ReturnsTyped, Nodes
<1>11. CASE BuildPlan
  <2> DEFINE request == [original_text |-> state.request_text,
                         target_job |-> state.selected_job, texts |-> state.draft.texts]
             status == IF state.draft.blocked THEN "clarification_required" ELSE "plan_ready"
             update == [state EXCEPT !.talent_request = request, !.query_plan = state.draft,
                                     !.status = status]
             next == IF state.draft.blocked THEN "resolve_requirements" ELSE "filter_candidates"
  <2>1. At("build_plan") /\ Returns(update, next)
    BY <1>11 DEF BuildPlan
  <2>2. state.messages # <<>>
    BY <2>1, Nodes DEF At
  <2>3. request \in Requests /\ state.draft \in Plans
    BY DEF States, Plans, Requests
  <2>4. status \in RequestStatus /\ next \in SubgraphNodes
    BY Nodes DEF RequestStatus
  <2>5. update \in States /\ update.messages = state.messages
    <3> HIDE DEF request, status
    <3> QED BY <2>3, <2>4 DEF States
  <2>6. QED
    <3> HIDE DEF update, next
    <3> QED BY <2>1, <2>2, <2>4, <2>5, ReturnsTyped, Nodes
<1>12. CASE FilterCandidates
  <2>1. At("filter_candidates") /\ state.messages # <<>>
    BY <1>12, Nodes DEF FilterCandidates, At
  <2> DEFINE found == [state EXCEPT !.candidate_ids = state.query_plan, !.status = "candidates_ready"]
             empty == [state EXCEPT !.candidate_ids = NoPlan, !.status = "candidates_empty"]
  <2>2. Returns(found, "request_done") \/ Returns(empty, "resolve_requirements")
    BY <1>12 DEF FilterCandidates
  <2>3. /\ found \in States /\ found.messages = state.messages
        /\ empty \in States /\ empty.messages = state.messages
    BY EmptyIsTyped DEF States, RequestStatus
  <2>4. QED
    <3> HIDE DEF found, empty
    <3> QED BY <2>1, <2>2, <2>3, ReturnsTyped, Nodes
<1>13. CASE AskForRevision
  <2>1. RevisionQuestion \in Questions /\ RevisionQuestion.type # ""
    BY DEF RevisionQuestion, Questions, States
  <2>2. QED
    BY <1>13, <2>1, AskTyped DEF AskForRevision
<1>14. CASE ResolveRequirements
  <2> DEFINE messages == Append(state.messages, decision.value)
             version == state.plan_version + 1
             update == [state EXCEPT !.request_text = decision.value, !.messages = messages,
                             !.selected_job = None, !.job_matches = <<>>,
                             !.candidate_ids = NoPlan,
                             !.plan_version = version, !.status = "request_revised"]
  <2>1. At("resolve_requirements") /\ Returns(update, "interpret_input") /\ Revises
    BY <1>14 DEF ResolveRequirements
  <2>2. decision \in Decisions
    <3>1. decision.action = "revise"
      BY <2>1 DEF Revises
    <3>2. NoDecision.action = ""
      BY DEF NoDecision
    <3>3. QED
      BY <3>1, <3>2
  <2>3. decision.value \in Value
    BY <2>2 DEF Decisions
  <2>4. state.messages \in Seq(Value) /\ state.plan_version \in Nat
    BY DEF States
  <2>5. messages \in Seq(Value) /\ messages # <<>> /\ version \in Nat
    BY <2>3, <2>4
  <2>6. update \in States /\ update.messages = messages
    <3> HIDE DEF messages, version
    <3> QED BY <2>3, <2>5, EmptyIsTyped DEF States, RequestStatus
  <2>7. QED
    <3> HIDE DEF update, messages
    <3> QED BY <2>1, <2>5, <2>6, ReturnsTyped, Nodes
<1>15. CASE ResumeRun
  <2>1. PICK value \in Value :
          decision' = [action |-> IF pending.type = "job_selection" THEN "select" ELSE "revise",
                       interaction_id |-> pending.interaction_id, value |-> value]
    BY <1>15 DEF ResumeRun
  <2>2. decision' \in Decisions
    BY <2>1 DEF Questions, Decisions
  <2>3. QED
    BY <1>15, <2>2, EmptyIsTyped DEF ResumeRun, End
<1>16. CASE LeaveRequest
  <2>1. engine' \in Engines
    BY <1>16 DEF LeaveRequest, States, Engines
  <2>2. engine'.messages # <<>>
    BY <1>16, Nodes DEF LeaveRequest
  <2>3. QED
    BY <1>16, <2>1, <2>2, EmptyIsTyped, Nodes DEF LeaveRequest, End
<1>17. CASE EndRun
  BY <1>17, EmptyIsTyped, Nodes DEF EndRun, End
<1>18. CASE UNCHANGED vars
  BY <1>18 DEF vars
<1>19. QED
  BY <1>1, <1>2, <1>3, <1>4, <1>5, <1>6, <1>7, <1>8, <1>9, <1>10, <1>11, <1>12, <1>13,
     <1>14, <1>15, <1>16, <1>17, <1>18 DEF Next, Understand, Plan

\* The channels, the question and the answer have their types in every state that
\* the graph and its manager reach, for any jobs, texts and window.
THEOREM RequestTypeCorrect == Spec => []RequestTypeOK
BY TypeInit, TypeStep, PTL DEF Spec

-------------------------------------------------------------------------------
(***************************************************************************)
(* Questions and answers.                                                  *)
(***************************************************************************)
\* The manager's question is the one of the node that waits, on the state the
\* node will see again when it is resumed.
QuestionIsCurrent ==
    run = "waiting_input" =>
        \/ node = "confirm_job" /\ pending = JobQuestion
        \/ node = "resolve_requirements" /\ pending = RevisionQuestion

QuestionInv == QuestionIsCurrent /\ AnswersAreAccepted

\* Every action of the sub-graph's nodes returns or asks.
LEMMA NodeSteps ==
    ASSUME Understand \/ Plan \/ ReceiveRequest
    PROVE  /\ run = "running" /\ UNCHANGED engine
           /\ decision' = NoDecision
           /\ \/ UNCHANGED <<run, pending>>
              \/ /\ UNCHANGED <<state, node>>
                 /\ \/ node = "confirm_job" /\ pending' = JobQuestion
                    \/ node = "resolve_requirements" /\ pending' = RevisionQuestion
<1>1. CASE AskForJob
  BY <1>1 DEF AskForJob, Ask, At
<1>2. CASE AskForRevision
  BY <1>2 DEF AskForRevision, Ask, At
<1>3. CASE InterpretInput
  BY <1>3 DEF InterpretInput, Returns, At
<1>4. CASE LookupJobs
  BY <1>4 DEF LookupJobs, Returns, At
<1>5. CASE SelectExactJob \/ ConfirmJob \/ CompileSelectedJob \/ NoJobMatch
  BY <1>5 DEF SelectExactJob, ConfirmJob, CompileSelectedJob, NoJobMatch, Returns, At
<1>6. CASE ReceiveRequest \/ BuildPlan \/ FilterCandidates \/ ResolveRequirements
  BY <1>6 DEF ReceiveRequest, BuildPlan, FilterCandidates, ResolveRequirements, Returns, At
<1>7. QED
  BY <1>1, <1>2, <1>3, <1>4, <1>5, <1>6 DEF Understand, Plan

\* Every step keeps the manager's question the one its waiting node would ask.
LEMMA QuestionStep == RequestTypeOK /\ QuestionInv /\ [Next]_vars => QuestionInv'
<1> SUFFICES ASSUME RequestTypeOK, QuestionInv, [Next]_vars PROVE QuestionInv'
  OBVIOUS
<1> USE DEF QuestionInv, QuestionIsCurrent, AnswersAreAccepted
<1>1. CASE CreateRun \/ BeginTurn \/ LeaveRequest
  <2>1. decision = NoDecision /\ UNCHANGED decision
    BY <1>1 DEF CreateRun, BeginTurn, LeaveRequest, RequestTypeOK, End
  <2>2. run' # "waiting_input"
    BY <1>1 DEF CreateRun, BeginTurn, LeaveRequest
  <2>3. QED
    BY <2>1, <2>2
<1>2. CASE Understand \/ Plan \/ ReceiveRequest
  BY <1>2, NodeSteps DEF JobQuestion, RevisionQuestion
<1>3. CASE ResumeRun
  <2>1. PICK value \in Value :
          /\ IsAnswer(value)
          /\ decision' = [action |-> IF pending.type = "job_selection" THEN "select" ELSE "revise",
                          interaction_id |-> pending.interaction_id, value |-> value]
    BY <1>3 DEF ResumeRun
  <2>2. CASE node = "confirm_job" /\ pending = JobQuestion
    BY <1>3, <2>1, <2>2 DEF ResumeRun, IsAnswer, JobQuestion, SelectsJob
  <2>3. CASE node = "resolve_requirements" /\ pending = RevisionQuestion
    BY <1>3, <2>1, <2>3 DEF ResumeRun, RevisionQuestion, Revises
  <2>4. QED
    BY <1>3, <2>2, <2>3 DEF ResumeRun
<1>4. CASE EndRun
  BY <1>4 DEF EndRun
<1>5. CASE UNCHANGED vars
  BY <1>5 DEF vars, JobQuestion, RevisionQuestion, SelectsJob, Revises
<1>6. QED
  BY <1>1, <1>2, <1>3, <1>4, <1>5 DEF Next

\* An answer that _validate_decision let through is one that the node suspended in
\* confirm_job or resolve_requirements accepts when it runs again.
THEOREM AnswersFitTheirNode == Spec => []AnswersAreAccepted
<1>1. Init => QuestionInv
  BY DEF Init, QuestionInv, QuestionIsCurrent, AnswersAreAccepted
<1>2. QuestionInv => AnswersAreAccepted
  BY DEF QuestionInv
<1>3. QED
  BY <1>1, <1>2, QuestionStep, RequestTypeCorrect, PTL DEF Spec

-------------------------------------------------------------------------------
(***************************************************************************)
(* The plan of the last text.                                              *)
(***************************************************************************)
IsReady == node = "request_done" /\ state.status = "candidates_ready"

DraftIsCurrent ==
    state.draft.text = LastOf(state.messages) /\ state.draft.job = state.selected_job

PlanIsCurrent ==
    /\ state.query_plan.text = LastOf(state.messages)
    /\ state.talent_request.original_text = LastOf(state.messages)
    /\ state.talent_request.target_job = state.query_plan.job

\* What each node finds in the channels it reads: the text is the last message
\* from the first node on, no job is selected until one is confirmed, and the
\* draft and the plan are those of the text and the job.
PlanInv ==
    /\ node \in SubgraphNodes \ {"receive_request"} =>
            state.request_text = LastOf(state.messages)
    /\ node \in {"interpret_input", "lookup_jobs", "select_exact_job", "confirm_job"} =>
            state.selected_job = None
    /\ node = "build_plan" => DraftIsCurrent
    /\ node = "filter_candidates" \/ IsReady => PlanIsCurrent /\ ~state.query_plan.blocked
    /\ IsReady => state.candidate_ids = state.query_plan
    /\ PlanIsOfLastText

\* A message added at the end is the last one.
LEMMA LastOfAppend ==
    ASSUME NEW messages \in Seq(Value), NEW message
    PROVE  /\ LastOf(Append(messages, message)) = message
           /\ Len(Append(messages, message)) = Len(messages) + 1
BY DEF LastOf

\* Every step keeps what the nodes find in the channels they read.
LEMMA PlanStep == RequestTypeOK /\ PlanInv /\ [Next]_vars => PlanInv'
<1> SUFFICES ASSUME RequestTypeOK, PlanInv, [Next]_vars PROVE PlanInv'
  OBVIOUS
<1> USE DEF PlanInv, PlanIsOfLastText, PlanIsCurrent, DraftIsCurrent, IsReady
<1>0. state \in States /\ engine \in Engines
  BY DEF RequestTypeOK
<1>1. CASE CreateRun \/ BeginTurn \/ EndRun
  BY <1>1, Nodes DEF CreateRun, BeginTurn, EndRun, End
<1>2. CASE ReceiveRequest
  BY <1>0, <1>2, Nodes DEF ReceiveRequest, Returns, At, States, LastOf
<1>3. CASE InterpretInput
  <2> PICK draft \in Drafts(None), mode \in Modes :
        Returns([state EXCEPT !.draft = draft, !.input_mode = mode,
                              !.status = "request_understood"],
                IF mode = "job_name" THEN "lookup_jobs" ELSE "build_plan")
    BY <1>3 DEF InterpretInput
  <2>1. draft.text = LastOf(state.messages) /\ draft.job = None
    BY DEF Drafts
  <2>2. QED
    BY <1>0, <1>3, <2>1, Nodes DEF InterpretInput, Returns, At, States, LastOf
<1>4. CASE LookupJobs
  BY <1>0, <1>4, Nodes DEF LookupJobs, Returns, At, States, LastOf
<1>5. CASE SelectExactJob \/ ConfirmJob
  BY <1>0, <1>5, Nodes DEF SelectExactJob, ConfirmJob, Returns, At, States, LastOf
<1>6. CASE CompileSelectedJob
  <2> PICK draft \in Drafts(state.selected_job) :
        Returns([state EXCEPT !.draft = draft, !.input_mode = "job_name"], "build_plan")
    BY <1>6 DEF CompileSelectedJob
  <2>1. draft.text = LastOf(state.messages) /\ draft.job = state.selected_job
    BY DEF Drafts
  <2>2. QED
    BY <1>0, <1>6, <2>1, Nodes DEF CompileSelectedJob, Returns, At, States, LastOf
<1>7. CASE NoJobMatch
  BY <1>0, <1>7, Nodes DEF NoJobMatch, Returns, At, States, LastOf
<1>8. CASE BuildPlan
  BY <1>0, <1>8, Nodes DEF BuildPlan, Returns, At, States, LastOf
<1>9. CASE FilterCandidates
  BY <1>0, <1>9, Nodes DEF FilterCandidates, Returns, At, States, LastOf
<1>10. CASE AskForJob \/ AskForRevision
  BY <1>10 DEF AskForJob, AskForRevision, Ask
<1>11. CASE ResolveRequirements
  <2>1. LastOf(Append(state.messages, decision.value)) = decision.value
    BY <1>0, LastOfAppend DEF States
  <2>2. QED
    BY <1>0, <1>11, <2>1, Nodes DEF ResolveRequirements, Returns, At, States, LastOf
<1>12. CASE ResumeRun
  BY <1>12 DEF ResumeRun
<1>13. CASE LeaveRequest
  BY <1>0, <1>13, Nodes DEF LeaveRequest, End, LastOf
<1>14. CASE UNCHANGED vars
  BY <1>14 DEF vars
<1>15. QED
  BY <1>1, <1>2, <1>3, <1>4, <1>5, <1>6, <1>7, <1>8, <1>9, <1>10, <1>11, <1>12, <1>13,
     <1>14 DEF Next, Understand, Plan

\* The evaluation sub-graph is entered with the request, the plan and the candidates
\* of the last text of the conversation, after any number of revisions.
THEOREM EvaluationStartsFromLastText == Spec => []PlanIsOfLastText
<1>1. Init => PlanInv
  BY Nodes DEF Init, PlanInv, PlanIsOfLastText, IsReady, End
<1>2. PlanInv => PlanIsOfLastText
  BY DEF PlanInv
<1>3. QED
  BY <1>1, <1>2, PlanStep, RequestTypeCorrect, PTL DEF Spec

-------------------------------------------------------------------------------
(***************************************************************************)
(* The texts of the turn.                                                  *)
(***************************************************************************)
\* Whatever of the turn is not the last message is in the request compiled so
\* far, so a window that has at least the last message loses nothing.
TurnInv ==
    /\ node \in SubgraphNodes => Len(engine.messages) \in 1..Len(state.messages)
    /\ node \in UnderstandNodes =>
            TurnMessages \subseteq {LastOf(state.messages)} \cup state.talent_request.texts
    /\ node = "build_plan" => TurnMessages \subseteq state.draft.texts
    /\ node \in {"filter_candidates", "resolve_requirements"} \/ IsReady =>
            TurnMessages \subseteq state.talent_request.texts

\* Every step keeps the texts of the turn in the last message or the request.
LEMMA TurnStep == RequestTypeOK /\ TurnInv /\ [Next]_vars => TurnInv'
<1> SUFFICES ASSUME RequestTypeOK, TurnInv, [Next]_vars PROVE TurnInv'
  OBVIOUS
<1> USE DEF TurnInv, IsReady
<1>0. state \in States /\ engine \in Engines
  BY DEF RequestTypeOK
<1>1. CASE CreateRun \/ LeaveRequest \/ EndRun
  BY <1>1, Nodes DEF CreateRun, LeaveRequest, EndRun, End, UnderstandNodes
<1>2. CASE BeginTurn
  <2>1. engine.messages \in Seq(Value) /\ engine.messages # <<>>
    BY <1>0, <1>2 DEF BeginTurn, RequestTypeOK, Engines, End
  <2>2. engine'.messages = engine.messages /\ state'.messages = engine.messages
    BY <1>0, <1>2 DEF BeginTurn, Engines, NoState
  <2>3. Len(engine.messages) \in Nat \ {0}
    BY <2>1
  <2>4. TurnMessages' = {LastOf(state'.messages)}
    BY <2>2, <2>3 DEF TurnMessages, LastOf
  <2>5. QED
    BY <1>2, <2>2, <2>3, <2>4 DEF BeginTurn, UnderstandNodes
<1>3. ASSUME UNCHANGED <<engine.messages, state.messages>>
      PROVE  TurnMessages' = TurnMessages
  BY <1>3 DEF TurnMessages
<1>4. CASE ReceiveRequest
  <2>1. UNCHANGED <<engine.messages, state.messages, state.talent_request>>
    BY <1>0, <1>4 DEF ReceiveRequest, Returns, States
  <2>2. QED
    BY <1>3, <1>4, <2>1, Nodes DEF ReceiveRequest, Returns, At, UnderstandNodes, LastOf
<1>5. CASE InterpretInput
  <2> PICK draft \in Drafts(None), mode \in Modes :
        Returns([state EXCEPT !.draft = draft, !.input_mode = mode,
                              !.status = "request_understood"],
                IF mode = "job_name" THEN "lookup_jobs" ELSE "build_plan")
    BY <1>5 DEF InterpretInput
  <2>1. state.messages # <<>> /\ At("interpret_input")
    BY <1>5, Nodes DEF InterpretInput, At, RequestTypeOK
  <2>2. {LastOf(state.messages)} \cup state.talent_request.texts \subseteq draft.texts
    <3>1. LastOf(state.messages) \in recent_request_messages(state.messages)
      BY <1>0, <2>1, WindowIsOfMessages DEF States
    <3>2. draft.texts = recent_request_messages(state.messages) \cup state.talent_request.texts
      BY DEF Drafts
    <3>3. QED
      BY <3>1, <3>2
  <2>3. /\ UNCHANGED <<engine.messages, state.messages, state.talent_request>>
        /\ state'.draft = draft
    BY <1>0 DEF Returns, States
  <2>4. node' \in {"lookup_jobs", "build_plan"}
    BY DEF Returns
  <2>5. QED
    BY <1>3, <2>1, <2>2, <2>3, <2>4 DEF At, SubgraphNodes, UnderstandNodes, LastOf
<1>6. CASE LookupJobs \/ SelectExactJob \/ ConfirmJob
  <2>1. UNCHANGED <<engine.messages, state.messages, state.talent_request>>
    BY <1>0, <1>6 DEF LookupJobs, SelectExactJob, ConfirmJob, Returns, States
  <2>2. node \in UnderstandNodes /\ node' \in UnderstandNodes
    BY <1>6 DEF LookupJobs, SelectExactJob, ConfirmJob, Returns, At, UnderstandNodes
  <2>3. QED
    BY <1>3, <2>1, <2>2 DEF SubgraphNodes, UnderstandNodes, LastOf
<1>7. CASE CompileSelectedJob
  <2> PICK draft \in Drafts(state.selected_job) :
        Returns([state EXCEPT !.draft = draft, !.input_mode = "job_name"], "build_plan")
    BY <1>7 DEF CompileSelectedJob
  <2>1. state.messages # <<>> /\ At("compile_selected_job")
    BY <1>7, Nodes DEF CompileSelectedJob, At, RequestTypeOK
  <2>2. {LastOf(state.messages)} \cup state.talent_request.texts \subseteq draft.texts
    <3>1. LastOf(state.messages) \in recent_request_messages(state.messages)
      BY <1>0, <2>1, WindowIsOfMessages DEF States
    <3>2. draft.texts = recent_request_messages(state.messages) \cup state.talent_request.texts
      BY DEF Drafts
    <3>3. QED
      BY <3>1, <3>2
  <2>3. UNCHANGED <<engine.messages, state.messages>> /\ state'.draft = draft
    BY <1>0 DEF Returns, States
  <2>4. QED
    BY <1>3, <2>1, <2>2, <2>3 DEF Returns, At, SubgraphNodes, UnderstandNodes
<1>8. CASE NoJobMatch
  <2>1. UNCHANGED <<engine.messages, state.messages>> /\ state'.status = "no_job_match"
    BY <1>0, <1>8 DEF NoJobMatch, Returns, States
  <2>2. QED
    BY <1>8, <2>1 DEF NoJobMatch, Returns, At, SubgraphNodes, UnderstandNodes
<1>9. CASE BuildPlan
  <2>1. UNCHANGED <<engine.messages, state.messages>>
        /\ state'.talent_request.texts = state.draft.texts
    BY <1>0, <1>9 DEF BuildPlan, Returns, States
  <2>2. node = "build_plan" /\ node' \in {"filter_candidates", "resolve_requirements"}
    BY <1>9 DEF BuildPlan, Returns, At
  <2>3. QED
    BY <1>3, <2>1, <2>2 DEF SubgraphNodes, UnderstandNodes, PlanNodes
<1>10. CASE FilterCandidates
  <2>1. UNCHANGED <<engine.messages, state.messages, state.talent_request>>
    BY <1>0, <1>10 DEF FilterCandidates, Returns, States
  <2>2. node = "filter_candidates" /\ node' \in {"request_done", "resolve_requirements"}
    BY <1>10 DEF FilterCandidates, Returns, At
  <2>3. QED
    BY <1>3, <2>1, <2>2 DEF SubgraphNodes, UnderstandNodes, PlanNodes
<1>11. CASE AskForJob \/ AskForRevision
  <2>1. UNCHANGED <<engine, state, node>>
    BY <1>11 DEF AskForJob, AskForRevision, Ask
  <2>2. QED
    BY <1>3, <2>1
<1>12. CASE ResolveRequirements
  <2> DEFINE last == Len(state.messages) + 1
  <2>1. /\ node = "resolve_requirements" /\ node' = "interpret_input" /\ UNCHANGED engine
        /\ state'.messages = Append(state.messages, decision.value)
        /\ state'.talent_request = state.talent_request
    BY <1>0, <1>12 DEF ResolveRequirements, Returns, At, States
  <2>2. state.messages \in Seq(Value) /\ Len(engine.messages) \in 1..Len(state.messages)
    BY <1>0, <2>1 DEF States, SubgraphNodes, PlanNodes
  <2>3. Len(state'.messages) = last /\ LastOf(state'.messages) = decision.value
    BY <2>1, <2>2, LastOfAppend
  <2>4. \A i \in Len(engine.messages)..Len(state.messages) : state'.messages[i] = state.messages[i]
    BY <2>1, <2>2
  <2>5. state'.messages[last] = decision.value
    BY <2>1, <2>2
  <2>6. TurnMessages' \subseteq TurnMessages \cup {decision.value}
    <3>1. Len(state.messages) \in Nat /\ Len(engine.messages) \in Nat
      BY <2>2
    <3>2. TurnMessages' = {state'.messages[i] : i \in Len(engine.messages)..last}
      BY <2>1, <2>3 DEF TurnMessages
    <3>3. \A i \in Len(engine.messages)..last :
             i \in Len(engine.messages)..Len(state.messages) \/ i = last
      BY <3>1
    <3>4. ASSUME NEW i \in Len(engine.messages)..last
          PROVE  state'.messages[i] \in TurnMessages \cup {decision.value}
      <4>1. CASE i \in Len(engine.messages)..Len(state.messages)
        BY <2>4, <4>1 DEF TurnMessages
      <4>2. CASE i = last
        BY <2>5, <4>2
      <4> QED BY <3>3, <4>1, <4>2
    <3> QED BY <3>2, <3>4
  <2>7. TurnMessages \subseteq state.talent_request.texts
    BY <2>1
  <2>8. Len(engine'.messages) \in 1..Len(state'.messages)
    BY <2>1, <2>2, <2>3
  <2>9. QED
    BY <2>1, <2>3, <2>6, <2>7, <2>8
<1>13. CASE ResumeRun
  <2>1. UNCHANGED <<engine, state, node>>
    BY <1>13 DEF ResumeRun
  <2>2. QED
    BY <1>3, <2>1
<1>14. CASE UNCHANGED vars
  BY <1>3, <1>14 DEF vars
<1>15. QED
  BY <1>1, <1>2, <1>4, <1>5, <1>6, <1>7, <1>8, <1>9, <1>10, <1>11, <1>12, <1>13, <1>14
  DEF Next, Understand, Plan

\* The request that goes to the evaluation was compiled from every text of its turn,
\* also when the turn has more texts than the window recent_request_messages reads.
THEOREM RequestHasWholeTurn == Spec => []TurnIsUnderstood
<1>1. Init => TurnInv
  BY Nodes DEF Init, TurnInv, IsReady, End, UnderstandNodes
<1>2. TurnInv => TurnIsUnderstood
  BY DEF TurnInv, TurnIsUnderstood, IsReady
<1>3. QED
  BY <1>1, <1>2, TurnStep, RequestTypeCorrect, PTL DEF Spec
===============================================================================
