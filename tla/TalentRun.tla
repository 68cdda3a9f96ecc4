------------------------------ MODULE TalentRun ------------------------------
(***************************************************************************)
(* TalentRunManager (talent_run_stream), the history store it writes       *)
(* through (talent_run_history) and the decision graph it drives           *)
(* (DecisionGraph), for several runs in several conversations.             *)
(*                                                                         *)
(* Atomicity.  The manager is one asyncio event loop.  Between two items   *)
(* of graph.astream nothing it awaits suspends: the condition of a run is  *)
(* only ever held around notify_all() and wait(), and the store is         *)
(* synchronous.  Each handler, the store writes it makes included, is      *)
(* therefore one action.  For the same reason the tests of a cancelled run *)
(* inside _emit and after the loop of _execute never see one: cancel_run   *)
(* also cancels the task, which then gets CancelledError at the await of   *)
(* the next item.                                                          *)
(*                                                                         *)
(* The environment is the client (create, resume, cancel), the model and   *)
(* tool calls (which edge a node takes, whether it raises), store writes   *)
(* that fail, and process restarts.                                        *)
(***************************************************************************)
EXTENDS DecisionGraph, Naturals, Sequences, SequencesExt, FiniteSets, FiniteSetsExt

CONSTANTS
    Run,                \* run ids (uuid4)
    Conversation,       \* conversation ids
    NoConversation,     \* conversation of a run that does not exist
    MaxRevisions,       \* bound: requirement revisions answered per run
    MaxBranches,        \* bound: work items of an evaluation
    MaxStoreFailures,   \* bound: failed record() calls
    MaxRestarts         \* bound: process restarts

ASSUME NoConversationAssumption == NoConversation \notin Conversation
ASSUME BoundsAssumption ==
    /\ MaxRevisions \in Nat
    /\ MaxBranches \in Nat \ {0}
    /\ MaxStoreFailures \in Nat
    /\ MaxRestarts \in Nat

VARIABLES
    status,     \* TalentRun.status, "absent" or "lost" when not in _runs
    conv,       \* TalentRun.conversation_id
    events,     \* TalentRun.events
    pending,    \* the node whose interrupt is TalentRun.pending_interrupt
    shown,      \* started_steps, completed_steps, graph_status, report_emitted
    task,       \* TalentRun.task
    convRuns,   \* _conversation_runs
    graph,      \* where the run's thread is in the graph, and its counters
    db,         \* talent_runs, talent_run_steps, talent_conversations
    faults,     \* store writes that failed
    restarts    \* restarts of the process

memory == <<status, conv, events, pending, shown, task, convRuns>>
vars == <<memory, graph, db, faults, restarts>>

------------------------------------------------------------------------------
\* Statuses, events and rows.

TERMINAL_STATUSES == {"completed", "cancelled", "failed"}
RunStatus == {"running", "waiting_input"} \cup TERMINAL_STATUSES

\* In _runs: get_run does not raise.
Known(r) == status[r] \in RunStatus

NoStep == ""
NoOutcome == ""
NoInterrupt == ""

TerminalEvent == {"run.completed", "run.cancelled", "run.failed"}
EventType == TerminalEvent \cup
    {"run.started", "hitl.required", "hitl.resolved", "step.started",
     "step.progress", "step.completed", "conversation.updated",
     "requirement.revised", "report.completed"}

\* outcome is the status inside data.output of a step event.
RunEvent == [type : EventType, step : Step \cup {NoStep}, outcome : GraphStatus]

Event(type) == [type |-> type, step |-> NoStep, outcome |-> NoOutcome]
StepEvent(type, step, outcome) == [type |-> type, step |-> step, outcome |-> outcome]

\* shouldCloseStreamForEvent: the number of the first event from which a client
\* knows that the run ended, 0 without one.
Ending(log) ==
    LET terminal == {i \in 1..Len(log) : log[i].type \in TerminalEvent}
    IN  IF terminal = {} THEN 0 ELSE Min(terminal)

NoRow == "none"
NoRunRow == [status |-> NoRow, conv |-> NoConversation, turn |-> 0, report |-> FALSE]
NoStepRow == [state |-> NoRow, outcome |-> NoOutcome]
NoConvRow == [status |-> NoRow, latest |-> NoRow]

Fresh == [started |-> {}, completed |-> {}, graphStatus |-> NoOutcome, reported |-> FALSE]
AtEntry == [at |-> Entry, branches |-> 0, revisions |-> 0]

------------------------------------------------------------------------------
\* SqlTalentRunHistoryStore.

RowsOf(c) == {r \in Run : db.run[r].conv = c}

\* Mutant: turns are counted among the runs in memory.
next_turn_no_in_memory(c) == Len(convRuns[c]) + 1

next_turn_no(c) == Max({0} \cup {db.run[r].turn : r \in RowsOf(c)}) + 1

\* record() of run.started.
RecordStarted(r, c) ==
    [run |-> [db.run EXCEPT ![r] = [status |-> "running", conv |-> c,
                                    turn |-> next_turn_no(c), report |-> FALSE]],
     step |-> db.step,
     conv |-> [db.conv EXCEPT ![c] = [status |-> "running", latest |-> r]]]

\* _set_active_step_status on the rows of one run.
Settle(rows, state) ==
    [s \in Step |-> IF rows[s].state \in {"running", "paused"}
                    THEN [rows[s] EXCEPT !.state = state]
                    ELSE rows[s]]

\* _record_step.
RecordStep(row, e) ==
    [state |-> IF e.type = "step.completed" THEN "completed" ELSE "running",
     outcome |-> IF e.outcome = NoOutcome THEN row.outcome ELSE e.outcome]

\* The statuses record() gives the run and its conversation.
RowStatus(e, old) ==
    CASE e.type = "hitl.required" -> "waiting_input"
      [] e.type = "hitl.resolved" -> "running"
      [] e.type = "run.completed" -> "completed"
      [] e.type = "run.cancelled" -> "cancelled"
      [] e.type = "run.failed" -> "failed"
      [] OTHER -> old

RecordSteps(rows, e) ==
    IF e.step # NoStep THEN [rows EXCEPT ![e.step] = RecordStep(@, e)] ELSE
    CASE e.type = "hitl.required" -> Settle(rows, "paused")
      [] e.type = "hitl.resolved" -> Settle(rows, "running")
      [] e.type = "run.cancelled" -> Settle(rows, "cancelled")
      [] e.type = "run.failed" -> Settle(rows, "failed")
      [] OTHER -> rows

\* record() of any other event: one commit, nothing when the run has no row.
Record(d, r, e) ==
    IF d.run[r].status = NoRow THEN d ELSE
    LET now == RowStatus(e, d.run[r].status)
    IN  [run |-> [d.run EXCEPT ![r].status = now,
                               ![r].report = @ \/ e.type = "report.completed"],
         step |-> [d.step EXCEPT ![r] = RecordSteps(@, e)],
         conv |-> [d.conv EXCEPT ![d.run[r].conv].status = now]]

\* One record() per event, in order.
RecordAll(r, es) ==
    LET recorded[n \in 0..Len(es)] ==
            IF n = 0 THEN db ELSE Record(recorded[n - 1], r, es[n])
    IN  recorded[Len(es)]

------------------------------------------------------------------------------
\* What an item of the graph stream is shown as.

\* Mutant: every round starts its steps again.
TaskEventsAgain(r, n) == <<StepEvent("step.started", StartStep[n], NoOutcome)>>

\* _handle_task_event.
TaskEvents(r, n) ==
    IF StartStep[n] \in shown[r].started THEN <<>>
    ELSE <<StepEvent("step.started", StartStep[n], NoOutcome)>>

\* _handle_updates, the events of interpret_input itself.
TitleEvents(n, revised) ==
    IF n # "interpret_input" THEN <<>>
    ELSE IF revised
    THEN <<Event("conversation.updated"), Event("requirement.revised")>>
    ELSE <<Event("conversation.updated")>>

\* _project_progress, and the progress event of project_graph_update.
ProgressEvents(n, gs) ==
    CASE n \in {"prepare_work_items", "run_assessment_branch"} ->
            <<StepEvent("step.progress", "parallel_assessment", NoOutcome)>>
      [] n = "generate_dimensions" ->
            <<StepEvent("step.progress", "build_dimensions", gs)>>
      [] OTHER -> <<>>

\* The step an update completes and _emit_projected does not drop.
NewlyCompleted(r, n) ==
    {CompletionStep[m] : m \in {n} \cap CompletionNodes} \ shown[r].completed

\* _emit_projected.
CompletionEvents(r, n, gs) ==
    LET started(s) == IF s \in shown[r].started THEN <<>>
                      ELSE <<StepEvent("step.started", s, NoOutcome)>>
        completed(s) == <<StepEvent("step.completed", s, gs)>>
    IN  IF NewlyCompleted(r, n) = {} THEN <<>>
        ELSE started(CompletionStep[n]) \o completed(CompletionStep[n])

\* _emit_report.
ReportEvents(r, n) ==
    IF n = "validate_report" /\ ~shown[r].reported
    THEN <<Event("report.completed")>> ELSE <<>>

UpdateEvents(r, n, gs, revised) ==
    TitleEvents(n, revised) \o ProgressEvents(n, gs)
        \o CompletionEvents(r, n, gs) \o ReportEvents(r, n)

\* The fields _handle_updates, _emit_projected and _emit_report leave behind.
AfterUpdate(r, n, gs) ==
    [started |-> shown[r].started \cup NewlyCompleted(r, n),
     completed |-> shown[r].completed \cup NewlyCompleted(r, n),
     graphStatus |-> gs,
     reported |-> shown[r].reported \/ n = "validate_report"]

\* Where the graph goes after node n when the edge leads to next.
Moves(r, n, next) ==
    IF n = "run_assessment_branch" /\ graph[r].branches > 1
    THEN {[graph[r] EXCEPT !.branches = @ - 1]}
    ELSE {[graph[r] EXCEPT !.at = At(next), !.branches = b] :
            b \in IF next = "run_assessment_branch" THEN 1..MaxBranches ELSE {0}}

------------------------------------------------------------------------------
\* Emitting.

\* Every event is appended and recorded.
Shows(r, es) ==
    /\ events' = [events EXCEPT ![r] = @ \o es]
    /\ db' = RecordAll(r, es)
    /\ UNCHANGED faults

\* Mutant: the event is emitted and the status left as it is.
FailsSilently(r, es, stored) ==
    /\ stored = Len(es)
    /\ Shows(r, es \o <<Event("run.failed")>>)
    /\ task' = [task EXCEPT ![r] = "done"]
    /\ UNCHANGED status

(***************************************************************************)
(* The except branch of _execute, after the first `stored` events of es    *)
(* were recorded and, if any is left, record() raised on the next one,     *)
(* which is already in the log.  run.failed is appended; recording it may  *)
(* fail as well, and then the exception ends the task unhandled.           *)
(***************************************************************************)
FailsAfter(r, es, stored) ==
    LET left == IF stored < Len(es) THEN 1 ELSE 0
        failed == Event("run.failed")
    IN  /\ status' = [status EXCEPT ![r] = "failed"]
        /\ events' = [events EXCEPT
                        ![r] = @ \o SubSeq(es, 1, stored + left) \o <<failed>>]
        /\ task' = [task EXCEPT ![r] = "done"]
        /\ \E lost \in {0, 1} :
            /\ faults + left + lost <= MaxStoreFailures
            /\ faults' = faults + left + lost
            /\ db' = RecordAll(r, SubSeq(es, 1, stored)
                                    \o IF lost = 0 THEN <<failed>> ELSE <<>>)

\* record() raises on one of the events.
Breaks(r, es) == \E k \in 1..Len(es) : FailsAfter(r, es, k - 1)

------------------------------------------------------------------------------
Init ==
    /\ status = [r \in Run |-> "absent"]
    /\ conv = [r \in Run |-> NoConversation]
    /\ events = [r \in Run |-> <<>>]
    /\ pending = [r \in Run |-> NoInterrupt]
    /\ shown = [r \in Run |-> Fresh]
    /\ task = [r \in Run |-> "none"]
    /\ convRuns = [c \in Conversation |-> <<>>]
    /\ graph = [r \in Run |-> AtEntry]
    /\ db = [run |-> [r \in Run |-> NoRunRow],
             step |-> [r \in Run |-> [s \in Step |-> NoStepRow]],
             conv |-> [c \in Conversation |-> NoConvRow]]
    /\ faults = 0
    /\ restarts = 0

\* Mutant: only a run that is working refuses the next one.
AdmitsUnlessRunning(c) == convRuns[c] # <<>> => status[Last(convRuns[c])] # "running"

\* create_run only looks at the newest run of the conversation.
Admits(c) == convRuns[c] # <<>> => status[Last(convRuns[c])] \in TERMINAL_STATUSES

(***************************************************************************)
(* create_run.  When record() raises on run.started the run stays in _runs *)
(* and in _conversation_runs as running, without task and without row.     *)
(***************************************************************************)
CreateRun(r, c) ==
    /\ status[r] = "absent"
    /\ Admits(c)
    /\ status' = [status EXCEPT ![r] = "running"]
    /\ conv' = [conv EXCEPT ![r] = c]
    /\ convRuns' = [convRuns EXCEPT ![c] = Append(@, r)]
    /\ events' = [events EXCEPT ![r] = <<Event("run.started")>>]
    /\ \/ /\ db' = RecordStarted(r, c)
          /\ task' = [task EXCEPT ![r] = "running"]
          /\ UNCHANGED faults
       \/ /\ faults < MaxStoreFailures
          /\ faults' = faults + 1
          /\ UNCHANGED <<db, task>>
    /\ UNCHANGED <<pending, shown, graph, restarts>>

\* _execute has the next item of the stream and finds the run not cancelled.
Reads(r, item) ==
    /\ task[r] = "running"
    /\ status[r] # "cancelled"
    /\ graph[r].at[2] = item

\* _handle_task_event.
StartNode(r) ==
    LET n == graph[r].at[1]
        es == TaskEvents(r, n)
    IN  /\ Reads(r, "start")
        /\ \/ /\ Shows(r, es)
              /\ shown' = [shown EXCEPT ![r].started = @ \cup {StartStep[n]}]
              /\ graph' = [graph EXCEPT ![r].at = <<n, "update">>]
              /\ UNCHANGED <<status, task>>
           \/ Breaks(r, es) /\ UNCHANGED <<shown, graph>>
        /\ UNCHANGED <<conv, pending, convRuns, restarts>>

\* _handle_updates of a node's update.
UpdateNode(r) ==
    /\ Reads(r, "update")
    /\ \E e \in Edges, revised \in BOOLEAN :
        LET n == e[1]
            gs == e[2]
            es == UpdateEvents(r, n, gs, revised)
        IN  /\ n = graph[r].at[1]
            /\ revised => n = "interpret_input"
            /\ \/ /\ Shows(r, es)
                  /\ shown' = [shown EXCEPT ![r] = AfterUpdate(r, n, gs)]
                  /\ \E g \in Moves(r, n, e[3]) : graph' = [graph EXCEPT ![r] = g]
                  /\ UNCHANGED <<status, task>>
               \/ Breaks(r, es) /\ UNCHANGED <<shown, graph>>
    /\ UNCHANGED <<conv, pending, convRuns, restarts>>

\* _handle_updates of __interrupt__: _execute returns and the task is done.
Ask(r) ==
    LET n == graph[r].at[1]
        es == <<Event("hitl.required")>>
    IN  /\ Reads(r, "ask")
        /\ pending' = [pending EXCEPT ![r] = n]
        /\ \/ /\ Shows(r, es)
              /\ status' = [status EXCEPT ![r] = "waiting_input"]
              /\ task' = [task EXCEPT ![r] = "done"]
           \/ Breaks(r, es)
        /\ UNCHANGED <<conv, shown, convRuns, graph, restarts>>

\* The end of _execute: the stream is exhausted.
StreamEnds(r) ==
    LET final == IF shown[r].graphStatus \in FAILED_GRAPH_STATUSES
                 THEN "failed" ELSE "completed"
        es == <<Event(IF final = "failed" THEN "run.failed" ELSE "run.completed")>>
    IN  /\ task[r] = "running"
        /\ status[r] # "cancelled"
        /\ graph[r].at[1] = End
        /\ \/ /\ Shows(r, es)
              /\ status' = [status EXCEPT ![r] = final]
              /\ task' = [task EXCEPT ![r] = "done"]
           \/ Breaks(r, es)
        /\ UNCHANGED <<conv, pending, shown, convRuns, graph, restarts>>

\* A node or the checkpointer raises: nothing was shown of the item.
GraphRaises(r) ==
    /\ task[r] = "running"
    /\ status[r] # "cancelled"
    /\ FailsAfter(r, <<>>, 0)
    /\ UNCHANGED <<conv, pending, shown, convRuns, graph, restarts>>

\* The client learnt the run's id from the answer of create_run.
Addressable(r) == db.run[r].status # NoRow

\* Mutant: only the interrupt is looked at, not the status.
AnswerableByInterrupt(r) == pending[r] # NoInterrupt

Answerable(r) == status[r] = "waiting_input" /\ pending[r] # NoInterrupt

\* Mutant: the run is set running after the event, not before.
ResumeRunLate(r) ==
    LET resolved == Event("hitl.resolved")
        revises == pending[r] = "resolve_requirements"
    IN  /\ Addressable(r)
        /\ Answerable(r)
        /\ revises => graph[r].revisions < MaxRevisions
        /\ pending' = [pending EXCEPT ![r] = NoInterrupt]
        /\ \/ /\ Shows(r, <<resolved>>)
              /\ status' = [status EXCEPT ![r] = "running"]
              /\ task' = [task EXCEPT ![r] = "running"]
              /\ graph' = [graph EXCEPT
                            ![r].at = <<graph[r].at[1], "update">>,
                            ![r].revisions = @ + IF revises THEN 1 ELSE 0]
           \/ /\ faults < MaxStoreFailures
              /\ faults' = faults + 1
              /\ events' = [events EXCEPT ![r] = Append(@, resolved)]
              /\ UNCHANGED <<status, db, task, graph>>
        /\ UNCHANGED <<conv, shown, convRuns, restarts>>

(***************************************************************************)
(* resume_run with a valid answer.  When record() raises on hitl.resolved  *)
(* the interrupt is gone and the run is running, but no task was created.  *)
(***************************************************************************)
ResumeRun(r) ==
    LET resolved == Event("hitl.resolved")
        revises == pending[r] = "resolve_requirements"
    IN  /\ Addressable(r)
        /\ Answerable(r)
        /\ revises => graph[r].revisions < MaxRevisions
        /\ status' = [status EXCEPT ![r] = "running"]
        /\ pending' = [pending EXCEPT ![r] = NoInterrupt]
        /\ \/ /\ Shows(r, <<resolved>>)
              /\ task' = [task EXCEPT ![r] = "running"]
              /\ graph' = [graph EXCEPT
                            ![r].at = <<graph[r].at[1], "update">>,
                            ![r].revisions = @ + IF revises THEN 1 ELSE 0]
           \/ /\ faults < MaxStoreFailures
              /\ faults' = faults + 1
              /\ events' = [events EXCEPT ![r] = Append(@, resolved)]
              /\ UNCHANGED <<db, task, graph>>
        /\ UNCHANGED <<conv, shown, convRuns, restarts>>

\* Mutant: only a second cancel is ignored.
CancellableOnce(r) == status[r] \in RunStatus \ {"cancelled"}

Cancellable(r) == status[r] \in RunStatus \ TERMINAL_STATUSES

\* cancel_run of a run that has not ended.
CancelRun(r) ==
    LET cancelled == Event("run.cancelled")
    IN  /\ Addressable(r)
        /\ Cancellable(r)
        /\ status' = [status EXCEPT ![r] = "cancelled"]
        /\ task' = [task EXCEPT ![r] = IF @ = "running" THEN "unwinding" ELSE @]
        /\ \/ Shows(r, <<cancelled>>)
           \/ /\ faults < MaxStoreFailures
              /\ faults' = faults + 1
              /\ events' = [events EXCEPT ![r] = Append(@, cancelled)]
              /\ UNCHANGED db
        /\ UNCHANGED <<conv, pending, shown, convRuns, graph, restarts>>

\* except asyncio.CancelledError.
Unwind(r) ==
    /\ task[r] = "unwinding"
    /\ task' = [task EXCEPT ![r] = "done"]
    /\ UNCHANGED <<status, conv, events, pending, shown, convRuns, graph, db,
                   faults, restarts>>

\* The process restarts: a new TalentRunManager, the tables stay.
Restart ==
    /\ restarts < MaxRestarts
    /\ restarts' = restarts + 1
    /\ status' = [r \in Run |-> IF Known(r) THEN "lost" ELSE status[r]]
    /\ conv' = [r \in Run |-> NoConversation]
    /\ events' = [r \in Run |-> <<>>]
    /\ pending' = [r \in Run |-> NoInterrupt]
    /\ shown' = [r \in Run |-> Fresh]
    /\ task' = [r \in Run |-> "none"]
    /\ convRuns' = [c \in Conversation |-> <<>>]
    /\ graph' = [r \in Run |-> AtEntry]
    /\ UNCHANGED <<db, faults>>

\* What the event loop does for a run without any client.
TaskStep(r) ==
    StartNode(r) \/ UpdateNode(r) \/ Ask(r) \/ StreamEnds(r) \/ GraphRaises(r) \/ Unwind(r)

ClientStep(r) ==
    (\E c \in Conversation : CreateRun(r, c)) \/ ResumeRun(r) \/ CancelRun(r)

Next == (\E r \in Run : TaskStep(r) \/ ClientStep(r)) \/ Restart

Spec == Init /\ [][Next]_vars

(***************************************************************************)
(* The event loop gets to every ready task.  That a model or tool call     *)
(* returns or raises is an assumption on the environment: the runtime      *)
(* disables its own tool timeout, the client libraries keep theirs.        *)
(***************************************************************************)
Fairness == \A r \in Run : WF_vars(TaskStep(r))

FairSpec == Spec /\ Fairness

------------------------------------------------------------------------------
\* Properties.

ManagerTypeOK ==
    /\ status \in [Run -> RunStatus \cup {"absent", "lost"}]
    /\ conv \in [Run -> Conversation \cup {NoConversation}]
    /\ events \in [Run -> Seq(RunEvent)]
    /\ pending \in [Run -> InterruptNode \cup {NoInterrupt}]
    /\ shown \in [Run -> [started : SUBSET Step, completed : SUBSET Step,
                           graphStatus : GraphStatus, reported : BOOLEAN]]
    /\ task \in [Run -> {"none", "running", "unwinding", "done"}]
    /\ convRuns \in [Conversation -> Seq(Run)]

(***************************************************************************)
(* The admission test of create_run only looks at the newest run of the    *)
(* conversation.  It is enough: a conversation has at most one run that    *)
(* has not ended, it is the newest one, and at most one task is reading    *)
(* the graph of a conversation (runs of one conversation share a           *)
(* checkpoint thread).                                                     *)
(***************************************************************************)
OneActiveRun ==
    /\ \A c \in Conversation : \A i \in 1..Len(convRuns[c]) :
        i < Len(convRuns[c]) => status[convRuns[c][i]] \in TERMINAL_STATUSES
    /\ \A r1, r2 \in Run :
        task[r1] = "running" /\ task[r2] = "running" /\ conv[r1] = conv[r2]
            => r1 = r2

(***************************************************************************)
(* A client that reads the whole event log arrives at the status of the    *)
(* run, also when a store write failed in the middle of a handler.  A      *)
(* client that stops at the first event of a terminal type, as the page    *)
(* does, misses at most one: the run.failed that follows an event whose    *)
(* record() raised.  A cancelled run is never told twice.                  *)
(***************************************************************************)
StatusAfter(type) ==
    CASE type = "hitl.required" -> "waiting_input"
      [] type = "run.completed" -> "completed"
      [] type = "run.cancelled" -> "cancelled"
      [] type = "run.failed" -> "failed"
      [] OTHER -> "running"

LogTellsStatus ==
    \A r \in Run : Known(r) =>
        /\ events[r] # <<>>
        /\ status[r] = StatusAfter(Last(events[r]).type)
        /\ \A i \in 1..(Len(events[r]) - 1) :
            events[r][i].type \in TerminalEvent =>
                /\ i = Len(events[r]) - 1
                /\ status[r] = "failed"
                /\ events[r][i].type # "run.cancelled"

(***************************************************************************)
(* A waiting run can be answered: no task of it is left, the interrupt is  *)
(* kept, and the graph stands at the node that asked.                      *)
(***************************************************************************)
WaitingIsAnswerable ==
    \A r \in Run : status[r] = "waiting_input" =>
        /\ task[r] = "done"
        /\ pending[r] # NoInterrupt
        /\ graph[r].at = <<pending[r], "ask">>

(***************************************************************************)
(* Even when store writes fail, an outcome the history shows as final is   *)
(* the run's outcome: the store may lag behind, it never contradicts.      *)
(***************************************************************************)
StoredOutcomeIsTrue ==
    \A r \in Run : Known(r) /\ db.run[r].status \in TERMINAL_STATUSES
        => db.run[r].status = status[r]

(***************************************************************************)
(* The conversation row is overwritten by every event of any of its runs.  *)
(* It nevertheless always shows its latest run: the status of the run with *)
(* the highest turn number, restarts and failed writes included.           *)
(***************************************************************************)
ConversationShowsLatest ==
    \A c \in Conversation : RowsOf(c) # {} =>
        LET latest == db.conv[c].latest
        IN  /\ latest \in RowsOf(c)
            /\ db.conv[c].status = db.run[latest].status
            /\ \A r \in RowsOf(c) \ {latest} : db.run[r].turn < db.run[latest].turn

(***************************************************************************)
(* A run that ended with a report shows every step completed and has its   *)
(* report stored, whatever rounds of questions it went through.            *)
(***************************************************************************)
ReportedRunIsWhole ==
    \A r \in Run : db.run[r].status = "completed" /\ db.run[r].report =>
        \A s \in Step : db.step[r][s].state = "completed"

(***************************************************************************)
(* Once ended, a run keeps its status and its log: no late item of the     *)
(* graph, second cancel or failing write changes what clients were told.   *)
(***************************************************************************)
EndedIsFinal ==
    [][\A r \in Run : status[r] \in TERMINAL_STATUSES =>
        \/ status'[r] = status[r] /\ events'[r] = events[r]
        \/ status'[r] = "lost"]_vars

(***************************************************************************)
(* While no store write has failed, a running run ends or asks, whatever   *)
(* path the graph takes, and a cancelled task unwinds, unless a restart    *)
(* loses the run.                                                          *)
(***************************************************************************)
RunsEndOrAsk ==
    \A r \in Run : faults = 0 /\ (status[r] = "running" \/ task[r] = "unwinding")
        ~> faults > 0 \/ (status[r] # "running" /\ task[r] \in {"done", "none"})

\* The largest batch: the events of validate_report, when its step was not
\* started.
MaxBatch == 3

Lifecycle(r) ==
    INSTANCE RunLifecycle WITH
        status <- status[r], len <- Len(events[r]), ending <- Ending(events[r])

(***************************************************************************)
(* Each run implements RunLifecycle: no handler, failing or not, moves a   *)
(* run between statuses in another way, and none emits without a running   *)
(* run.                                                                    *)
(***************************************************************************)
ImplementsLifecycle ==
    /\ \A r \in Run : Lifecycle(r)!Init
    /\ [][\A r \in Run : [Lifecycle(r)!Next]_(Lifecycle(r)!vars)]_vars
=============================================================================
