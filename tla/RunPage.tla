------------------------------- MODULE RunPage -------------------------------
(***************************************************************************)
(* The page of a conversation (TalentChatPage.tsx and talentRunState.ts)   *)
(* on top of TalentRun.  What a run looks like is computed twice: by the   *)
(* history store, event by event into rows, and by the page, event by      *)
(* event into its view; and the page can also start from the rows.  The    *)
(* page of this module has applied every event logged so far up to the     *)
(* one at which it closes its EventSource, in order and each once, which   *)
(* is what RunStream shows of its connection.                              *)
(*                                                                         *)
(* The user is one who stays: the page opened the conversation from the    *)
(* history when the server knew none of its runs, and started every run    *)
(* the server knows now.  Times, durations, texts and the order in which   *)
(* turns and steps are listed are left out.                                *)
(***************************************************************************)
EXTENDS TalentRun

NoTurn == [status |-> NoRow, steps |-> [s \in Step |-> NoStepRow], report |-> FALSE]

\* initialRunView of a page that shows the given conversationTurns.
InitialView(turns) ==
    [runId |-> NoRow, status |-> "idle", steps |-> NoTurn.steps,
     interrupt |-> FALSE, report |-> FALSE, turns |-> turns]

\* Mutant: a step that waits for an answer stays so when the run is cancelled.
FreezeRunning(steps, state) ==
    [s \in Step |-> IF steps[s].state = "running" THEN [steps[s] EXCEPT !.state = state]
                    ELSE steps[s]]

\* freezeRunningSteps.
Freeze(steps, state) ==
    [s \in Step |->
        IF steps[s].state = "running" \/ (steps[s].state = "paused" /\ state # "paused")
        THEN [steps[s] EXCEPT !.state = state]
        ELSE steps[s]]

\* reduceRunEvent on hitl.resolved: the paused steps go on.
Thaw(steps) ==
    [s \in Step |-> IF steps[s].state = "paused" THEN [steps[s] EXCEPT !.state = "running"]
                    ELSE steps[s]]

\* updateStep.
UpdateStep(steps, e) ==
    [steps EXCEPT ![e.step] =
        [state |-> IF e.type = "step.completed" THEN "completed" ELSE "running",
         outcome |-> IF e.outcome # NoOutcome THEN e.outcome ELSE @.outcome]]

\* snapshotCurrentTurn: later the turn is shown from this copy.
SnapshotCurrentTurn(view) ==
    [view EXCEPT !.turns[view.runId] =
        [status |-> view.status, steps |-> view.steps, report |-> view.report]]

\* The cases of reduceRunEvent that end a run.
Ended(view, outcome, steps) ==
    SnapshotCurrentTurn([view EXCEPT !.status = outcome, !.interrupt = FALSE, !.steps = steps])

\* Mutant: the question stays on the page after its answer.
AnsweredKeeping(view) == [view EXCEPT !.status = "running", !.steps = Thaw(@)]

\* reduceRunEvent on hitl.resolved.
Answered(view) ==
    [view EXCEPT !.status = "running", !.interrupt = FALSE, !.steps = Thaw(@)]

\* reduceRunEvent, for an event of run r its sequence test lets through.
ReduceRunEvent(view, r, e) ==
    CASE e.type = "run.started" ->
            [view EXCEPT !.runId = r, !.status = "running",
                         !.turns[r] = [NoTurn EXCEPT !.status = "running"]]
      [] e.step # NoStep ->
            [view EXCEPT !.status = "running", !.steps = UpdateStep(@, e)]
      [] e.type = "hitl.required" ->
            [view EXCEPT !.status = "waiting_input", !.interrupt = TRUE,
                         !.steps = Freeze(@, "paused")]
      [] e.type = "hitl.resolved" -> Answered(view)
      [] e.type = "report.completed" -> [view EXCEPT !.report = TRUE]
      [] e.type = "run.completed" -> Ended(view, "completed", view.steps)
      [] e.type = "run.cancelled" -> Ended(view, "cancelled", Freeze(view.steps, "cancelled"))
      [] e.type = "run.failed" -> Ended(view, "failed", Freeze(view.steps, "failed"))
      [] OTHER -> view

------------------------------------------------------------------------------
\* From the rows.

\* One entry of conversation_turns in the answer of get_run.
HistoryTurn(r) ==
    [status |-> db.run[r].status, steps |-> db.step[r], report |-> db.run[r].report]

\* historyDetailToRunView, of the newest run in the history of c among rs.
OpenHistory(c, rs) ==
    LET turns == [r \in Run |-> IF r \in rs THEN HistoryTurn(r) ELSE NoTurn]
        r == CHOOSE i \in rs : \A k \in rs : db.run[k].turn <= db.run[i].turn
    IN  IF rs = {} THEN InitialView(turns)
        ELSE [runId |-> r, status |-> turns[r].status, steps |-> turns[r].steps,
              interrupt |-> FALSE, report |-> turns[r].report, turns |-> turns]

------------------------------------------------------------------------------
\* The page of a conversation.

\* The view after the events es of run r were applied to it, in order.
ViewAfter(view, r, es) ==
    LET reduced[n \in 0..Len(es)] ==
            IF n = 0 THEN view ELSE ReduceRunEvent(reduced[n - 1], r, es[n])
    IN  reduced[Len(es)]

\* applyEvent closes the EventSource at the first event of a terminal type: a
\* run.failed after it is never received.
Received(log) == IF Ending(log) = 0 THEN log ELSE SubSeq(log, 1, Ending(log))

\* startRun: the answer of create_run, then the events; or its error.
FollowRun(view, r) ==
    IF Addressable(r)
    THEN ViewAfter([InitialView(view.turns) EXCEPT !.runId = r, !.status = "running"],
                   r, Received(events[r]))
    ELSE [InitialView(view.turns) EXCEPT !.status = "failed"]

\* The view after all runs of rs were followed, one after the other.
FollowRuns(view, rs) ==
    LET followed[n \in 0..Len(rs)] ==
            IF n = 0 THEN view ELSE FollowRun(followed[n - 1], rs[n])
    IN  followed[Len(rs)]

PageOf(c) == FollowRuns(OpenHistory(c, {r \in RowsOf(c) : ~Known(r)}), convRuns[c])

\* What the page renders for a turn.
ShownTurn(view, r) ==
    IF r = view.runId
    THEN [status |-> view.status, steps |-> view.steps, report |-> view.report]
    ELSE view.turns[r]

\* getComposerPolicy.
ComposerLocked(view) == view.status \in {"running", "waiting_input"}

------------------------------------------------------------------------------
\* Properties.

(***************************************************************************)
(* talentRunState.ts and talent_run_history.py fold the same events in two *)
(* languages, and a reader who reopens a conversation must find what he    *)
(* saw: while no store write has failed, every turn of the conversation    *)
(* that the page shows (from its view, or from the copy it took when the   *)
(* turn ended) has the status, steps, outcomes and report of the rows.     *)
(***************************************************************************)
PageAgreesWithHistory ==
    faults = 0 => \A c \in Conversation :
        LET view == PageOf(c)
        IN  \A r \in RowsOf(c) : ShownTurn(view, r) = HistoryTurn(r)

(***************************************************************************)
(* Store writes may fail, and still the page offers what the manager will  *)
(* take: the question of a run is shown exactly while the run waits for    *)
(* its answer, the composer is free exactly when create_run would admit a  *)
(* turn, and no step is shown at work while the run waits, nor at work or  *)
(* waiting once the run is shown cancelled or failed.  The status shown is *)
(* the run's, except when run.completed was sent and could not be stored:  *)
(* the page has closed at it and shows a failed run as completed.          *)
(***************************************************************************)
PageFollowsRun ==
    \A c \in Conversation : convRuns[c] # <<>> =>
        LET r == Last(convRuns[c])
            view == PageOf(c)
            shows(states) == \E s \in Step : view.steps[s].state \in states
        IN  Addressable(r) =>
                /\ view.interrupt <=> Answerable(r)
                /\ ComposerLocked(view) <=> ~Admits(c)
                /\ \/ view.status = status[r]
                   \/ view.status = "completed" /\ status[r] = "failed" /\ faults > 0
                /\ view.status = "waiting_input" => ~shows({"running"})
                /\ view.status \in {"cancelled", "failed"} => ~shows({"running", "paused"})
=============================================================================
