---------------------------- MODULE RunLifecycle ----------------------------
(***************************************************************************)
(* What the run manager promises about one run, whatever the decision      *)
(* graph does and whichever store write fails: the statuses a run goes     *)
(* through, how its event log grows with them and where in the log a       *)
(* client first reads that the run ended.  TalentRun implements this       *)
(* module for every run; RunStream serves a run that behaves so to a       *)
(* browser.                                                                *)
(***************************************************************************)
EXTENDS Naturals

CONSTANT MaxBatch   \* most events one item of the graph stream can produce

ASSUME BatchAssumption == MaxBatch \in Nat \ {0}

VARIABLES
    status,     \* status of the run, or why the manager does not know it
    len,        \* number of events in its log
    ending      \* number of the first event of a terminal type, 0 without one

vars == <<status, len, ending>>

\* RunStatus, and the two ways for a run not to be in TalentRunManager._runs:
\* not created yet, or forgotten when the process restarted.
TERMINAL_STATUSES == {"completed", "cancelled", "failed"}
RunStatus == {"running", "waiting_input"} \cup TERMINAL_STATUSES
Init == status = "absent" /\ len = 0 /\ ending = 0

Create ==
    /\ status = "absent"
    /\ status' = "running"
    /\ len' = 1
    /\ UNCHANGED ending

\* An item of the graph stream is shown.
Progress ==
    /\ status = "running"
    /\ \E n \in 0..MaxBatch : len' = len + n
    /\ UNCHANGED <<status, ending>>

\* hitl.required.
Pause ==
    /\ status = "running"
    /\ status' = "waiting_input"
    /\ len' = len + 1
    /\ UNCHANGED ending

\* hitl.resolved.
Resume ==
    /\ status = "waiting_input"
    /\ status' = "running"
    /\ len' = len + 1
    /\ UNCHANGED ending

Complete ==
    /\ status = "running"
    /\ status' = "completed"
    /\ len' = len + 1
    /\ ending' = len'

Cancel ==
    /\ status \in {"running", "waiting_input"}
    /\ status' = "cancelled"
    /\ len' = len + 1
    /\ ending' = len'

\* A failing item may leave some of its events behind before run.failed, the
\* last of them run.completed when that was the event that could not be stored.
Fail ==
    /\ status = "running"
    /\ status' = "failed"
    /\ \E n \in 0..MaxBatch :
        /\ len' = len + n + 1
        /\ ending' = len' \/ (n > 0 /\ ending' = len + n)

\* The process restarts: the manager no longer knows the run.
Lose ==
    /\ status \in RunStatus
    /\ status' = "lost"
    /\ len' = 0
    /\ ending' = 0

Next == Create \/ Progress \/ Pause \/ Resume \/ Complete \/ Cancel \/ Fail \/ Lose

Spec == Init /\ [][Next]_vars
=============================================================================
