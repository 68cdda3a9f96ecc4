------------------------------ MODULE RunStream ------------------------------
(***************************************************************************)
(* One run (RunLifecycle), the SSE response that serves its log            *)
(* (stream_run_events in talent_run_api) and the page that reads it        *)
(* (connect in TalentChatPage.tsx, reduceRunEvent in talentRunState.ts).   *)
(*                                                                         *)
(* generate() runs in the event loop of the manager.  It is suspended at   *)
(* each yield (the http middleware of main.py hands every chunk over       *)
(* through an unbuffered channel) and while it waits; between two          *)
(* suspensions nothing else happens, so a snapshot that has nothing to     *)
(* send is taken and the test of a finished run is made in one step.       *)
(*                                                                         *)
(* A connection delivers in order until it drops; what was on the way is   *)
(* then lost.  The EventSource of the page reconnects by itself, also      *)
(* after the server ended the response, and the server starts from the     *)
(* first event again: it does not read Last-Event-ID.                      *)
(*                                                                         *)
(* A page that opens a conversation from the history, or a new one, closes *)
(* its EventSource and shows rows from then on; nothing on the page        *)
(* connects to an existing run again.                                      *)
(***************************************************************************)
EXTENDS RunLifecycle, Sequences

CONSTANTS
    MaxEvents,  \* bound: a log this long only takes the event that ends the run
    MaxDrops    \* bound: connections that drop

ASSUME StreamBoundsAssumption == MaxEvents \in Nat /\ MaxDrops \in Nat

VARIABLES
    generator,  \* where generate() is, "none" when no response is open
    cursor,     \* its cursor, the sequence number last yielded
    upto,       \* the last event of its snapshot events_since(cursor)
    wire,       \* sequence numbers sent and not yet received
    source,     \* the page's EventSource
    applied,    \* sequence numbers the page's reducer let through
    drops       \* connections dropped so far

run == <<status, len, ending>>
server == <<generator, cursor, upto>>
streamVars == <<run, server, wire, source, applied, drops>>

Finished == status \in TERMINAL_STATUSES

\* Mutant: the page also closes on a question.
IsQuestionOrTerminal(sequence) ==
    \/ status = "waiting_input" /\ sequence = len
    \/ Finished /\ sequence >= ending

\* shouldCloseStreamForEvent: a terminal type.  Two events of a log can have
\* one, its last two (TalentRun!LogTellsStatus).
IsTerminal(sequence) == Finished /\ sequence >= ending

\* RunView.lastSequence.
lastSequence == IF applied = <<>> THEN 0 ELSE applied[Len(applied)]

StreamInit ==
    /\ Init
    /\ generator = "none" /\ cursor = 0 /\ upto = 0
    /\ wire = <<>>
    /\ source = "none"
    /\ applied = <<>>
    /\ drops = 0

\* connect(), right after the answer of create_run.
Connect ==
    /\ source = "none"
    /\ status \in RunStatus
    /\ source' = "open"
    /\ generator' = "top" /\ cursor' = 0 /\ upto' = 0
    /\ UNCHANGED <<run, wire, applied, drops>>

\* events = events_since(cursor); without any, the loop body runs through.
Snapshot ==
    /\ generator = "top"
    /\ upto' = len
    /\ generator' = IF len > cursor THEN "yield"
                    ELSE IF Finished THEN "returned" ELSE "wait"
    /\ UNCHANGED <<run, cursor, wire, source, applied, drops>>

\* One yield, at which the generator may be suspended.
Yield ==
    /\ generator = "yield"
    /\ cursor < upto
    /\ cursor' = cursor + 1
    /\ wire' = Append(wire, cursor + 1)
    /\ UNCHANGED <<run, generator, upto, source, applied, drops>>

\* The for loop is over: is_stream_finished, then wait_for_change.
AfterYields ==
    /\ generator = "yield"
    /\ cursor = upto
    /\ generator' = IF Finished THEN "returned"
                    ELSE IF len > cursor THEN "top" ELSE "wait"
    /\ UNCHANGED <<run, cursor, upto, wire, source, applied, drops>>

\* Mutant: only the end of the run notifies, and the wait has no timeout.
WakeOnEnd ==
    /\ generator = "wait"
    /\ Finished
    /\ generator' = "top"
    /\ UNCHANGED <<run, cursor, upto, wire, source, applied, drops>>

\* _notify, or the timeout of wait_for_change.
Wake ==
    /\ generator = "wait"
    /\ generator' = "top"
    /\ UNCHANGED <<run, cursor, upto, wire, source, applied, drops>>

\* reduceRunEvent lets an event through.
Reduce(sequence) ==
    IF sequence > lastSequence THEN Append(applied, sequence) ELSE applied

\* An event arrives: reduceRunEvent, and close() on a terminal event.
Deliver ==
    LET sequence == Head(wire)
    IN  /\ wire # <<>>
        /\ applied' = Reduce(sequence)
        /\ IF IsTerminal(sequence)
           THEN /\ source' = "closed"
                /\ generator' = "none"
                /\ wire' = <<>>
           ELSE /\ wire' = Tail(wire)
                /\ UNCHANGED <<source, generator>>
        /\ UNCHANGED <<run, cursor, upto, drops>>

\* The page sees the end of a response that the server ended.
ResponseEnds ==
    /\ generator = "returned"
    /\ wire = <<>>
    /\ generator' = "none"
    /\ source' = "reconnecting"
    /\ UNCHANGED <<run, cursor, upto, wire, applied, drops>>

\* The network drops the connection; is_disconnected ends the generator.
Drop ==
    /\ source = "open"
    /\ drops < MaxDrops
    /\ drops' = drops + 1
    /\ wire' = <<>>
    /\ generator' = "none"
    /\ source' = "reconnecting"
    /\ UNCHANGED <<run, cursor, upto, applied>>

\* Mutant: a new response continues where the last one stopped.
ReconnectWhereLeft ==
    /\ source = "reconnecting"
    /\ IF status = "lost"
       THEN source' = "failed" /\ UNCHANGED generator
       ELSE source' = "open" /\ generator' = "top"
    /\ UNCHANGED <<run, cursor, upto, wire, applied, drops>>

\* The EventSource retries; get_run raises for a run the server has lost,
\* and after the 404 it does not try again.
Reconnect ==
    /\ source = "reconnecting"
    /\ IF status = "lost"
       THEN source' = "failed" /\ UNCHANGED server
       ELSE source' = "open" /\ generator' = "top" /\ cursor' = 0 /\ upto' = 0
    /\ UNCHANGED <<run, wire, applied, drops>>

\* openHistory and reset close the EventSource.
Leave ==
    /\ source \in {"open", "reconnecting"}
    /\ source' = "left"
    /\ generator' = "none"
    /\ wire' = <<>>
    /\ UNCHANGED <<run, cursor, upto, applied, drops>>

\* What the run does meanwhile.
RunStep ==
    /\ \/ (Progress \/ Pause \/ Resume) /\ len' <= MaxEvents
       \/ Create \/ Complete \/ Cancel \/ Fail
    /\ UNCHANGED <<server, wire, source, applied, drops>>

\* A restart of the server takes the open response with it.
ServerRestarts ==
    /\ Lose
    /\ generator' = "none"
    /\ wire' = <<>>
    /\ source' = IF source = "open" THEN "reconnecting" ELSE source
    /\ UNCHANGED <<cursor, upto, applied, drops>>

ServerStep == Snapshot \/ Yield \/ AfterYields \/ Wake
PageStep == Connect \/ Deliver \/ ResponseEnds \/ Reconnect

StreamNext ==
    RunStep \/ ServerRestarts \/ ServerStep \/ PageStep \/ Drop \/ Leave

StreamSpec == StreamInit /\ [][StreamNext]_streamVars

\* The event loop schedules the generator, TCP delivers on a connection that
\* holds, and an EventSource retries until it is answered.
StreamFairSpec == StreamSpec /\ WF_streamVars(ServerStep) /\ WF_streamVars(PageStep)

------------------------------------------------------------------------------
\* Properties.

(***************************************************************************)
(* Whatever drops, reconnections and replays happen, the reducer of the    *)
(* page applies the events 1, 2, 3, ... in order, each once and none left  *)
(* out, never one the server has not logged, and none after the event it   *)
(* takes for the end of the run.                                           *)
(***************************************************************************)
AppliedInOrder ==
    /\ \A i \in 1..Len(applied) : applied[i] = i
    /\ status # "lost" => Len(applied) <= len
    /\ Finished => Len(applied) <= ending

(***************************************************************************)
(* The page gives up its EventSource only at the event that ends the run,  *)
(* or when the server has forgotten the run.  It then has the whole log,   *)
(* except of a failed run: the run.failed that follows an event whose      *)
(* record() raised is not read any more when that event was run.completed. *)
(***************************************************************************)
ClosesComplete ==
    /\ source = "closed" =>
        \/ status = "lost"
        \/ /\ Finished /\ lastSequence = ending
           /\ lastSequence = len \/ (status = "failed" /\ lastSequence = len - 1)
    /\ source = "failed" => status = "lost"

(***************************************************************************)
(* A page that is not left catches up with its run: a question reaches it  *)
(* unless it is withdrawn, and of a run that ended it has every event up   *)
(* to the first one that says so and closes its EventSource, also when     *)
(* connections drop, and although the server can end a response before     *)
(* the terminal event was sent (the run ends during a yield, and           *)
(* is_stream_finished is tested before the log is read again).             *)
(***************************************************************************)
PageCatchesUp ==
    status = "waiting_input" \/ Finished
        ~> \/ source = "left" \/ status \in {"running", "lost"}
           \/ status = "waiting_input" /\ lastSequence = len
           \/ Finished /\ lastSequence = ending /\ source = "closed"
=============================================================================
