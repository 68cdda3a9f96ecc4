--------------------------- MODULE TalentRun_proofs ---------------------------
(***************************************************************************)
(* Proofs about TalentRun for every set of runs and conversations and      *)
(* every bound.                                                            *)
(***************************************************************************)
EXTENDS TalentRun, SequenceTheorems, WellFoundedInduction, TLAPS

------------------------------------------------------------------------------
\* The events of graph items.

\* Events that leave a run running.
QuietEvent == {e \in RunEvent : StatusAfter(e.type) = "running"}

\* A step event leaves its run running.
LEMMA StepEventQuiet ==
    ASSUME NEW type \in {"step.started", "step.progress", "step.completed"},
           NEW s \in Step, NEW o \in GraphStatus
    PROVE  StepEvent(type, s, o) \in QuietEvent
BY DEF StepEvent, QuietEvent, RunEvent, EventType, TerminalEvent, StatusAfter

\* An event without a step is typed and keeps its type.
LEMMA EventTyped ==
    \A type \in EventType : Event(type) \in RunEvent /\ Event(type).type = type
BY DEF Event, RunEvent, NoStep, NoOutcome, GraphStatus

\* Both projection tables give steps.
LEMMA StepTables ==
    /\ \A n \in StartNodes : StartStep[n] \in Step
    /\ \A n \in CompletionNodes : CompletionStep[n] \in Step
BY DEF StartStep, CompletionStep, StartNodes, CompletionNodes, Step

\* No outcome is an outcome a step event may carry.
LEMMA NoOutcomeTyped == NoOutcome \in GraphStatus
BY DEF NoOutcome, GraphStatus

\* The events of a task item leave the run running, and are few.
LEMMA TaskEventsQuiet ==
    ASSUME NEW r, NEW n \in StartNodes
    PROVE  /\ TaskEvents(r, n) \in Seq(QuietEvent)
           /\ Len(TaskEvents(r, n)) \in 0..MaxBatch
<1> DEFINE e == StepEvent("step.started", StartStep[n], NoOutcome)
<1>1. e \in QuietEvent
  BY StepTables, NoOutcomeTyped, StepEventQuiet
<1>2. <<e>> \in Seq(QuietEvent) /\ Len(<<e>>) = 1
  BY <1>1
<1>3. <<>> \in Seq(QuietEvent) /\ Len(<<>>) = 0
  OBVIOUS
<1> HIDE DEF e
<1> QED BY <1>2, <1>3 DEF TaskEvents, MaxBatch, e

\* So do those of interpret_input, which only that node has.
LEMMA TitleEventsQuiet ==
    ASSUME NEW n, NEW revised \in BOOLEAN
    PROVE  /\ TitleEvents(n, revised) \in Seq(QuietEvent)
           /\ Len(TitleEvents(n, revised)) \in 0..2
           /\ n # "interpret_input" => TitleEvents(n, revised) = <<>>
<1> DEFINE u == Event("conversation.updated")
           v == Event("requirement.revised")
<1>1. u \in QuietEvent /\ v \in QuietEvent
  BY DEF Event, QuietEvent, RunEvent, EventType, TerminalEvent, StatusAfter,
         NoStep, NoOutcome, GraphStatus
<1>2. /\ <<u>> \in Seq(QuietEvent) /\ Len(<<u>>) = 1
      /\ <<u, v>> \in Seq(QuietEvent) /\ Len(<<u, v>>) = 2
      /\ <<>> \in Seq(QuietEvent) /\ Len(<<>>) = 0
  BY <1>1
<1> HIDE DEF u, v
<1> QED BY <1>2 DEF TitleEvents, u, v

\* So does a progress event, which no completing node has.
LEMMA ProgressEventsQuiet ==
    ASSUME NEW n, NEW gs \in GraphStatus
    PROVE  /\ ProgressEvents(n, gs) \in Seq(QuietEvent)
           /\ Len(ProgressEvents(n, gs)) \in 0..1
           /\ n \in CompletionNodes => ProgressEvents(n, gs) = <<>>
<1> DEFINE p == StepEvent("step.progress", "parallel_assessment", NoOutcome)
           d == StepEvent("step.progress", "build_dimensions", gs)
<1>1. p \in QuietEvent /\ d \in QuietEvent
  BY NoOutcomeTyped, StepEventQuiet DEF Step
<1>2. <<p>> \in Seq(QuietEvent) /\ <<d>> \in Seq(QuietEvent)
  BY <1>1
<1> HIDE DEF p, d
<1> QED BY <1>2 DEF ProgressEvents, CompletionNodes, p, d

\* So do the events of a completed step.
LEMMA CompletionEventsQuiet ==
    ASSUME NEW r, NEW n, NEW gs \in GraphStatus
    PROVE  /\ CompletionEvents(r, n, gs) \in Seq(QuietEvent)
           /\ Len(CompletionEvents(r, n, gs)) \in 0..2
           /\ n \notin CompletionNodes => CompletionEvents(r, n, gs) = <<>>
<1>1. CASE NewlyCompleted(r, n) = {}
  BY <1>1 DEF CompletionEvents
<1>2. CASE NewlyCompleted(r, n) # {}
  <2> DEFINE s == CompletionStep[n]
             b == StepEvent("step.started", s, NoOutcome)
             c == StepEvent("step.completed", s, gs)
  <2>1. n \in CompletionNodes
    BY <1>2 DEF NewlyCompleted
  <2>2. b \in QuietEvent /\ c \in QuietEvent
    BY <2>1, StepTables, NoOutcomeTyped, StepEventQuiet
  <2> HIDE DEF b, c
  <2>3. /\ <<>> \in Seq(QuietEvent) /\ Len(<<>>) = 0
        /\ <<b>> \in Seq(QuietEvent) /\ Len(<<b>>) = 1
        /\ <<c>> \in Seq(QuietEvent) /\ Len(<<c>>) = 1
    BY <2>2
  <2> DEFINE x == <<>> \o <<c>>
             y == <<b>> \o <<c>>
  <2>4. /\ x \in Seq(QuietEvent) /\ Len(x) \in 0..2
        /\ y \in Seq(QuietEvent) /\ Len(y) \in 0..2
    BY <2>3, ConcatProperties
  <2>5. CompletionEvents(r, n, gs) = x \/ CompletionEvents(r, n, gs) = y
    BY <1>2 DEF CompletionEvents, b, c
  <2> HIDE DEF x, y, s
  <2> QED BY <2>1, <2>4, <2>5
<1> QED BY <1>1, <1>2

\* So does the report.
LEMMA ReportEventsQuiet ==
    ASSUME NEW r, NEW n
    PROVE  /\ ReportEvents(r, n) \in Seq(QuietEvent)
           /\ Len(ReportEvents(r, n)) \in 0..1
           /\ n # "validate_report" => ReportEvents(r, n) = <<>>
<1> DEFINE e == Event("report.completed")
<1>1. e \in QuietEvent
  BY DEF Event, QuietEvent, RunEvent, EventType, TerminalEvent, StatusAfter,
         NoStep, NoOutcome, GraphStatus
<1>2. <<e>> \in Seq(QuietEvent)
  BY <1>1
<1> HIDE DEF e
<1> QED BY <1>2 DEF ReportEvents, e

\* What an update is shown as keeps the run running, in at most three events.
LEMMA UpdateEventsQuiet ==
    ASSUME NEW r, NEW n, NEW gs \in GraphStatus, NEW revised \in BOOLEAN
    PROVE  /\ UpdateEvents(r, n, gs, revised) \in Seq(QuietEvent)
           /\ Len(UpdateEvents(r, n, gs, revised)) \in 0..MaxBatch
<1> DEFINE a == TitleEvents(n, revised)
           b == ProgressEvents(n, gs)
           c == CompletionEvents(r, n, gs)
           d == ReportEvents(r, n)
<1>1. a \in Seq(QuietEvent) /\ Len(a) \in 0..2 /\ (n # "interpret_input" => a = <<>>)
  BY TitleEventsQuiet
<1>2. b \in Seq(QuietEvent) /\ Len(b) \in 0..1 /\ (n \in CompletionNodes => b = <<>>)
  BY ProgressEventsQuiet
<1>3. c \in Seq(QuietEvent) /\ Len(c) \in 0..2 /\ (n \notin CompletionNodes => c = <<>>)
  BY CompletionEventsQuiet
<1>4. d \in Seq(QuietEvent) /\ Len(d) \in 0..1 /\ (n # "validate_report" => d = <<>>)
  BY ReportEventsQuiet
<1> HIDE DEF a, b, c, d
<1>5. a \o b \o c \o d \in Seq(QuietEvent)
  BY <1>1, <1>2, <1>3, <1>4
<1>6. Len(a \o b \o c \o d) = Len(a) + Len(b) + Len(c) + Len(d)
  BY <1>1, <1>2, <1>3, <1>4
<1>7. Len(a) + Len(b) + Len(c) + Len(d) \in 0..MaxBatch
  <2>1. Len(<<>>) \in 0..0
    OBVIOUS
  <2>2. "interpret_input" \notin CompletionNodes /\ "validate_report" \in CompletionNodes
    BY DEF CompletionNodes
  <2> DEFINE la == Len(a)
             lb == Len(b)
             lc == Len(c)
             ld == Len(d)
  <2>3. la \in 0..2 /\ lb \in 0..1 /\ lc \in 0..2 /\ ld \in 0..1
    BY <1>1, <1>2, <1>3, <1>4
  <2>4. (la \in 0..0 /\ lb \in 0..0) \/ (lc \in 0..0 /\ ld \in 0..0)
    BY <2>1, <2>2, <1>1, <1>2, <1>3, <1>4
  <2> HIDE DEF la, lb, lc, ld
  <2>5. la + lb + lc + ld \in 0..3
    BY <2>3, <2>4
  <2> QED BY <2>5 DEF MaxBatch, la, lb, lc, ld
<1> QED BY <1>5, <1>6, <1>7 DEF UpdateEvents, a, b, c, d

------------------------------------------------------------------------------
(***************************************************************************)
(* The inductive invariant.  RunOK is what it says of one run the manager  *)
(* knows, as a predicate of the values a handler writes: status, log,      *)
(* pending interrupt, projection, task and place in the graph.             *)
(***************************************************************************)
Shown == [started : SUBSET Step, completed : SUBSET Step,
          graphStatus : GraphStatus, reported : BOOLEAN]
TaskState == {"none", "running", "unwinding", "done"}
Place == [at : Position, branches : Nat, revisions : Nat]

PlaceOK(g) ==
    /\ g \in Place
    /\ g.at[2] = "ask" => g.at[1] \in InterruptNode
    /\ g.at[2] = "start" => g.at[1] \in StartNodes

\* The status is that of the last event.  Another event can have ended the log
\* for a client only right before a run.failed.
LogOK(v, l) ==
    /\ l # <<>> /\ v = StatusAfter(Last(l).type)
    /\ \A i \in 1..(Len(l) - 1) : l[i].type \in TerminalEvent =>
        i = Len(l) - 1 /\ v = "failed" /\ l[i].type # "run.cancelled"

RunOK(v, l, p, s, t, g) ==
    /\ v \in RunStatus
    /\ l \in Seq(RunEvent)
    /\ p \in InterruptNode \cup {NoInterrupt}
    /\ s \in Shown
    /\ t \in TaskState
    /\ PlaceOK(g)
    /\ LogOK(v, l)
    /\ t = "running" => v = "running"
    /\ v = "waiting_input" => t = "done" /\ p # NoInterrupt /\ g.at = <<p, "ask">>

RunsOK ==
    \A r \in Run :
        IF Known(r)
        THEN RunOK(status[r], events[r], pending[r], shown[r], task[r], graph[r])
        ELSE task[r] = "none" /\ events[r] = <<>> /\ PlaceOK(graph[r])

\* _runs and _conversation_runs agree, and only the last run of a list is active.
Registered ==
    /\ \A r \in Run : Known(r) =>
        /\ conv[r] \in Conversation
        /\ \E i \in 1..Len(convRuns[conv[r]]) : convRuns[conv[r]][i] = r
    /\ \A c \in Conversation : \A i \in 1..Len(convRuns[c]) :
        /\ Known(convRuns[c][i])
        /\ i < Len(convRuns[c]) => status[convRuns[c][i]] \in TERMINAL_STATUSES

FieldsTyped ==
    /\ status \in [Run -> RunStatus \cup {"absent", "lost"}]
    /\ conv \in [Run -> Conversation \cup {NoConversation}]
    /\ events \in [Run -> Seq(RunEvent)]
    /\ pending \in [Run -> InterruptNode \cup {NoInterrupt}]
    /\ shown \in [Run -> Shown]
    /\ task \in [Run -> TaskState]
    /\ convRuns \in [Conversation -> Seq(Run)]
    /\ graph \in [Run -> Place]

IInv == FieldsTyped /\ RunsOK /\ Registered

(***************************************************************************)
(* One handler writes one run, and leaves an ended run alone.              *)
(***************************************************************************)
Writes(r, v, l, p, s, t, g) ==
    /\ status' = [status EXCEPT ![r] = v]
    /\ events' = [events EXCEPT ![r] = l]
    /\ pending' = [pending EXCEPT ![r] = p]
    /\ shown' = [shown EXCEPT ![r] = s]
    /\ task' = [task EXCEPT ![r] = t]
    /\ graph' = [graph EXCEPT ![r] = g]
    /\ UNCHANGED <<conv, convRuns>>

\* A write to one known run that keeps RunOK of it keeps the invariant.
LEMMA WritePreserves ==
    ASSUME IInv, NEW r \in Run, Known(r),
           NEW v, NEW l, NEW p, NEW s, NEW t, NEW g,
           Writes(r, v, l, p, s, t, g), RunOK(v, l, p, s, t, g),
           status[r] \in TERMINAL_STATUSES => v = status[r]
    PROVE  IInv'
<1>1. /\ v \in RunStatus /\ l \in Seq(RunEvent) /\ p \in InterruptNode \cup {NoInterrupt}
      /\ s \in Shown /\ t \in TaskState /\ g \in Place
  BY DEF RunOK, PlaceOK
<1>2. FieldsTyped'
  BY <1>1 DEF IInv, FieldsTyped, Writes
<1>3. /\ status'[r] = v /\ events'[r] = l /\ pending'[r] = p
      /\ shown'[r] = s /\ task'[r] = t /\ graph'[r] = g
  BY DEF IInv, FieldsTyped, Writes
<1>4. ASSUME NEW q \in Run, q # r
      PROVE  /\ status'[q] = status[q] /\ events'[q] = events[q]
             /\ pending'[q] = pending[q] /\ shown'[q] = shown[q]
             /\ task'[q] = task[q] /\ graph'[q] = graph[q]
  BY <1>4 DEF IInv, FieldsTyped, Writes
<1>5. \A q \in Run : Known(q)' <=> Known(q)
  BY <1>1, <1>3, <1>4 DEF Known
<1>6. RunsOK'
  <2> SUFFICES ASSUME NEW q \in Run
               PROVE  IF Known(q)'
                      THEN RunOK(status'[q], events'[q], pending'[q],
                                 shown'[q], task'[q], graph'[q])
                      ELSE task'[q] = "none" /\ events'[q] = <<>> /\ PlaceOK(graph'[q])
    BY DEF RunsOK
  <2>1. CASE q = r
    BY <2>1, <1>3, <1>5
  <2>2. CASE q # r
    BY <2>2, <1>4, <1>5 DEF IInv, RunsOK
  <2> QED BY <2>1, <2>2
<1>7. Registered'
  <2>1. conv' = conv /\ convRuns' = convRuns
    BY DEF Writes
  <2>2. \A q \in Run : status[q] \in TERMINAL_STATUSES => status'[q] \in TERMINAL_STATUSES
    BY <1>3, <1>4
  <2>3. \A c \in Conversation : \A i \in 1..Len(convRuns[c]) : convRuns[c][i] \in Run
    BY DEF IInv, FieldsTyped
  <2> QED BY <2>1, <2>2, <2>3, <1>5 DEF IInv, Registered
<1> QED BY <1>2, <1>6, <1>7 DEF IInv

------------------------------------------------------------------------------
\* Logs.

\* The last element of a concatenation is that of its last nonempty part.
LEMMA LastOfConcat ==
    ASSUME NEW S, NEW a \in Seq(S), NEW b \in Seq(S), b # <<>>
    PROVE  /\ a \o b \in Seq(S)
           /\ a \o b # <<>>
           /\ Last(a \o b) = Last(b)
           /\ Len(a \o b) = Len(a) + Len(b)
<1>1. a \o b \in Seq(S) /\ Len(a \o b) = Len(a) + Len(b)
  OBVIOUS
<1>2. Len(b) \in Nat \ {0} /\ Len(a) \in Nat
  OBVIOUS
<1>3. (a \o b)[Len(a) + Len(b)] = b[Len(b)]
  BY <1>2, ConcatProperties
<1>4. a \o b # <<>>
  BY <1>1, <1>2
<1> QED BY <1>1, <1>3, <1>4 DEF Last

\* The last element of a one-element sequence.
LEMMA LastOfSingle ==
    ASSUME NEW S, NEW a \in Seq(S), NEW e \in S
    PROVE  /\ a \o <<e>> \in Seq(S)
           /\ a \o <<e>> # <<>>
           /\ Last(a \o <<e>>) = e
           /\ Len(a \o <<e>>) = Len(a) + 1
<1>1. <<e>> \in Seq(S) /\ <<e>> # <<>> /\ Last(<<e>>) = e /\ Len(<<e>>) = 1
  BY DEF Last
<1> QED BY <1>1, LastOfConcat

\* The least of a set of numbers.
LEMMA MinIs ==
    ASSUME NEW S \in SUBSET Nat, NEW m \in S, \A y \in S : m <= y
    PROVE  Min(S) = m
<1>1. Min(S) \in S /\ \A y \in S : Min(S) <= y
  <2>1. \E x \in S : \A y \in S : x <= y
    OBVIOUS
  <2> QED BY <2>1, Zenon DEF Min
<1>2. Min(S) <= m /\ m <= Min(S) /\ m \in Nat /\ Min(S) \in Nat
  BY <1>1
<1> QED BY <1>2

\* Where a log that is as LogOK says first tells that its run ended.
LEMMA EndingOf ==
    ASSUME NEW v, NEW l \in Seq(RunEvent), LogOK(v, l)
    PROVE  /\ v \notin TERMINAL_STATUSES =>
                Ending(l) = 0 /\ \A i \in 1..Len(l) : l[i].type \notin TerminalEvent
           /\ v \in TERMINAL_STATUSES =>
                /\ Ending(l) \in 1..Len(l) /\ l[Ending(l)].type \in TerminalEvent
                /\ Ending(l) = Len(l) \/ (Ending(l) = Len(l) - 1 /\ v = "failed")
<1> DEFINE n == Len(l)
           T == {i \in 1..n : l[i].type \in TerminalEvent}
<1>1. n \in Nat \ {0} /\ l[n] \in RunEvent /\ v = StatusAfter(l[n].type)
  <2>1. l # <<>> /\ Last(l) = l[n] /\ v = StatusAfter(Last(l).type)
    BY DEF LogOK, Last
  <2>2. n \in Nat /\ n # 0
    BY <2>1
  <2>3. l[n] \in RunEvent
    BY <2>2
  <2> QED BY <2>1, <2>2, <2>3
<1>2. v \in TERMINAL_STATUSES <=> n \in T
  <2>1. l[n].type \in EventType
    <3>1. \A e \in RunEvent : e.type \in EventType
      BY DEF RunEvent
    <3> QED BY <1>1, <3>1
  <2>2. \A type \in EventType :
            StatusAfter(type) \in TERMINAL_STATUSES <=> type \in TerminalEvent
    BY DEF EventType, TerminalEvent, StatusAfter, TERMINAL_STATUSES
  <2> QED BY <1>1, <2>1, <2>2
<1>3. \A i \in T : i # n => i = n - 1 /\ v = "failed"
  <2>1. \A i \in 1..n : i # n => i \in 1..(n - 1)
    BY <1>1
  <2> QED BY <2>1 DEF LogOK
<1>4. Ending(l) = IF T = {} THEN 0 ELSE Min(T)
  BY DEF Ending
<1>5. T \subseteq 1..n /\ T \in SUBSET Nat /\ \A i \in T : l[i].type \in TerminalEvent
  OBVIOUS
<1>6. "failed" \in TERMINAL_STATUSES
  BY DEF TERMINAL_STATUSES
<1> HIDE DEF T, n
<1>7. CASE v \notin TERMINAL_STATUSES
  <2>1. T = {}
    BY <1>2, <1>3, <1>6, <1>7
  <2> QED BY <1>4, <1>7, <2>1 DEF T, n
<1>8. CASE v \in TERMINAL_STATUSES /\ n - 1 \in T
  <2>1. v = "failed"
    BY <1>1, <1>3, <1>8
  <2>2. Min(T) = n - 1
    <3>1. \A y \in T : n - 1 <= y
      BY <1>1, <1>3
    <3> QED BY <1>5, <1>8, <3>1, MinIs
  <2>3. Ending(l) = n - 1
    BY <1>4, <1>8, <2>2
  <2> QED BY <1>5, <1>8, <2>1, <2>3 DEF n
<1>9. CASE v \in TERMINAL_STATUSES /\ n - 1 \notin T
  <2>1. T = {n}
    BY <1>2, <1>3, <1>9
  <2>2. Min(T) = n
    BY <1>1, <1>5, <2>1, MinIs
  <2>3. Ending(l) = n
    BY <1>4, <2>1, <2>2
  <2> QED BY <1>5, <1>9, <2>1, <2>3 DEF n
<1> QED BY <1>7, <1>8, <1>9

\* What follows a log without an event of a terminal type ends it as it would
\* alone.
LEMMA TerminalInConcat ==
    ASSUME NEW l \in Seq(RunEvent), \A i \in 1..Len(l) : l[i].type \notin TerminalEvent,
           NEW es \in Seq(RunEvent),
           NEW i \in 1..Len(l \o es), (l \o es)[i].type \in TerminalEvent
    PROVE  /\ i - Len(l) \in 1..Len(es)
           /\ (l \o es)[i] = es[i - Len(l)]
<1>1. Len(l) \in Nat /\ Len(es) \in Nat /\ i \in 1..(Len(l) + Len(es))
  OBVIOUS
<1>2. i \in 1..Len(l) => (l \o es)[i] = l[i]
  OBVIOUS
<1>3. i \notin 1..Len(l)
  BY <1>2
<1> QED BY <1>1, <1>3

\* A quiet event is of no terminal type.
LEMMA QuietNotTerminal == \A e \in QuietEvent : e.type \notin TerminalEvent
BY DEF QuietEvent, TerminalEvent, StatusAfter

\* A log extended with events that leave the run running leaves it running.
LEMMA QuietLog ==
    ASSUME NEW l \in Seq(RunEvent), LogOK("running", l), NEW es \in Seq(QuietEvent)
    PROVE  l \o es \in Seq(RunEvent) /\ LogOK("running", l \o es)
<1>1. es \in Seq(RunEvent) /\ \A i \in 1..Len(es) : es[i] \in QuietEvent
  BY DEF QuietEvent
<1>2. CASE es = <<>>
  <2>1. l \o es = l
    BY <1>2, ConcatEmptySeq
  <2> QED BY <2>1
<1>3. CASE es # <<>>
  <2>1. Len(es) \in 1..Len(es)
    BY <1>1, <1>3
  <2>2. Last(es) \in QuietEvent
    BY <1>1, <2>1 DEF Last
  <2>3. StatusAfter(Last(es).type) = "running"
    BY <2>2 DEF QuietEvent
  <2>4. \A i \in 1..Len(l) : l[i].type \notin TerminalEvent
    BY EndingOf DEF TERMINAL_STATUSES
  <2>5. \A i \in 1..Len(l \o es) : (l \o es)[i].type \notin TerminalEvent
    BY <1>1, <2>4, TerminalInConcat, QuietNotTerminal
  <2>6. /\ l \o es \in Seq(RunEvent) /\ l \o es # <<>> /\ Last(l \o es) = Last(es)
        /\ Len(l \o es) \in Nat
    BY <1>1, <1>3, LastOfConcat
  <2> DEFINE x == l \o es
  <2> HIDE DEF x
  <2>7. LogOK("running", x)
    BY <2>3, <2>5, <2>6 DEF LogOK, x
  <2> QED BY <2>6, <2>7 DEF x
<1> QED BY <1>2, <1>3

\* A log without an event of a terminal type, extended with one event.
LEMMA SingleLog ==
    ASSUME NEW l \in Seq(RunEvent), \A i \in 1..Len(l) : l[i].type \notin TerminalEvent,
           NEW e \in RunEvent
    PROVE  /\ l \o <<e>> \in Seq(RunEvent) /\ Len(l \o <<e>>) = Len(l) + 1
           /\ LogOK(StatusAfter(e.type), l \o <<e>>)
           /\ e.type \in TerminalEvent => Ending(l \o <<e>>) = Len(l) + 1
<1> DEFINE x == l \o <<e>>
<1>1. x \in Seq(RunEvent) /\ x # <<>> /\ Last(x) = e /\ Len(x) = Len(l) + 1
  BY LastOfSingle
<1>2. \A i \in 1..(Len(x) - 1) : x[i] = l[i] /\ i \in 1..Len(l)
  BY <1>1
<1> HIDE DEF x
<1>3. LogOK(StatusAfter(e.type), x)
  BY <1>1, <1>2 DEF LogOK
<1>4. ASSUME e.type \in TerminalEvent
      PROVE  Ending(x) = Len(x)
  <2>1. StatusAfter(e.type) \in TERMINAL_STATUSES
    BY <1>4 DEF TerminalEvent, StatusAfter, TERMINAL_STATUSES
  <2>2. Ending(x) # Len(x) => Ending(x) \in 1..(Len(x) - 1) /\ x[Ending(x)].type \in TerminalEvent
    BY <1>1, <1>3, <2>1, EndingOf
  <2> QED BY <1>2, <2>2
<1> QED BY <1>1, <1>3, <1>4 DEF x

\* Only the last event of an item may end the run, and none cancels it.
EndsLast(es) ==
    \A i \in 1..Len(es) : es[i].type \in TerminalEvent =>
        i = Len(es) /\ es[i].type # "run.cancelled"

\* The log the except branch leaves.
LEMMA FailedLog ==
    ASSUME NEW r \in Run, NEW es \in Seq(RunEvent), EndsLast(es), NEW k \in 0..Len(es),
           events \in [Run -> Seq(RunEvent)], LogOK("running", events[r]),
           FailsAfter(r, es, k)
    PROVE  \E l \in Seq(RunEvent) :
            /\ events' = [events EXCEPT ![r] = l]
            /\ LogOK("failed", l)
            /\ \E n \in 0..Len(es) :
                /\ Len(l) = Len(events[r]) + n + 1
                /\ Ending(l) = Len(l) \/ (n > 0 /\ Ending(l) = Len(events[r]) + n)
<1> DEFINE m == k + (IF k < Len(es) THEN 1 ELSE 0)
           front == SubSeq(es, 1, m)
           failed == Event("run.failed")
           h == events[r] \o front
           l == h \o <<failed>>
           n0 == Len(events[r])
<1>1. m \in 0..Len(es)
  OBVIOUS
<1>2. /\ front \in Seq(RunEvent) /\ Len(front) = m
      /\ \A i \in 1..m : i \in 1..Len(es) /\ front[i] = es[i]
  <2>1. \A i \in 1..m : es[i] \in RunEvent /\ i \in 1..Len(es)
    BY <1>1
  <2> HIDE DEF m
  <2> QED BY <1>1, <2>1, SubSeqProperties
<1> "run.failed" \in EventType
  BY DEF EventType, TerminalEvent
<1>3. failed \in RunEvent /\ failed.type = "run.failed"
  BY EventTyped
<1> HIDE DEF failed
<1>4. events' = [events EXCEPT ![r] = l]
  BY Zenon DEF FailsAfter, failed
<1> HIDE DEF m, front
<1>5. h \in Seq(RunEvent) /\ Len(h) = n0 + m /\ n0 \in Nat /\ events[r] \in Seq(RunEvent)
  <2>1. events[r] \in Seq(RunEvent) /\ n0 \in Nat
    OBVIOUS
  <2> QED BY <2>1, <1>2, ConcatProperties
<1>6. \A i \in 1..Len(events[r]) : events[r][i].type \notin TerminalEvent
  BY <1>5, EndingOf DEF TERMINAL_STATUSES
<1>7. ASSUME NEW i \in 1..Len(h), h[i].type \in TerminalEvent
      PROVE  i = Len(h) /\ m > 0 /\ h[i].type # "run.cancelled"
  <2>1. i - n0 \in 1..Len(front) /\ h[i] = front[i - n0]
    BY <1>2, <1>5, <1>6, <1>7, TerminalInConcat
  <2>2. i - n0 \in 1..m /\ es[i - n0].type \in TerminalEvent /\ h[i] = es[i - n0]
        /\ i - n0 \in 1..Len(es)
    BY <1>2, <1>7, <2>1
  <2>3. i - n0 = Len(es) /\ es[i - n0].type # "run.cancelled"
    BY <2>2 DEF EndsLast
  <2>4. Len(h) = n0 + m /\ n0 \in Nat /\ Len(es) \in Nat
    BY <1>5
  <2> HIDE DEF h, n0
  <2>5. i = n0 + m /\ m > 0
    BY <1>1, <2>2, <2>3, <2>4
  <2> QED BY <2>2, <2>3, <2>4, <2>5
<1> HIDE DEF h, n0
<1>8. /\ l \in Seq(RunEvent) /\ l # <<>> /\ Last(l) = failed
      /\ Len(l) = n0 + m + 1
      /\ \A i \in 1..Len(h) : l[i] = h[i]
  BY <1>1, <1>3, <1>5, LastOfSingle
<1>9. StatusAfter("run.failed") = "failed" /\ "failed" \in TERMINAL_STATUSES
  BY DEF StatusAfter, TERMINAL_STATUSES
<1> HIDE DEF l
<1>10. LogOK("failed", l)
  <2>1. \A i \in 1..(Len(l) - 1) : i \in 1..Len(h) /\ l[i] = h[i]
    BY <1>1, <1>5, <1>8
  <2>2. Len(h) = Len(l) - 1
    BY <1>1, <1>5, <1>8
  <2> QED BY <1>3, <1>7, <1>8, <1>9, <2>1, <2>2 DEF LogOK
<1>11. Ending(l) = Len(l) \/ (m > 0 /\ Ending(l) = n0 + m)
  <2>1. /\ Ending(l) \in 1..Len(l) /\ l[Ending(l)].type \in TerminalEvent
        /\ Ending(l) = Len(l) \/ Ending(l) = Len(l) - 1
    BY <1>8, <1>9, <1>10, EndingOf
  <2>2. CASE Ending(l) = Len(l) - 1
    <3>1. Ending(l) \in 1..Len(h) /\ Ending(l) = n0 + m
      BY <1>1, <1>5, <1>8, <2>1, <2>2
    <3>2. h[Ending(l)].type \in TerminalEvent
      BY <1>8, <2>1, <3>1
    <3> QED BY <1>7, <3>1, <3>2
  <2> QED BY <2>1, <2>2
<1> QED BY <1>1, <1>4, <1>8, <1>10, <1>11 DEF n0

------------------------------------------------------------------------------
\* The graph.

\* The edges of the graph join its nodes and carry its statuses.
LEMMA EdgesTyped ==
    ASSUME NEW e \in Edges
    PROVE  e[1] \in Node /\ e[2] \in GraphStatus /\ e[3] \in Node \cup {End}
<1>1. e[1] \in Node
  BY DEF Node
<1>2. e[2] \in GraphStatus
  BY DEF GraphStatus
<1>3. {"interpret_input", "build_plan", "lookup_jobs", "confirm_job", "no_job_match",
       "filter_candidates", "resolve_requirements"} \subseteq Node
  <2>1. {q[1] : q \in RequestEdges} \subseteq Node
    BY DEF Node, Edges
  <2> QED BY <2>1 DEF RequestEdges
<1>4. {"generate_dimensions", "validate_dimensions", "dimension_invalid",
       "prepare_work_items", "capacity_exceeded", "run_assessment_branch",
       "finalize"} \subseteq Node
  <2>1. {q[1] : q \in EvaluationEdges} \subseteq Node
    BY DEF Node, Edges
  <2> QED BY <2>1 DEF EvaluationEdges
<1>5. {"score_dimensions", "aggregate_candidates", "compose_report",
       "validate_report"} \subseteq Node
  <2>1. {q[1] : q \in ReportEdges} \subseteq Node
    BY DEF Node, Edges
  <2> QED BY <2>1 DEF ReportEdges
<1>6. e[3] \in Node \cup {End}
  <2>1. CASE e \in RequestEdges
    BY <2>1, <1>3, <1>4 DEF RequestEdges
  <2>2. CASE e \in EvaluationEdges
    BY <2>2, <1>4, <1>5 DEF EvaluationEdges
  <2>3. CASE e \in ReportEdges
    BY <2>3, <1>5 DEF ReportEdges
  <2> QED BY <2>1, <2>2, <2>3 DEF Edges
<1> QED BY <1>1, <1>2, <1>6

\* The position at a node owes an item the node has.
LEMMA AtTyped ==
    ASSUME NEW n \in Node \cup {End}
    PROVE  /\ At(n) \in Position
           /\ At(n)[2] = "ask" => At(n)[1] \in InterruptNode
           /\ At(n)[2] = "start" => At(n)[1] \in StartNodes
BY DEF At, FirstItem, Position

\* The entry of the graph is a place.
LEMMA EntryOK == PlaceOK(AtEntry)
<1>1. "receive_request" \in Node
  <2> DEFINE e == <<"receive_request", "received", "interpret_input">>
  <2>1. e \in Edges /\ e[1] = "receive_request"
    BY DEF Edges, RequestEdges
  <2> HIDE DEF e
  <2> QED BY <2>1 DEF Node
<1>2. At("receive_request") \in Position /\ At("receive_request")[2] = "start"
      /\ At("receive_request")[1] \in StartNodes
  BY <1>1, AtTyped DEF At, FirstItem, InterruptNode, StartNodes
<1>3. AtEntry.at = At("receive_request") /\ AtEntry \in Place
  BY <1>2 DEF AtEntry, Entry, Place
<1> QED BY <1>2, <1>3 DEF PlaceOK

\* Every move along an edge leads to a place.
LEMMA MovesOK ==
    ASSUME NEW r \in Run, PlaceOK(graph[r]), graph[r].at[2] = "update",
           NEW n, NEW next \in Node \cup {End}, NEW g \in Moves(r, n, next)
    PROVE  PlaceOK(g)
<1>1. CASE n = "run_assessment_branch" /\ graph[r].branches > 1
  <2>1. g = [graph[r] EXCEPT !.branches = @ - 1]
    BY <1>1 DEF Moves
  <2>2. graph[r] \in Place /\ graph[r].branches \in Nat
    BY DEF PlaceOK, Place
  <2>3. graph[r].branches - 1 \in Nat
    BY <1>1, <2>2
  <2>4. g \in Place /\ g.at = graph[r].at
    BY <2>1, <2>2, <2>3 DEF Place
  <2> QED BY <2>4 DEF PlaceOK
<1>2. CASE ~(n = "run_assessment_branch" /\ graph[r].branches > 1)
  <2> DEFINE B == IF next = "run_assessment_branch" THEN 1..MaxBranches ELSE {0}
  <2>1. B \subseteq Nat
    BY BoundsAssumption
  <2>2. PICK b \in B : g = [graph[r] EXCEPT !.at = At(next), !.branches = b]
    BY <1>2, Zenon DEF Moves
  <2> HIDE DEF B
  <2>3. g.at = At(next) /\ g \in Place
    <3>1. At(next) \in Position /\ b \in Nat /\ graph[r] \in Place
      BY <2>1, <2>2, AtTyped DEF PlaceOK
    <3> QED BY <2>2, <3>1 DEF Place
  <2> QED BY <2>3, AtTyped DEF PlaceOK
<1> QED BY <1>1, <1>2

------------------------------------------------------------------------------
(***************************************************************************)
(* The actions.  Every handler of a run the manager knows writes that run  *)
(* alone, leaves it as RunOK says, does nothing to an ended run and moves  *)
(* status and log as one of RunLifecycle's steps does.                     *)
(***************************************************************************)
LifecycleStep(v0, l0, v, l) ==
    LET n0 == Len(l0)
        n == Len(l)
    IN  \/ v = v0 /\ l = l0
        \/ v0 = "running" /\ v = "running" /\ \E k \in 0..MaxBatch : n = n0 + k
        \/ v0 = "running" /\ v \in {"waiting_input", "completed"} /\ n = n0 + 1
        \/ v0 = "waiting_input" /\ v = "running" /\ n = n0 + 1
        \/ v0 \in {"running", "waiting_input"} /\ v = "cancelled" /\ n = n0 + 1
        \/ v0 = "running" /\ v = "failed" /\ \E k \in 0..MaxBatch :
            n = n0 + k + 1 /\ (Ending(l) = n \/ (k > 0 /\ Ending(l) = n0 + k))

Handled(r) ==
    /\ Known(r)
    /\ \E v \in RunStatus, l \in Seq(RunEvent), p \in InterruptNode \cup {NoInterrupt},
          s \in Shown, t \in TaskState, g \in Place :
        /\ Writes(r, v, l, p, s, t, g)
        /\ RunOK(v, l, p, s, t, g)
        /\ status[r] \in TERMINAL_STATUSES => v = status[r] /\ l = events[r]
        /\ LifecycleStep(status[r], events[r], v, l)

\* What the invariant says of one run.
LEMMA RunTyped ==
    ASSUME IInv, NEW r \in Run
    PROVE  /\ events[r] \in Seq(RunEvent) /\ Len(events[r]) \in Nat
           /\ pending[r] \in InterruptNode \cup {NoInterrupt}
           /\ shown[r] \in Shown /\ task[r] \in TaskState /\ graph[r] \in Place
           /\ PlaceOK(graph[r])
           /\ Known(r) => RunOK(status[r], events[r], pending[r], shown[r], task[r], graph[r])
           /\ status = [status EXCEPT ![r] = status[r]]
           /\ events = [events EXCEPT ![r] = events[r]]
           /\ pending = [pending EXCEPT ![r] = pending[r]]
           /\ shown = [shown EXCEPT ![r] = shown[r]]
           /\ task = [task EXCEPT ![r] = task[r]]
           /\ graph = [graph EXCEPT ![r] = graph[r]]
<1>1. PlaceOK(graph[r])
  BY DEF IInv, RunsOK, RunOK
<1>2. Known(r) => RunOK(status[r], events[r], pending[r], shown[r], task[r], graph[r])
  BY DEF IInv, RunsOK
<1> QED BY <1>1, <1>2 DEF IInv, FieldsTyped

\* Values that satisfy the parts of Handled make a handled step.
LEMMA HandledIntro ==
    ASSUME NEW r \in Run, Known(r), NEW v, NEW l, NEW p, NEW s, NEW t, NEW g,
           Writes(r, v, l, p, s, t, g), RunOK(v, l, p, s, t, g),
           status[r] \in TERMINAL_STATUSES => v = status[r] /\ l = events[r],
           LifecycleStep(status[r], events[r], v, l)
    PROVE  Handled(r)
<1>1. /\ v \in RunStatus /\ l \in Seq(RunEvent) /\ p \in InterruptNode \cup {NoInterrupt}
      /\ s \in Shown /\ t \in TaskState /\ g \in Place
  BY DEF RunOK, PlaceOK
<1> QED BY <1>1, Zenon DEF Handled

\* A run whose task is running is known and running, and its log says so.
LEMMA TaskRuns ==
    ASSUME IInv, NEW r \in Run, task[r] = "running"
    PROVE  Known(r) /\ status[r] = "running" /\ LogOK("running", events[r])
<1>1. Known(r)
  BY DEF IInv, RunsOK
<1>2. RunOK(status[r], events[r], pending[r], shown[r], task[r], graph[r])
  BY <1>1, RunTyped
<1> QED BY <1>1, <1>2 DEF RunOK

\* The except branch.
LEMMA FailureHandled ==
    ASSUME IInv, NEW r \in Run, task[r] = "running",
           NEW es \in Seq(RunEvent), Len(es) \in 0..MaxBatch, EndsLast(es), NEW k \in 0..Len(es),
           FailsAfter(r, es, k),
           NEW p \in InterruptNode \cup {NoInterrupt}, pending' = [pending EXCEPT ![r] = p],
           UNCHANGED <<shown, graph, conv, convRuns>>
    PROVE  Handled(r)
<1>1. Known(r) /\ status[r] = "running" /\ LogOK("running", events[r])
  BY TaskRuns
<1>2. PICK l \in Seq(RunEvent) :
        /\ events' = [events EXCEPT ![r] = l]
        /\ LogOK("failed", l)
        /\ \E n \in 0..Len(es) :
            /\ Len(l) = Len(events[r]) + n + 1
            /\ Ending(l) = Len(l) \/ (n > 0 /\ Ending(l) = Len(events[r]) + n)
  BY <1>1, FailedLog DEF IInv, FieldsTyped
<1>3. status' = [status EXCEPT ![r] = "failed"] /\ task' = [task EXCEPT ![r] = "done"]
  BY DEF FailsAfter
<1>4. "failed" \in RunStatus /\ "done" \in TaskState
  BY DEF RunStatus, TERMINAL_STATUSES, TaskState
<1>5. Writes(r, "failed", l, p, shown[r], "done", graph[r])
  BY <1>2, <1>3, RunTyped DEF Writes
<1>6. RunOK("failed", l, p, shown[r], "done", graph[r])
  BY <1>2, <1>4, RunTyped DEF RunOK
<1>7. LifecycleStep("running", events[r], "failed", l)
  <2>1. PICK n \in 0..Len(es) :
            /\ Len(l) = Len(events[r]) + n + 1
            /\ Ending(l) = Len(l) \/ (n > 0 /\ Ending(l) = Len(events[r]) + n)
    BY <1>2
  <2>2. n \in 0..MaxBatch
    <3> DEFINE k1 == Len(es)
    <3>1. k1 \in 0..3 /\ n \in 0..k1
      BY DEF MaxBatch
    <3> HIDE DEF k1
    <3> QED BY <3>1 DEF MaxBatch
  <2> QED BY <2>1, <2>2, Zenon DEF LifecycleStep
<1>8. "running" \notin TERMINAL_STATUSES
  BY DEF TERMINAL_STATUSES
<1> QED BY <1>1, <1>5, <1>6, <1>7, <1>8, HandledIntro

\* A store write that fails in the middle of events is handled.
LEMMA BreaksHandled ==
    ASSUME IInv, NEW r \in Run, task[r] = "running",
           NEW es \in Seq(RunEvent), Len(es) \in 0..MaxBatch, EndsLast(es), Breaks(r, es),
           NEW p \in InterruptNode \cup {NoInterrupt}, pending' = [pending EXCEPT ![r] = p],
           UNCHANGED <<shown, graph, conv, convRuns>>
    PROVE  Handled(r)
<1>1. PICK k \in 1..Len(es) : FailsAfter(r, es, k - 1)
  BY DEF Breaks
<1>2. k - 1 \in 0..Len(es)
  BY <1>1
<1> QED BY <1>1, <1>2, FailureHandled

\* An item that is shown and leaves the run running.
LEMMA QuietHandled ==
    ASSUME IInv, NEW r \in Run, task[r] = "running",
           NEW es \in Seq(QuietEvent), Len(es) \in 0..MaxBatch, Shows(r, es),
           NEW s \in Shown, shown' = [shown EXCEPT ![r] = s],
           NEW g, PlaceOK(g), graph' = [graph EXCEPT ![r] = g],
           UNCHANGED <<status, task, pending, conv, convRuns>>
    PROVE  Handled(r)
<1> DEFINE l == events[r] \o es
<1>1. Known(r) /\ status[r] = "running" /\ LogOK("running", events[r])
  BY TaskRuns
<1>2. events[r] \in Seq(RunEvent) /\ es \in Seq(RunEvent)
  BY RunTyped DEF QuietEvent
<1>3. l \in Seq(RunEvent) /\ LogOK("running", l)
  BY <1>1, <1>2, QuietLog
<1>4. Len(l) = Len(events[r]) + Len(es)
  BY <1>2, ConcatProperties
<1>5. events' = [events EXCEPT ![r] = l]
  BY DEF Shows
<1> HIDE DEF l
<1>6. Writes(r, "running", l, pending[r], s, "running", g)
  BY <1>1, <1>5, RunTyped DEF Writes
<1>7. "running" \in RunStatus /\ "running" \in TaskState /\ "running" \notin TERMINAL_STATUSES
  BY DEF RunStatus, TERMINAL_STATUSES, TaskState
<1>8. RunOK("running", l, pending[r], s, "running", g)
  BY <1>3, <1>7, RunTyped DEF RunOK
<1>9. LifecycleStep("running", events[r], "running", l)
  BY <1>4, Zenon DEF LifecycleStep
<1> QED BY <1>1, <1>6, <1>7, <1>8, <1>9, HandledIntro

\* A handler that emits one event and moves the run to v.
LEMMA SingleHandled ==
    ASSUME IInv, NEW r \in Run, Known(r), status[r] \notin TERMINAL_STATUSES,
           NEW type \in EventType, NEW v \in RunStatus, v = StatusAfter(type),
           status' = [status EXCEPT ![r] = v],
           events' = [events EXCEPT ![r] = @ \o <<Event(type)>>],
           NEW t \in TaskState, task' = [task EXCEPT ![r] = t], t = "running" => v = "running",
           NEW p \in InterruptNode \cup {NoInterrupt}, pending' = [pending EXCEPT ![r] = p],
           NEW g, PlaceOK(g), graph' = [graph EXCEPT ![r] = g],
           v = "waiting_input" => t = "done" /\ p # NoInterrupt /\ g.at = <<p, "ask">>,
           \/ status[r] = "running" /\ v # "running"
           \/ status[r] = "waiting_input" /\ v \in {"running", "cancelled"},
           UNCHANGED <<shown, conv, convRuns>>
    PROVE  Handled(r)
<1> DEFINE e == Event(type)
           l == events[r] \o <<e>>
<1>1. e \in RunEvent /\ e.type = type
  BY EventTyped
<1> HIDE DEF e
<1>2. /\ l \in Seq(RunEvent) /\ LogOK(v, l) /\ Len(l) = Len(events[r]) + 1
      /\ v = "failed" => Ending(l) = Len(l)
  <2>1. \A i \in 1..Len(events[r]) : events[r][i].type \notin TerminalEvent
    BY RunTyped, EndingOf DEF RunOK
  <2>2. v = "failed" => type \in TerminalEvent
    BY DEF StatusAfter, TerminalEvent
  <2>3. events[r] \in Seq(RunEvent)
    BY RunTyped
  <2> QED BY <1>1, <2>1, <2>2, <2>3, SingleLog
<1>3. events' = [events EXCEPT ![r] = l]
  BY DEF e
<1> HIDE DEF l
<1>4. Writes(r, v, l, p, shown[r], t, g)
  BY <1>3, RunTyped DEF Writes
<1>5. RunOK(v, l, p, shown[r], t, g)
  BY <1>1, <1>2, RunTyped DEF RunOK
<1>6. LifecycleStep(status[r], events[r], v, l)
  <2>1. CASE v = "failed"
    <3>1. Len(l) = Len(events[r]) + 0 + 1 /\ 0 \in 0..MaxBatch
      BY <1>2, RunTyped DEF MaxBatch
    <3>2. Ending(l) = Len(l)
      BY <1>2, <2>1
    <3> QED BY <2>1, <3>1, <3>2, Zenon DEF LifecycleStep
  <2>2. CASE v # "failed"
    BY <1>2, <2>2, Zenon DEF LifecycleStep, RunStatus, TERMINAL_STATUSES
  <2> QED BY <2>1, <2>2
<1> QED BY <1>4, <1>5, <1>6, HandledIntro

\* Quiet events are events, and none of them ends the run.
LEMMA QuietIsEvent == \A es \in Seq(QuietEvent) : es \in Seq(RunEvent) /\ EndsLast(es)
BY QuietNotTerminal DEF QuietEvent, EndsLast

\* One event may end the run, unless it cancels it.
LEMMA SingleEndsLast == \A e \in RunEvent : e.type # "run.cancelled" => EndsLast(<<e>>)
BY DEF EndsLast

\* Writing back the same interrupt changes nothing.
LEMMA SameInterrupt ==
    ASSUME IInv, NEW r \in Run, UNCHANGED pending
    PROVE  /\ pending[r] \in InterruptNode \cup {NoInterrupt}
           /\ pending' = [pending EXCEPT ![r] = pending[r]]
BY RunTyped

\* A task item is handled for its run.
LEMMA StartNodeHandled ==
    ASSUME IInv, NEW r \in Run, StartNode(r)
    PROVE  Handled(r)
<1> DEFINE n == graph[r].at[1]
           es == TaskEvents(r, n)
           s == [shown[r] EXCEPT !.started = @ \cup {StartStep[n]}]
           g == [graph[r] EXCEPT !.at = <<n, "update">>]
<1>1. task[r] = "running" /\ graph[r].at[2] = "start"
  BY DEF StartNode, Reads
<1>2. n \in StartNodes /\ graph[r] \in Place /\ graph[r].at \in Position
  BY <1>1, RunTyped DEF PlaceOK, Place
<1>3. es \in Seq(QuietEvent) /\ Len(es) \in 0..MaxBatch
  BY <1>2, TaskEventsQuiet
<1>4. pending[r] \in InterruptNode \cup {NoInterrupt} /\ pending' = [pending EXCEPT ![r] = pending[r]]
  BY SameInterrupt DEF StartNode
<1>5. CASE Breaks(r, es) /\ UNCHANGED <<shown, graph>>
  <2>1. es \in Seq(RunEvent) /\ EndsLast(es)
    BY <1>3, QuietIsEvent
  <2>2. UNCHANGED <<conv, convRuns>>
    BY DEF StartNode
  <2> HIDE DEF es
  <2> QED BY <1>1, <1>3, <1>4, <1>5, <2>1, <2>2, BreaksHandled
<1>6. CASE ~(Breaks(r, es) /\ UNCHANGED <<shown, graph>>)
  <2>1. /\ Shows(r, es)
        /\ shown' = [shown EXCEPT ![r].started = @ \cup {StartStep[n]}]
        /\ graph' = [graph EXCEPT ![r].at = <<n, "update">>]
        /\ UNCHANGED <<status, task>>
    BY <1>6, Zenon DEF StartNode
  <2>2. UNCHANGED <<pending, conv, convRuns>>
    BY DEF StartNode
  <2>3. s \in Shown /\ shown' = [shown EXCEPT ![r] = s]
    <3>1. shown[r] \in Shown /\ StartStep[n] \in Step
      BY <1>2, StepTables, RunTyped
    <3>2. s \in Shown
      BY <3>1 DEF Shown
    <3> QED BY <2>1, <3>2
  <2>4. graph' = [graph EXCEPT ![r] = g]
    BY <2>1
  <2>5. PlaceOK(g)
    <3>1. <<n, "update">> \in Position
      BY <1>2 DEF Position
    <3> QED BY <1>2, <3>1 DEF PlaceOK, Place
  <2> HIDE DEF es, s, g
  <2> QED BY <1>1, <1>3, <2>1, <2>2, <2>3, <2>4, <2>5, QuietHandled
<1> QED BY <1>5, <1>6

\* An update is handled for its run.
LEMMA UpdateNodeHandled ==
    ASSUME IInv, NEW r \in Run, UpdateNode(r)
    PROVE  Handled(r)
<1>1. task[r] = "running" /\ graph[r].at[2] = "update"
  BY DEF UpdateNode, Reads
<1>2. UNCHANGED <<conv, pending, convRuns>>
  BY DEF UpdateNode
<1>3. pending[r] \in InterruptNode \cup {NoInterrupt} /\ pending' = [pending EXCEPT ![r] = pending[r]]
  BY <1>2, SameInterrupt
<1>4. PICK e \in Edges, revised \in BOOLEAN :
        LET es == UpdateEvents(r, e[1], e[2], revised)
        IN  \/ /\ Shows(r, es)
               /\ shown' = [shown EXCEPT ![r] = AfterUpdate(r, e[1], e[2])]
               /\ \E g \in Moves(r, e[1], e[3]) : graph' = [graph EXCEPT ![r] = g]
               /\ UNCHANGED <<status, task>>
            \/ Breaks(r, es) /\ UNCHANGED <<shown, graph>>
  BY DEF UpdateNode
<1> DEFINE es == UpdateEvents(r, e[1], e[2], revised)
           s == AfterUpdate(r, e[1], e[2])
<1>5. e[2] \in GraphStatus /\ e[3] \in Node \cup {End}
  BY EdgesTyped
<1>6. es \in Seq(QuietEvent) /\ Len(es) \in 0..MaxBatch
  BY <1>5, UpdateEventsQuiet
<1>7. s \in Shown
  <2>1. NewlyCompleted(r, e[1]) \subseteq Step
    BY StepTables DEF NewlyCompleted
  <2>2. shown[r] \in Shown
    BY RunTyped
  <2> QED BY <1>5, <2>1, <2>2 DEF AfterUpdate, Shown
<1> HIDE DEF es, s
<1>8. CASE Breaks(r, es) /\ UNCHANGED <<shown, graph>>
  <2>1. es \in Seq(RunEvent) /\ EndsLast(es)
    BY <1>6, QuietIsEvent
  <2> QED BY <1>1, <1>2, <1>3, <1>6, <1>8, <2>1, BreaksHandled
<1>9. CASE /\ Shows(r, es)
           /\ shown' = [shown EXCEPT ![r] = s]
           /\ \E g \in Moves(r, e[1], e[3]) : graph' = [graph EXCEPT ![r] = g]
           /\ UNCHANGED <<status, task>>
  <2>1. PICK g \in Moves(r, e[1], e[3]) : graph' = [graph EXCEPT ![r] = g]
    BY <1>9
  <2>2. PlaceOK(g)
    BY <1>1, <1>5, RunTyped, MovesOK
  <2> QED BY <1>1, <1>2, <1>6, <1>7, <1>9, <2>1, <2>2, QuietHandled
<1> QED BY <1>4, <1>8, <1>9 DEF es, s

\* An interrupt is handled for its run.
LEMMA AskHandled ==
    ASSUME IInv, NEW r \in Run, Ask(r)
    PROVE  Handled(r)
<1> DEFINE n == graph[r].at[1]
           e == Event("hitl.required")
           es == <<e>>
<1>1. /\ task[r] = "running" /\ graph[r].at[2] = "ask"
      /\ pending' = [pending EXCEPT ![r] = n]
      /\ UNCHANGED <<conv, shown, convRuns, graph>>
  BY DEF Ask, Reads
<1>2. n \in InterruptNode /\ graph[r].at = <<n, "ask">> /\ n # NoInterrupt
  <2>1. graph[r].at \in Position /\ n \in InterruptNode
    BY <1>1, RunTyped DEF PlaceOK, Place
  <2>2. graph[r].at = <<n, "ask">>
    BY <1>1, <2>1 DEF Position
  <2> QED BY <2>1, <2>2 DEF InterruptNode, NoInterrupt
<1>3. "hitl.required" \in EventType /\ StatusAfter("hitl.required") = "waiting_input"
  BY DEF EventType, StatusAfter
<1>4. CASE Breaks(r, es)
  <2>1. e \in RunEvent /\ e.type = "hitl.required"
    BY <1>3, EventTyped
  <2> HIDE DEF e
  <2>2. es \in Seq(RunEvent) /\ Len(es) \in 0..MaxBatch /\ EndsLast(es)
    BY <2>1, SingleEndsLast DEF MaxBatch
  <2> HIDE DEF es, n
  <2> QED BY <1>1, <1>2, <1>4, <2>2, BreaksHandled
<1>5. CASE /\ Shows(r, es)
           /\ status' = [status EXCEPT ![r] = "waiting_input"]
           /\ task' = [task EXCEPT ![r] = "done"]
  <2>1. events' = [events EXCEPT ![r] = @ \o <<Event("hitl.required")>>]
    BY <1>5 DEF Shows
  <2>2. Known(r) /\ status[r] = "running" /\ status[r] \notin TERMINAL_STATUSES
    BY <1>1, TaskRuns DEF TERMINAL_STATUSES
  <2>3. "waiting_input" \in RunStatus /\ "done" \in TaskState
    BY DEF RunStatus, TaskState
  <2>4. PlaceOK(graph[r]) /\ graph' = [graph EXCEPT ![r] = graph[r]]
    BY <1>1, RunTyped
  <2> HIDE DEF n
  <2> QED BY <1>1, <1>2, <1>3, <1>5, <2>1, <2>2, <2>3, <2>4, SingleHandled
<1> QED BY <1>4, <1>5 DEF Ask

\* The end of the stream is handled for its run.
LEMMA StreamEndsHandled ==
    ASSUME IInv, NEW r \in Run, StreamEnds(r)
    PROVE  Handled(r)
<1> DEFINE final == IF shown[r].graphStatus \in FAILED_GRAPH_STATUSES
                    THEN "failed" ELSE "completed"
           type == IF final = "failed" THEN "run.failed" ELSE "run.completed"
           es == <<Event(type)>>
<1>1. /\ task[r] = "running"
      /\ UNCHANGED <<conv, pending, shown, convRuns, graph>>
  BY DEF StreamEnds
<1>2. /\ type \in EventType /\ final = StatusAfter(type)
      /\ final \in {"failed", "completed"}
  BY DEF EventType, TerminalEvent, StatusAfter
<1>3. pending[r] \in InterruptNode \cup {NoInterrupt} /\ pending' = [pending EXCEPT ![r] = pending[r]]
  BY <1>1, SameInterrupt
<1>4. \/ Breaks(r, es)
      \/ /\ Shows(r, es)
         /\ status' = [status EXCEPT ![r] = final]
         /\ task' = [task EXCEPT ![r] = "done"]
  BY Zenon DEF StreamEnds
<1> HIDE DEF final, type
<1>5. CASE Breaks(r, es)
  <2>1. Event(type) \in RunEvent /\ Event(type).type # "run.cancelled"
    BY <1>2, EventTyped DEF StatusAfter
  <2>2. es \in Seq(RunEvent) /\ Len(es) \in 0..MaxBatch /\ EndsLast(es)
    BY <2>1, SingleEndsLast DEF MaxBatch
  <2> HIDE DEF es
  <2> QED BY <1>1, <1>3, <1>5, <2>2, BreaksHandled
<1>6. CASE /\ Shows(r, es)
           /\ status' = [status EXCEPT ![r] = final]
           /\ task' = [task EXCEPT ![r] = "done"]
  <2>1. events' = [events EXCEPT ![r] = @ \o <<Event(type)>>]
    BY <1>6 DEF Shows
  <2>2. Known(r) /\ status[r] = "running" /\ status[r] \notin TERMINAL_STATUSES
    BY <1>1, TaskRuns DEF TERMINAL_STATUSES
  <2>3. final \in RunStatus /\ "done" \in TaskState /\ final # "running" /\ final # "waiting_input"
    BY <1>2 DEF RunStatus, TERMINAL_STATUSES, TaskState
  <2>4. PlaceOK(graph[r]) /\ graph' = [graph EXCEPT ![r] = graph[r]]
    BY <1>1, RunTyped
  <2> QED BY <1>1, <1>2, <1>3, <1>6, <2>1, <2>2, <2>3, <2>4, SingleHandled
<1> QED BY <1>4, <1>5, <1>6

\* An exception of the graph is handled for its run.
LEMMA GraphRaisesHandled ==
    ASSUME IInv, NEW r \in Run, GraphRaises(r)
    PROVE  Handled(r)
<1>1. /\ task[r] = "running" /\ FailsAfter(r, <<>>, 0)
      /\ UNCHANGED <<conv, pending, shown, convRuns, graph>>
  BY DEF GraphRaises
<1>2. /\ <<>> \in Seq(RunEvent) /\ Len(<<>>) \in 0..MaxBatch /\ 0 \in 0..Len(<<>>)
      /\ EndsLast(<<>>)
  BY DEF MaxBatch, EndsLast
<1>3. pending[r] \in InterruptNode \cup {NoInterrupt} /\ pending' = [pending EXCEPT ![r] = pending[r]]
  BY <1>1, SameInterrupt
<1> QED BY <1>1, <1>2, <1>3, FailureHandled

\* An answer is handled for its run.
LEMMA ResumeRunHandled ==
    ASSUME IInv, NEW r \in Run, ResumeRun(r)
    PROVE  Handled(r)
<1> DEFINE type == "hitl.resolved"
           g == [graph[r] EXCEPT
                    !.at = <<graph[r].at[1], "update">>,
                    !.revisions = @ + IF pending[r] = "resolve_requirements" THEN 1 ELSE 0]
<1>1. /\ status[r] = "waiting_input"
      /\ status' = [status EXCEPT ![r] = "running"]
      /\ pending' = [pending EXCEPT ![r] = NoInterrupt]
      /\ UNCHANGED <<conv, shown, convRuns>>
  BY DEF ResumeRun, Answerable
<1>2. events' = [events EXCEPT ![r] = @ \o <<Event(type)>>]
  <2>1. CASE Shows(r, <<Event(type)>>)
    BY <2>1 DEF Shows
  <2>2. CASE events' = [events EXCEPT ![r] = Append(@, Event(type))]
    <3>1. Event(type) \in RunEvent
      BY EventTyped DEF EventType
    <3>2. Append(events[r], Event(type)) = events[r] \o <<Event(type)>>
      BY <3>1, RunTyped, AppendIsConcat
    <3> QED BY <2>2, <3>2
  <2> QED BY <2>1, <2>2 DEF ResumeRun
<1>3. /\ Known(r) /\ status[r] \notin TERMINAL_STATUSES /\ "running" \in RunStatus
      /\ type \in EventType /\ StatusAfter(type) = "running" /\ "running" # "waiting_input"
  BY <1>1 DEF Known, RunStatus, TERMINAL_STATUSES, EventType, StatusAfter
<1>4. graph[r] \in Place /\ graph[r].at \in Position /\ PlaceOK(graph[r])
  BY RunTyped DEF Place
<1>5. PlaceOK(g)
  <2>1. <<graph[r].at[1], "update">> \in Position
    BY <1>4 DEF Position
  <2>2. graph[r].revisions + (IF pending[r] = "resolve_requirements" THEN 1 ELSE 0) \in Nat
    BY <1>4 DEF Place
  <2>3. g \in Place /\ g.at = <<graph[r].at[1], "update">>
    BY <1>4, <2>1, <2>2 DEF Place
  <2> HIDE DEF g
  <2> QED BY <2>3 DEF PlaceOK
<1>6. CASE task' = [task EXCEPT ![r] = "running"] /\ graph' = [graph EXCEPT ![r] = g]
  <2>1. "running" \in TaskState /\ NoInterrupt \in InterruptNode \cup {NoInterrupt}
    BY DEF TaskState
  <2> HIDE DEF g, type
  <2> QED BY <1>1, <1>2, <1>3, <1>5, <1>6, <2>1, SingleHandled
<1>7. CASE UNCHANGED <<task, graph>>
  <2>1. /\ task[r] \in TaskState /\ task' = [task EXCEPT ![r] = task[r]]
        /\ graph' = [graph EXCEPT ![r] = graph[r]]
        /\ NoInterrupt \in InterruptNode \cup {NoInterrupt}
    BY <1>7, RunTyped
  <2> HIDE DEF type
  <2> QED BY <1>1, <1>2, <1>3, <1>4, <2>1, SingleHandled
<1> QED BY <1>6, <1>7 DEF ResumeRun

\* A cancel is handled for its run.
LEMMA CancelRunHandled ==
    ASSUME IInv, NEW r \in Run, CancelRun(r)
    PROVE  Handled(r)
<1> DEFINE type == "run.cancelled"
           t == IF task[r] = "running" THEN "unwinding" ELSE task[r]
<1>1. /\ status[r] \in {"running", "waiting_input"}
      /\ status' = [status EXCEPT ![r] = "cancelled"]
      /\ task' = [task EXCEPT ![r] = t]
      /\ UNCHANGED <<conv, pending, shown, convRuns, graph>>
  BY DEF CancelRun, Cancellable, RunStatus
<1>2. events' = [events EXCEPT ![r] = @ \o <<Event(type)>>]
  <2>1. CASE Shows(r, <<Event(type)>>)
    BY <2>1 DEF Shows
  <2>2. CASE events' = [events EXCEPT ![r] = Append(@, Event(type))]
    <3>1. Event(type) \in RunEvent
      BY EventTyped DEF EventType, TerminalEvent
    <3>2. Append(events[r], Event(type)) = events[r] \o <<Event(type)>>
      BY <3>1, RunTyped, AppendIsConcat
    <3> QED BY <2>2, <3>2
  <2> QED BY <2>1, <2>2 DEF CancelRun
<1>3. /\ Known(r) /\ status[r] \notin TERMINAL_STATUSES /\ "cancelled" \in RunStatus
      /\ type \in EventType /\ StatusAfter(type) = "cancelled" /\ "cancelled" # "waiting_input"
      /\ "cancelled" # "running"
  BY <1>1 DEF Known, RunStatus, TERMINAL_STATUSES, EventType, TerminalEvent, StatusAfter
<1>4. t \in TaskState /\ t # "running"
  BY RunTyped DEF TaskState
<1>5. /\ pending[r] \in InterruptNode \cup {NoInterrupt} /\ pending' = [pending EXCEPT ![r] = pending[r]]
      /\ PlaceOK(graph[r]) /\ graph' = [graph EXCEPT ![r] = graph[r]]
  BY <1>1, RunTyped
<1> HIDE DEF type, t
<1> QED BY <1>1, <1>2, <1>3, <1>4, <1>5, SingleHandled

\* The end of a cancelled task is handled for its run.
LEMMA UnwindHandled ==
    ASSUME IInv, NEW r \in Run, Unwind(r)
    PROVE  Handled(r)
<1>1. /\ task[r] = "unwinding" /\ task' = [task EXCEPT ![r] = "done"]
      /\ UNCHANGED <<status, conv, events, pending, shown, convRuns, graph>>
  BY DEF Unwind
<1>2. Known(r) /\ RunOK(status[r], events[r], pending[r], shown[r], task[r], graph[r])
  BY <1>1, RunTyped DEF IInv, RunsOK
<1>3. Writes(r, status[r], events[r], pending[r], shown[r], "done", graph[r])
  BY <1>1, RunTyped DEF Writes
<1>4. RunOK(status[r], events[r], pending[r], shown[r], "done", graph[r])
  BY <1>2 DEF RunOK, TaskState
<1>5. LifecycleStep(status[r], events[r], status[r], events[r])
  BY DEF LifecycleStep
<1> QED BY <1>2, <1>3, <1>4, <1>5, HandledIntro

\* A handled step keeps the invariant.
LEMMA HandledPreserves ==
    ASSUME IInv, NEW r \in Run, Handled(r)
    PROVE  IInv'
<1>1. Known(r)
  BY DEF Handled
<1>2. PICK v \in RunStatus, l \in Seq(RunEvent), p \in InterruptNode \cup {NoInterrupt},
           s \in Shown, t \in TaskState, g \in Place :
        /\ Writes(r, v, l, p, s, t, g)
        /\ RunOK(v, l, p, s, t, g)
        /\ status[r] \in TERMINAL_STATUSES => v = status[r]
  BY ZenonT(40) DEF Handled
<1> QED BY <1>1, <1>2, WritePreserves

\* A new run is appended to the list of its conversation, whose runs have
\* all ended.
LEMMA CreateRunPreserves ==
    ASSUME IInv, NEW r \in Run, NEW c \in Conversation, CreateRun(r, c)
    PROVE  IInv'
<1> DEFINE e == Event("run.started")
<1>1. /\ status[r] = "absent" /\ ~Known(r)
      /\ status' = [status EXCEPT ![r] = "running"]
      /\ conv' = [conv EXCEPT ![r] = c]
      /\ convRuns' = [convRuns EXCEPT ![c] = Append(@, r)]
      /\ events' = [events EXCEPT ![r] = <<e>>]
      /\ UNCHANGED <<pending, shown, graph>>
  BY DEF CreateRun, Known, RunStatus, TERMINAL_STATUSES
<1>2. e \in RunEvent /\ <<e>> \in Seq(RunEvent) /\ LogOK("running", <<e>>)
  <2>1. "run.started" \in EventType
    BY DEF EventType
  <2>2. e \in RunEvent /\ e.type = "run.started"
    BY <2>1, EventTyped
  <2> HIDE DEF e
  <2> QED BY <2>2 DEF Last, StatusAfter, LogOK
<1> HIDE DEF e
<1>3. PICK t \in {"running", "none"} : task' = [task EXCEPT ![r] = t]
  <2>1. CASE task' = [task EXCEPT ![r] = "running"]
    BY <2>1
  <2>2. CASE UNCHANGED task
    <3>1. task[r] = "none"
      BY <1>1 DEF IInv, RunsOK
    <3> QED BY <2>2, <3>1, RunTyped
  <2> QED BY <2>1, <2>2 DEF CreateRun
<1>4. "running" \in RunStatus /\ "running" # "waiting_input" /\ t \in TaskState
  BY DEF RunStatus, TaskState
<1>5. FieldsTyped'
  <2>1. convRuns' \in [Conversation -> Seq(Run)]
    BY <1>1 DEF IInv, FieldsTyped
  <2> QED BY <1>1, <1>2, <1>3, <1>4, <2>1 DEF IInv, FieldsTyped
<1>6. ASSUME NEW q \in Run, q # r
      PROVE  /\ status'[q] = status[q] /\ events'[q] = events[q] /\ conv'[q] = conv[q]
             /\ task'[q] = task[q] /\ Known(q)' = Known(q)
  BY <1>1, <1>3, <1>6 DEF IInv, FieldsTyped, Known
<1>7. /\ status'[r] = "running" /\ events'[r] = <<e>> /\ conv'[r] = c
      /\ task'[r] = t /\ Known(r)'
  BY <1>1, <1>3, <1>4 DEF IInv, FieldsTyped, Known
<1>8. RunsOK'
  <2> SUFFICES ASSUME NEW q \in Run
               PROVE  IF Known(q)'
                      THEN RunOK(status'[q], events'[q], pending'[q],
                                 shown'[q], task'[q], graph'[q])
                      ELSE task'[q] = "none" /\ events'[q] = <<>> /\ PlaceOK(graph'[q])
    BY DEF RunsOK
  <2>1. CASE q = r
    <3>1. RunOK("running", <<e>>, pending[r], shown[r], t, graph[r])
      BY <1>2, <1>4, RunTyped DEF RunOK
    <3> QED BY <2>1, <3>1, <1>1, <1>7
  <2>2. CASE q # r
    BY <2>2, <1>1, <1>6 DEF IInv, RunsOK
  <2> QED BY <2>1, <2>2
<1>9. Registered'
  <2> DEFINE old == convRuns[c]
             n == Len(old)
  <2>1. /\ old \in Seq(Run) /\ n \in Nat
        /\ convRuns'[c] = Append(old, r)
        /\ \A d \in Conversation : d # c => convRuns'[d] = convRuns[d]
    BY <1>1 DEF IInv, FieldsTyped
  <2>2. /\ Len(convRuns'[c]) = n + 1
        /\ \A i \in 1..n : convRuns'[c][i] = old[i]
        /\ convRuns'[c][n + 1] = r
    BY <2>1
  <2>3. \A d \in Conversation : \A i \in 1..Len(convRuns[d]) :
            convRuns[d][i] \in Run /\ convRuns[d][i] # r
    BY <1>1 DEF IInv, FieldsTyped, Registered
  <2>4. \A i \in 1..n : status[old[i]] \in TERMINAL_STATUSES
    <3>1. n # 0 => status[old[n]] \in TERMINAL_STATUSES
      <4>1. old # <<>> => status[Last(old)] \in TERMINAL_STATUSES
        BY DEF CreateRun, Admits
      <4>2. n # 0 => old # <<>> /\ Last(old) = old[n]
        BY <2>1 DEF Last
      <4> HIDE DEF old, n
      <4> QED BY <4>1, <4>2
    <3>2. \A i \in 1..n : i < n => status[old[i]] \in TERMINAL_STATUSES
      BY DEF IInv, Registered
    <3> HIDE DEF n
    <3> QED BY <2>1, <3>1, <3>2
  <2> HIDE DEF old, n
  <2>5. ASSUME NEW q \in Run, Known(q)'
        PROVE  /\ conv'[q] \in Conversation
               /\ \E i \in 1..Len(convRuns'[conv'[q]]) : convRuns'[conv'[q]][i] = q
    <3>1. CASE q = r
      <4>1. n + 1 \in 1..Len(convRuns'[c])
        BY <2>1, <2>2
      <4> QED BY <3>1, <4>1, <2>2, <1>7
    <3>2. CASE q # r
      <4>1. /\ Known(q) /\ conv'[q] = conv[q] /\ conv[q] \in Conversation
            /\ \E i \in 1..Len(convRuns[conv[q]]) : convRuns[conv[q]][i] = q
        BY <2>5, <3>2, <1>6 DEF IInv, Registered
      <4>2. PICK i \in 1..Len(convRuns[conv[q]]) : convRuns[conv[q]][i] = q
        BY <4>1
      <4>3. CASE conv[q] = c
        <5>1. i \in 1..n /\ old[i] = q
          BY <4>2, <4>3 DEF old, n
        <5>2. i \in 1..(n + 1) /\ convRuns'[c][i] = q
          BY <5>1, <2>1, <2>2
        <5> QED BY <4>1, <4>3, <5>2, <2>2
      <4>4. CASE conv[q] # c
        BY <4>1, <4>2, <4>4, <2>1
      <4> QED BY <4>3, <4>4
    <3> QED BY <3>1, <3>2
  <2>6. ASSUME NEW d \in Conversation, NEW i \in 1..Len(convRuns'[d])
        PROVE  /\ Known(convRuns[d][i])'
               /\ i < Len(convRuns'[d]) => status'[convRuns'[d][i]] \in TERMINAL_STATUSES
    <3>1. CASE d = c
      <4>1. CASE i = n + 1
        BY <3>1, <4>1, <2>1, <2>2, <1>7 DEF Known
      <4>2. CASE i # n + 1
        <5>1. i \in 1..n
          BY <3>1, <4>2, <2>1, <2>2, <2>6
        <5>2. /\ old[i] \in Run /\ old[i] # r /\ Known(old[i])
              /\ status[old[i]] \in TERMINAL_STATUSES
          BY <5>1, <2>3, <2>4 DEF IInv, Registered, old, n
        <5>3. status'[old[i]] = status[old[i]]
          BY <5>2, <1>6
        <5>4. convRuns'[d][i] = old[i]
          BY <3>1, <5>1, <2>2
        <5> QED BY <5>2, <5>3, <5>4 DEF Known
      <4> QED BY <4>1, <4>2
    <3>2. CASE d # c
      <4>1. convRuns'[d] = convRuns[d]
        BY <3>2, <2>1
      <4>2. i \in 1..Len(convRuns[d])
        BY <4>1
      <4>3. /\ convRuns[d][i] \in Run /\ convRuns[d][i] # r /\ Known(convRuns[d][i])
            /\ i < Len(convRuns[d]) => status[convRuns[d][i]] \in TERMINAL_STATUSES
        BY <4>2, <2>3 DEF IInv, Registered
      <4>4. status'[convRuns[d][i]] = status[convRuns[d][i]]
        BY <4>3, <1>6
      <4> QED BY <4>1, <4>3, <4>4 DEF Known
    <3> QED BY <3>1, <3>2
  <2> QED BY <2>5, <2>6, Zenon DEF Registered
<1> QED BY <1>5, <1>8, <1>9 DEF IInv

\* A manager that has just been constructed knows no run.
EmptyManager ==
    /\ status \in [Run -> {"absent", "lost"}]
    /\ conv = [r \in Run |-> NoConversation]
    /\ events = [r \in Run |-> <<>>]
    /\ pending = [r \in Run |-> NoInterrupt]
    /\ shown = [r \in Run |-> Fresh]
    /\ task = [r \in Run |-> "none"]
    /\ convRuns = [c \in Conversation |-> <<>>]
    /\ graph = [r \in Run |-> AtEntry]

\* A manager without runs satisfies the invariant.
LEMMA EmptyManagerIInv == EmptyManager => IInv
<1> SUFFICES ASSUME EmptyManager PROVE IInv
  OBVIOUS
<1>1. \A r \in Run : ~Known(r)
  BY DEF EmptyManager, Known, RunStatus, TERMINAL_STATUSES
<1>2. Fresh \in Shown
  BY NoOutcomeTyped DEF Fresh, Shown
<1>3. AtEntry \in Place /\ PlaceOK(AtEntry)
  BY EntryOK DEF PlaceOK
<1>4. FieldsTyped
  BY <1>2, <1>3 DEF EmptyManager, FieldsTyped, TaskState
<1>5. RunsOK
  BY <1>1, <1>3 DEF EmptyManager, RunsOK
<1>6. Registered
  <2>1. \A c \in Conversation : 1..Len(convRuns[c]) = {}
    BY DEF EmptyManager
  <2> QED BY <1>1, <2>1 DEF Registered
<1> QED BY <1>4, <1>5, <1>6 DEF IInv

\* The invariant holds initially.
LEMMA InitIInv == Init => IInv
BY EmptyManagerIInv DEF Init, EmptyManager

\* A restart establishes the invariant anew.
LEMMA RestartPreserves == IInv /\ Restart => IInv'
<1>1. IInv /\ Restart => EmptyManager'
  BY DEF Restart, EmptyManager, IInv, FieldsTyped, Known
<1> QED BY <1>1, EmptyManagerIInv, PTL

\* Every step creates a run, is handled for one run, or is a restart.
LEMMA StepCases ==
    ASSUME IInv, Next
    PROVE  \/ \E r \in Run, c \in Conversation : CreateRun(r, c)
           \/ \E r \in Run : Handled(r)
           \/ Restart
<1>1. ASSUME NEW r \in Run, TaskStep(r)
      PROVE  Handled(r)
  BY <1>1, StartNodeHandled, UpdateNodeHandled, AskHandled, StreamEndsHandled,
     GraphRaisesHandled, UnwindHandled DEF TaskStep
<1>2. ASSUME NEW r \in Run, ClientStep(r)
      PROVE  (\E c \in Conversation : CreateRun(r, c)) \/ Handled(r)
  BY <1>2, ResumeRunHandled, CancelRunHandled DEF ClientStep
<1> QED BY <1>1, <1>2 DEF Next

\* Every step keeps the invariant.
LEMMA NextIInv == IInv /\ [Next]_vars => IInv'
<1> SUFFICES ASSUME IInv, [Next]_vars PROVE IInv'
  OBVIOUS
<1>1. CASE Next
  BY <1>1, StepCases, CreateRunPreserves, HandledPreserves, RestartPreserves
<1>2. CASE UNCHANGED vars
  <2>1. UNCHANGED <<status, conv, events, pending, shown, task, convRuns, graph>>
    BY <1>2 DEF vars, memory
  <2> QED BY <2>1 DEF IInv, FieldsTyped, RunsOK, Registered, Known
<1> QED BY <1>1, <1>2

(***************************************************************************)
(* The inductive invariant holds in every behaviour.                       *)
(***************************************************************************)
THEOREM Invariance == Spec => []IInv
BY InitIInv, NextIInv, PTL DEF Spec

------------------------------------------------------------------------------
(***************************************************************************)
(* What the run manager keeps in memory always has its type.               *)
(***************************************************************************)
THEOREM ManagerTypeCorrect == Spec => []ManagerTypeOK
<1>1. IInv => ManagerTypeOK
  BY DEF IInv, FieldsTyped, ManagerTypeOK, Shown, TaskState
<1> QED BY <1>1, Invariance, PTL

(***************************************************************************)
(* create_run looks at the newest run of the conversation only, and that   *)
(* is enough: at most one run of a conversation has not ended, it is the   *)
(* newest, and no two tasks read the graph of a conversation.              *)
(***************************************************************************)
THEOREM SingleActiveRun == Spec => []OneActiveRun
<1>1. ASSUME IInv, NEW r1 \in Run, NEW r2 \in Run,
             task[r1] = "running", task[r2] = "running", conv[r1] = conv[r2]
      PROVE  r1 = r2
  <2> DEFINE c == conv[r1]
  <2>1. /\ Known(r1) /\ status[r1] \notin TERMINAL_STATUSES
        /\ Known(r2) /\ status[r2] \notin TERMINAL_STATUSES
    BY <1>1, TaskRuns DEF TERMINAL_STATUSES
  <2>2. c \in Conversation /\ Len(convRuns[c]) \in Nat
    BY <1>1, <2>1 DEF IInv, Registered, FieldsTyped
  <2>3. PICK i \in 1..Len(convRuns[c]) : convRuns[c][i] = r1
    BY <1>1, <2>1 DEF IInv, Registered
  <2>4. PICK j \in 1..Len(convRuns[c]) : convRuns[c][j] = r2
    BY <1>1, <2>1 DEF IInv, Registered
  <2>5. ~(i < Len(convRuns[c])) /\ ~(j < Len(convRuns[c]))
    BY <1>1, <2>1, <2>2, <2>3, <2>4 DEF IInv, Registered
  <2>6. i = j
    BY <2>2, <2>5
  <2> QED BY <2>3, <2>4, <2>6
<1>2. IInv => OneActiveRun
  BY <1>1 DEF IInv, Registered, OneActiveRun
<1> QED BY <1>2, Invariance, PTL

(***************************************************************************)
(* Replaying the whole log of a run ends at its status, whichever writes   *)
(* to the store failed, and a client that stops at the first event of a    *)
(* terminal type misses at most one run.failed.                            *)
(***************************************************************************)
THEOREM LogDeterminesStatus == Spec => []LogTellsStatus
<1>1. IInv => LogTellsStatus
  BY DEF IInv, RunsOK, RunOK, LogOK, LogTellsStatus
<1> QED BY <1>1, Invariance, PTL

(***************************************************************************)
(* A run that waits can be answered: its task is over, its interrupt is    *)
(* kept and the graph stands at the node that asked.                       *)
(***************************************************************************)
THEOREM WaitingCanBeAnswered == Spec => []WaitingIsAnswerable
<1>1. ASSUME IInv, NEW r \in Run, status[r] = "waiting_input"
      PROVE  task[r] = "done" /\ pending[r] # NoInterrupt /\ graph[r].at = <<pending[r], "ask">>
  <2>1. Known(r)
    BY <1>1 DEF Known, RunStatus
  <2> QED BY <1>1, <2>1 DEF IInv, RunsOK, RunOK
<1>2. IInv => WaitingIsAnswerable
  BY <1>1 DEF WaitingIsAnswerable
<1> QED BY <1>2, Invariance, PTL

(***************************************************************************)
(* Nothing but a restart of the process changes the status or the log of   *)
(* an ended run.                                                           *)
(***************************************************************************)
THEOREM EndingIsFinal == Spec => EndedIsFinal
<1>1. ASSUME IInv, Next, NEW r \in Run, status[r] \in TERMINAL_STATUSES
      PROVE  (status'[r] = status[r] /\ events'[r] = events[r]) \/ status'[r] = "lost"
  <2>1. ASSUME NEW q \in Run, NEW c \in Conversation, CreateRun(q, c)
        PROVE  status'[r] = status[r] /\ events'[r] = events[r]
    <3>1. q # r
      BY <1>1, <2>1 DEF CreateRun, TERMINAL_STATUSES
    <3> QED BY <2>1, <3>1, <1>1 DEF CreateRun, IInv, FieldsTyped
  <2>2. ASSUME NEW q \in Run, Handled(q)
        PROVE  status'[r] = status[r] /\ events'[r] = events[r]
    <3>1. PICK v \in RunStatus, l \in Seq(RunEvent), p \in InterruptNode \cup {NoInterrupt},
               s \in Shown, t \in TaskState, g \in Place :
            /\ Writes(q, v, l, p, s, t, g)
            /\ status[q] \in TERMINAL_STATUSES => v = status[q] /\ l = events[q]
      BY <2>2, Zenon DEF Handled
    <3> QED BY <3>1, <1>1 DEF Writes, IInv, FieldsTyped
  <2>3. ASSUME Restart
        PROVE  status'[r] = "lost"
    BY <2>3, <1>1 DEF Restart, Known, RunStatus
  <2> QED BY <1>1, <2>1, <2>2, <2>3, StepCases
<1>2. IInv /\ [Next]_vars =>
        [\A r \in Run : status[r] \in TERMINAL_STATUSES =>
            \/ status'[r] = status[r] /\ events'[r] = events[r]
            \/ status'[r] = "lost"]_vars
  BY <1>1
<1> QED BY <1>2, Invariance, PTL DEF Spec, EndedIsFinal

(***************************************************************************)
(* What a step of the system is to one run.                                *)
(***************************************************************************)
RunStep(r) ==
    \/ status'[r] = status[r] /\ events'[r] = events[r]
    \/ status[r] = "absent" /\ status'[r] = "running" /\ Len(events'[r]) = 1
    \/ LifecycleStep(status[r], events[r], status'[r], events'[r])
    \/ status[r] \in RunStatus /\ status'[r] = "lost" /\ events'[r] = <<>>

\* Every step of the system is a lifecycle step or a stutter of each run.
LEMMA StepIsRunStep ==
    ASSUME IInv, Next, NEW r \in Run
    PROVE  RunStep(r)
<1>1. ASSUME NEW q \in Run, NEW c \in Conversation, CreateRun(q, c)
      PROVE  RunStep(r)
  <2> DEFINE e == Event("run.started")
  <2>1. /\ status[q] = "absent" /\ status' = [status EXCEPT ![q] = "running"]
        /\ events' = [events EXCEPT ![q] = <<e>>]
    BY <1>1 DEF CreateRun
  <2>2. Len(<<e>>) = 1
    OBVIOUS
  <2> HIDE DEF e
  <2>3. CASE q = r
    BY <2>1, <2>2, <2>3 DEF RunStep, IInv, FieldsTyped
  <2>4. CASE q # r
    BY <2>1, <2>4 DEF RunStep, IInv, FieldsTyped
  <2> QED BY <2>3, <2>4
<1>2. ASSUME NEW q \in Run, Handled(q)
      PROVE  RunStep(r)
  <2>1. PICK v \in RunStatus, l \in Seq(RunEvent), p \in InterruptNode \cup {NoInterrupt},
             s \in Shown, t \in TaskState, g \in Place :
          /\ Writes(q, v, l, p, s, t, g)
          /\ LifecycleStep(status[q], events[q], v, l)
    BY <1>2, Zenon DEF Handled
  <2>2. status' = [status EXCEPT ![q] = v] /\ events' = [events EXCEPT ![q] = l]
    BY <2>1 DEF Writes
  <2>3. CASE q = r
    <3>1. status'[r] = v /\ events'[r] = l
      BY <2>2, <2>3 DEF IInv, FieldsTyped
    <3> QED BY <2>1, <2>3, <3>1, Zenon DEF RunStep
  <2>4. CASE q # r
    BY <2>2, <2>4 DEF RunStep, IInv, FieldsTyped
  <2> QED BY <2>3, <2>4
<1>3. ASSUME Restart
      PROVE  RunStep(r)
  <2>1. events'[r] = <<>>
    BY <1>3 DEF Restart
  <2>2. CASE Known(r)
    <3>1. status'[r] = "lost"
      BY <1>3, <2>2 DEF Restart
    <3> QED BY <2>1, <2>2, <3>1 DEF RunStep, Known
  <2>3. CASE ~Known(r)
    <3>1. status'[r] = status[r] /\ events[r] = <<>>
      BY <1>3, <2>3 DEF Restart, IInv, RunsOK
    <3> QED BY <2>1, <3>1 DEF RunStep
  <2> QED BY <2>2, <2>3
<1> QED BY <1>1, <1>2, <1>3, StepCases

\* Where the log of each run tells that it ended.
EndingsOK ==
    \A r \in Run :
        /\ status[r] \notin TERMINAL_STATUSES => Ending(events[r]) = 0
        /\ status[r] \in {"completed", "cancelled"} => Ending(events[r]) = Len(events[r])

\* The invariant says so.
LEMMA EndingOfRuns == IInv => EndingsOK
<1> SUFFICES ASSUME IInv, NEW r \in Run
             PROVE  /\ status[r] \notin TERMINAL_STATUSES => Ending(events[r]) = 0
                    /\ status[r] \in {"completed", "cancelled"} =>
                            Ending(events[r]) = Len(events[r])
  BY DEF EndingsOK
<1>1. Known(r) => events[r] \in Seq(RunEvent) /\ LogOK(status[r], events[r])
  BY RunTyped DEF RunOK
<1>2. ~Known(r) => events[r] = <<>> /\ status[r] \notin TERMINAL_STATUSES
  BY DEF IInv, RunsOK, Known, RunStatus
<1>3. Ending(<<>>) = 0
  BY DEF Ending
<1>4. "failed" \notin {"completed", "cancelled"} /\ {"completed", "cancelled"} \subseteq TERMINAL_STATUSES
  BY DEF TERMINAL_STATUSES
<1> QED BY <1>1, <1>2, <1>3, <1>4, EndingOf

(***************************************************************************)
(* Every run implements RunLifecycle: the initial state of the manager is  *)
(* an initial state of each run's lifecycle, and every step of the system  *)
(* is a lifecycle step or a stutter of each run.                           *)
(***************************************************************************)
THEOREM RunsImplementLifecycle == Spec => ImplementsLifecycle
<1>1. Init => \A r \in Run : Lifecycle(r)!Init
  <2>1. Ending(<<>>) = 0
    BY DEF Ending
  <2> QED BY <2>1 DEF Init, Lifecycle!Init
<1>2. ASSUME EndingsOK, EndingsOK', NEW r \in Run, RunStep(r)
      PROVE  [Lifecycle(r)!Next]_(Lifecycle(r)!vars)
  <2> DEFINE n0 == Len(events[r])
             n == Len(events'[r])
             e0 == Ending(events[r])
             e == Ending(events'[r])
             open == {"absent", "lost", "running", "waiting_input"}
  <2>1. status[r] \in open => e0 = 0
    BY <1>2 DEF EndingsOK, TERMINAL_STATUSES
  <2>2. status'[r] \in open => e = 0
    BY <1>2 DEF EndingsOK, TERMINAL_STATUSES
  <2>3. status'[r] \in {"completed", "cancelled"} => e = n
    BY <1>2 DEF EndingsOK
  <2>4. CASE status'[r] = status[r] /\ events'[r] = events[r]
    BY <2>4 DEF Lifecycle!vars
  <2>5. CASE status[r] = "absent" /\ status'[r] = "running" /\ n = 1
    BY <2>1, <2>2, <2>5 DEF Lifecycle!Next, Lifecycle!Create
  <2>6. CASE status[r] = "running" /\ status'[r] = "running" /\ \E k \in 0..MaxBatch : n = n0 + k
    BY <2>1, <2>2, <2>6 DEF Lifecycle!Next, Lifecycle!Progress
  <2>7. CASE status[r] = "running" /\ status'[r] = "waiting_input" /\ n = n0 + 1
    BY <2>1, <2>2, <2>7 DEF Lifecycle!Next, Lifecycle!Pause
  <2>8. CASE status[r] = "running" /\ status'[r] = "completed" /\ n = n0 + 1
    BY <2>3, <2>8 DEF Lifecycle!Next, Lifecycle!Complete
  <2>9. CASE status[r] = "waiting_input" /\ status'[r] = "running" /\ n = n0 + 1
    BY <2>1, <2>2, <2>9 DEF Lifecycle!Next, Lifecycle!Resume
  <2>10. CASE status[r] \in {"running", "waiting_input"} /\ status'[r] = "cancelled" /\ n = n0 + 1
    BY <2>3, <2>10 DEF Lifecycle!Next, Lifecycle!Cancel
  <2>11. CASE /\ status[r] = "running" /\ status'[r] = "failed"
              /\ \E k \in 0..MaxBatch :
                    n = n0 + k + 1 /\ (e = n \/ (k > 0 /\ e = n0 + k))
    BY <2>11 DEF Lifecycle!Next, Lifecycle!Fail
  <2>12. CASE status[r] \in RunStatus /\ status'[r] = "lost" /\ events'[r] = <<>>
    <3>1. n = 0 /\ e = 0
      BY <2>2, <2>12
    <3> QED BY <2>12, <3>1 DEF Lifecycle!Next, Lifecycle!Lose, Lifecycle!RunStatus,
                Lifecycle!TERMINAL_STATUSES, RunStatus, TERMINAL_STATUSES
  <2> HIDE DEF n0, n, e0, e
  <2> QED BY <1>2, <2>4, <2>5, <2>6, <2>7, <2>8, <2>9, <2>10, <2>11, <2>12
          DEF RunStep, LifecycleStep, n0, n, e
<1>3. IInv /\ [Next]_vars => [\A r \in Run : [Lifecycle(r)!Next]_(Lifecycle(r)!vars)]_vars
  <2>1. IInv /\ [Next]_vars => EndingsOK /\ EndingsOK'
    BY EndingOfRuns, NextIInv, PTL
  <2> QED BY <1>2, <2>1, StepIsRunStep
<1> QED BY <1>1, <1>3, Invariance, PTL DEF Spec, ImplementsLifecycle
------------------------------------------------------------------------------
(* Recording a list of events.                                             *)

\* Induction over the naturals, as a statement about sets.
LEMMA SetInduction ==
    ASSUME NEW S, 0 \in S, \A n \in Nat : n \in S => n + 1 \in S
    PROVE  Nat \subseteq S
<1> DEFINE T == Nat \ S
<1>1. SUFFICES ASSUME T # {} PROVE FALSE
  OBVIOUS
<1>2. T \subseteq Nat
  OBVIOUS
<1>3. \E x \in T : \A y \in T : ~(<<y, x>> \in OpToRel(<, Nat))
  <2> HIDE DEF T
  <2> QED BY <1>1, <1>2, WFMin, NatLessThanWellFounded
<1>4. PICK x \in T : \A y \in T : ~(y < x)
  BY <1>3 DEF OpToRel
<1>5. x # 0 /\ x - 1 \in Nat /\ x - 1 < x
  BY <1>4
<1>6. x - 1 \in S
  BY <1>5, <1>4
<1>7. x - 1 + 1 = x
  BY <1>4
<1> QED BY <1>5, <1>6, <1>7

\* The tables after the first events of es, one after the other.
Chain(f, r, es, m) ==
    f = [n \in 0..m |-> IF n = 0 THEN db ELSE Record(f[n - 1], r, es[n])]

\* There always is such a chain.
LEMMA ChainExists ==
    ASSUME NEW r, NEW es, NEW m \in Nat PROVE \E f : Chain(f, r, es, m)
<1> DEFINE S == {n \in Nat : \E f : Chain(f, r, es, n)}
<1>1. 0 \in S
  <2> DEFINE f == [n \in 0..0 |-> db]
  <2>1. f = [n \in 0..0 |-> IF n = 0 THEN db ELSE Record(f[n - 1], r, es[n])]
    OBVIOUS
  <2> QED BY <2>1, Zenon DEF Chain
<1>2. ASSUME NEW n \in Nat, n \in S PROVE n + 1 \in S
  <2>1. PICK f : Chain(f, r, es, n)
    BY <1>2
  <2> DEFINE g == [i \in 0..(n + 1) |-> IF i = n + 1 THEN Record(f[n], r, es[n + 1]) ELSE f[i]]
  <2>2. \A i \in 0..n : f[i] = IF i = 0 THEN db ELSE Record(f[i - 1], r, es[i])
    BY <2>1 DEF Chain
  <2>3. \A i \in 0..(n + 1) : g[i] = IF i = 0 THEN db ELSE Record(g[i - 1], r, es[i])
    <3> SUFFICES ASSUME NEW i \in 0..(n + 1)
                 PROVE  g[i] = IF i = 0 THEN db ELSE Record(g[i - 1], r, es[i])
      OBVIOUS
    <3>1. CASE i = n + 1
      <4>1. i # 0 /\ i - 1 = n /\ n \in 0..(n + 1) /\ n # n + 1
        BY <3>1
      <4> QED BY <3>1, <4>1
    <3>2. CASE i # n + 1
      <4>1. i \in 0..n /\ g[i] = f[i]
        BY <3>2
      <4>2. i # 0 => i - 1 \in 0..n /\ i - 1 # n + 1 /\ i - 1 \in 0..(n + 1)
        BY <4>1
      <4>3. i # 0 => g[i - 1] = f[i - 1]
        BY <4>2
      <4> QED BY <2>2, <4>1, <4>3
    <3> QED BY <3>1, <3>2
  <2>4. g = [i \in 0..(n + 1) |-> g[i]]
    OBVIOUS
  <2> HIDE DEF g
  <2>5. Chain(g, r, es, n + 1)
    BY <2>3, <2>4 DEF Chain
  <2> QED BY <2>5
<1> QED
  <2> HIDE DEF S
  <2>1. Nat \subseteq S
    BY <1>1, <1>2, SetInduction
  <2> QED BY <2>1 DEF S

\* RecordAll is the end of that chain.
LEMMA RecordAllChain ==
    ASSUME NEW r, NEW es, Len(es) \in Nat
    PROVE  \E f : Chain(f, r, es, Len(es)) /\ RecordAll(r, es) = f[Len(es)]
<1> DEFINE m == Len(es)
           P(f) == f = [n \in 0..m |-> IF n = 0 THEN db ELSE Record(f[n - 1], r, es[n])]
           g == CHOOSE f : P(f)
<1>1. \E f : P(f)
  <2>1. \E f : Chain(f, r, es, Len(es))
    BY ChainExists
  <2> QED BY <2>1, Zenon DEF Chain
<1>2. P(g)
  BY <1>1, Zenon
<1>3. RecordAll(r, es) = g[m]
  BY Zenon DEF RecordAll
<1> QED BY <1>2, <1>3, Zenon DEF Chain

\* What every record() keeps holds after all of them.
LEMMA RecordAllKeeps ==
    ASSUME NEW r, NEW E, NEW es \in Seq(E), NEW D, db \in D,
           \A d \in D, e \in E : Record(d, r, e) \in D
    PROVE  RecordAll(r, es) \in D
<1> DEFINE m == Len(es)
<1>1. m \in Nat /\ \A n \in 1..m : es[n] \in E
  OBVIOUS
<1>2. PICK f : Chain(f, r, es, m) /\ RecordAll(r, es) = f[m]
  BY <1>1, RecordAllChain
<1> DEFINE S == {n \in Nat : n <= m => f[n] \in D}
<1> HIDE DEF m
<1>3. \A n \in 0..m : f[n] = IF n = 0 THEN db ELSE Record(f[n - 1], r, es[n])
  BY <1>2 DEF Chain
<1>4. 0 \in S
  BY <1>1, <1>3
<1>5. ASSUME NEW n \in Nat, n \in S PROVE n + 1 \in S
  <2>1. SUFFICES ASSUME n + 1 <= m PROVE f[n + 1] \in D
    OBVIOUS
  <2>2. n <= m /\ n + 1 \in 1..m /\ n + 1 \in 0..m /\ n + 1 # 0 /\ n + 1 - 1 = n
    BY <1>1, <2>1
  <2>3. f[n] \in D /\ f[n + 1] = Record(f[n], r, es[n + 1])
    BY <1>3, <1>5, <2>2
  <2> QED BY <1>1, <2>2, <2>3
<1>6. Nat \subseteq S
  <2> HIDE DEF S
  <2> QED BY <1>4, <1>5, SetInduction
<1> QED BY <1>1, <1>2, <1>6

\* One more event is recorded after the others.
LEMMA RecordAllAppend ==
    ASSUME NEW r, NEW E, NEW es \in Seq(E), NEW e \in E
    PROVE  RecordAll(r, es \o <<e>>) = Record(RecordAll(r, es), r, e)
<1> DEFINE m == Len(es)
           fs == es \o <<e>>
<1>1. m \in Nat /\ Len(fs) = m + 1 /\ fs[m + 1] = e /\ \A n \in 1..m : fs[n] = es[n]
  OBVIOUS
<1>2. PICK f : Chain(f, r, es, m) /\ RecordAll(r, es) = f[m]
  BY <1>1, RecordAllChain
<1>3. PICK g : Chain(g, r, fs, m + 1) /\ RecordAll(r, fs) = g[m + 1]
  <2> HIDE DEF fs, m
  <2>1. Len(fs) \in Nat
    BY <1>1
  <2> QED BY <1>1, <2>1, RecordAllChain
<1> HIDE DEF m, fs
<1>4. \A n \in 0..m : f[n] = IF n = 0 THEN db ELSE Record(f[n - 1], r, es[n])
  BY <1>2 DEF Chain
<1>5. \A n \in 0..(m + 1) : g[n] = IF n = 0 THEN db ELSE Record(g[n - 1], r, fs[n])
  BY <1>3 DEF Chain
<1> DEFINE S == {n \in Nat : n <= m => f[n] = g[n]}
<1>6. 0 \in S
  BY <1>1, <1>4, <1>5
<1>7. ASSUME NEW n \in Nat, n \in S PROVE n + 1 \in S
  <2>1. SUFFICES ASSUME n + 1 <= m PROVE f[n + 1] = g[n + 1]
    OBVIOUS
  <2>2. /\ n <= m /\ n + 1 \in 1..m /\ n + 1 \in 0..m /\ n + 1 \in 0..(m + 1)
        /\ n + 1 # 0 /\ n + 1 - 1 = n
    BY <1>1, <2>1
  <2>3. f[n + 1] = Record(f[n], r, es[n + 1]) /\ g[n + 1] = Record(g[n], r, fs[n + 1])
    BY <1>4, <1>5, <2>2
  <2> QED BY <1>1, <1>7, <2>2, <2>3
<1>8. Nat \subseteq S
  <2> HIDE DEF S
  <2> QED BY <1>6, <1>7, SetInduction
<1>9. f[m] = g[m]
  BY <1>1, <1>8
<1>10. g[m + 1] = Record(g[m], r, e)
  <2>1. m + 1 \in 0..(m + 1) /\ m + 1 # 0 /\ m + 1 - 1 = m
    BY <1>1
  <2> QED BY <1>1, <1>5, <2>1
<1> QED BY <1>2, <1>3, <1>9, <1>10 DEF fs

\* Nothing to record, and one event.
LEMMA RecordAllFew ==
    ASSUME NEW r
    PROVE  /\ RecordAll(r, <<>>) = db
           /\ \A e : RecordAll(r, <<e>>) = Record(db, r, e)
<1>1. RecordAll(r, <<>>) = db
  <2> DEFINE es == <<>>
  <2>1. Len(es) = 0
    OBVIOUS
  <2> HIDE DEF es
  <2>2. PICK f : Chain(f, r, es, 0) /\ RecordAll(r, es) = f[0]
    BY <2>1, RecordAllChain
  <2>3. f[0] = db
    BY <2>2 DEF Chain
  <2> QED BY <2>2, <2>3 DEF es
<1>2. ASSUME NEW e PROVE RecordAll(r, <<e>>) = Record(db, r, e)
  <2>1. <<>> \in Seq({e}) /\ e \in {e} /\ <<>> \o <<e>> = <<e>>
    OBVIOUS
  <2>2. RecordAll(r, <<>> \o <<e>>) = Record(RecordAll(r, <<>>), r, e)
    BY <2>1, RecordAllAppend
  <2> QED BY <1>1, <2>1, <2>2
<1> QED BY <1>1, <1>2
------------------------------------------------------------------------------
(* The tables.                                                             *)

RunRow == [status : RunStatus \cup {NoRow}, conv : Conversation \cup {NoConversation},
           turn : Nat, report : BOOLEAN]
StepRow == [state : {NoRow, "running", "paused", "completed", "cancelled", "failed"},
            outcome : GraphStatus]
ConvRow == [status : RunStatus \cup {NoRow}, latest : Run \cup {NoRow}]

Tables == [run : [Run -> RunRow], step : [Run -> [Step -> StepRow]],
           conv : [Conversation -> ConvRow]]

HasRow(d, r) == d.run[r].status # NoRow

\* A row of a run is of a conversation, which shows the last of its runs.
RunShown(d, r) == HasRow(d, r) <=> d.run[r].conv # NoConversation

ConvShown(d, c) ==
    (\E r \in Run : d.run[r].conv = c) =>
        LET latest == d.conv[c].latest
        IN  /\ latest \in Run /\ d.run[latest].conv = c
            /\ d.conv[c].status = d.run[latest].status
            /\ \A r \in Run : d.run[r].conv = c /\ r # latest
                   => d.run[r].turn < d.run[latest].turn

Consistent ==
    {d \in Tables : /\ \A r \in Run : RunShown(d, r)
                   /\ \A c \in Conversation : ConvShown(d, c)}

\* Is r the run its conversation shows?
IsLatest(d, r) == HasRow(d, r) => d.conv[d.run[r].conv].latest = r

\* The tables that events of run r make of those of d0.
Since(d0, r) ==
    {d \in Consistent :
        /\ HasRow(d, r) <=> HasRow(d0, r)
        /\ \A q \in Run \ {r} : d.run[q] = d0.run[q] /\ d.step[q] = d0.step[q]
        /\ d.run[r].conv = d0.run[r].conv
        /\ \A c \in Conversation : d.conv[c].latest = d0.conv[c].latest}

\* Those of them that show run r as not ended.
OpenSince(d0, r) == {d \in Since(d0, r) : d.run[r].status \notin TERMINAL_STATUSES}

OpenEvent == {e \in RunEvent : e.type \notin TerminalEvent}

\* What record() makes of the tables: the rows of the run, one step of it,
\* and the status of its conversation.
LEMMA RecordWrites ==
    ASSUME NEW d \in Tables, NEW r \in Run, HasRow(d, r), NEW e \in RunEvent,
           d.run[r].conv \in Conversation
    PROVE  LET now == RowStatus(e, d.run[r].status)
               c == d.run[r].conv
               row == [d.run[r] EXCEPT !.status = now,
                                       !.report = @ \/ e.type = "report.completed"]
           IN  /\ now \in RunStatus
               /\ Record(d, r, e) =
                      [run |-> [d.run EXCEPT ![r] = row],
                       step |-> [d.step EXCEPT ![r] = RecordSteps(d.step[r], e)],
                       conv |-> [d.conv EXCEPT ![c] = [d.conv[c] EXCEPT !.status = now]]]
               /\ RecordSteps(d.step[r], e) \in [Step -> StepRow]
               /\ Record(d, r, e) \in Tables
<1> DEFINE now == RowStatus(e, d.run[r].status)
           c == d.run[r].conv
           row == [d.run[r] EXCEPT !.status = now,
                                   !.report = @ \/ e.type = "report.completed"]
           steps == RecordSteps(d.step[r], e)
           crow == [d.conv[c] EXCEPT !.status = now]
<1>1. /\ d.run \in [Run -> RunRow] /\ d.step \in [Run -> [Step -> StepRow]]
      /\ d.conv \in [Conversation -> ConvRow]
      /\ d.run[r] \in RunRow /\ d.conv[c] \in ConvRow /\ d.step[r] \in [Step -> StepRow]
      /\ d.run[r].status \in RunStatus
  BY DEF Tables, HasRow, RunRow
<1>2. now \in RunStatus
  BY <1>1 DEF RowStatus, RunStatus, TERMINAL_STATUSES
<1>3. steps \in [Step -> StepRow]
  <2>1. CASE e.step # NoStep
    <3> DEFINE s == RecordStep(d.step[r][e.step], e)
    <3>1. e.step \in Step /\ e.outcome \in GraphStatus /\ d.step[r][e.step] \in StepRow
      BY <1>1, <2>1 DEF RunEvent
    <3>2. s \in StepRow
      BY <3>1 DEF RecordStep, StepRow
    <3>3. steps = [d.step[r] EXCEPT ![e.step] = s]
      BY <2>1 DEF RecordSteps
    <3> HIDE DEF s
    <3> QED BY <1>1, <3>2, <3>3
  <2>2. ASSUME NEW state \in {"paused", "running", "cancelled", "failed"}
        PROVE  Settle(d.step[r], state) \in [Step -> StepRow]
    <3>1. ASSUME NEW s \in Step
          PROVE  [d.step[r][s] EXCEPT !.state = state] \in StepRow /\ d.step[r][s] \in StepRow
      <4>1. d.step[r][s] \in StepRow
        BY <1>1
      <4> QED BY <4>1 DEF StepRow
    <3> QED BY <3>1 DEF Settle
  <2>3. CASE e.step = NoStep
    <3>1. steps \in {Settle(d.step[r], state) : state \in {"paused", "running", "cancelled", "failed"}}
                    \cup {d.step[r]}
      BY <2>3 DEF RecordSteps
    <3> QED BY <1>1, <2>2, <3>1
  <2> QED BY <2>1, <2>3
<1>4. row \in RunRow /\ crow \in ConvRow
  BY <1>1, <1>2 DEF RunRow, ConvRow
<1>5. Record(d, r, e) = [run |-> [d.run EXCEPT ![r] = row],
                         step |-> [d.step EXCEPT ![r] = steps],
                         conv |-> [d.conv EXCEPT ![c] = crow]]
  <2> DEFINE report == d.run[r].report \/ e.type = "report.completed"
             run == [d.run EXCEPT ![r].status = now, ![r].report = report]
  <2>1. Record(d, r, e) = [run |-> run, step |-> [d.step EXCEPT ![r] = steps],
                           conv |-> [d.conv EXCEPT ![c] = crow]]
    BY <1>1 DEF Record, HasRow
  <2>2. run = [d.run EXCEPT ![r] = row]
    <3> HIDE DEF now, report
    <3>1. row = [d.run[r] EXCEPT !.status = now, !.report = report]
      BY DEF report
    <3> HIDE DEF row
    <3> QED BY <1>1, <3>1
  <2> QED BY <2>1, <2>2
<1> HIDE DEF row, steps, crow, now
<1>6. Record(d, r, e) \in Tables
  BY <1>1, <1>3, <1>4, <1>5 DEF Tables
<1> QED BY <1>2, <1>3, <1>5, <1>6 DEF row, steps, crow, now

\* Recording an event of the run a conversation shows keeps the tables
\* consistent, and shows the conversation what it shows the run.
LEMMA RecordKeeps ==
    ASSUME NEW d0 \in Tables, NEW r \in Run, IsLatest(d0, r), NEW e \in RunEvent,
           NEW d \in Since(d0, r)
    PROVE  /\ Record(d, r, e) \in Since(d0, r)
           /\ HasRow(Record(d, r, e), r) <=> HasRow(d, r)
           /\ HasRow(d, r) => Record(d, r, e).run[r].status = RowStatus(e, d.run[r].status)
<1> DEFINE x == Record(d, r, e)
           now == RowStatus(e, d.run[r].status)
           c == d.run[r].conv
<1>1. /\ d \in Consistent /\ d \in Tables /\ d.run \in [Run -> RunRow]
      /\ d.conv \in [Conversation -> ConvRow] /\ c = d0.run[r].conv
      /\ d0.run[r].conv \in Conversation \cup {NoConversation}
  BY DEF Since, Consistent, Tables, RunRow
<1>2. CASE ~HasRow(d, r)
  <2>1. x = d
    BY <1>2 DEF Record, HasRow
  <2> QED BY <1>2, <2>1
<1>3. CASE HasRow(d, r)
  <2>1. c \in Conversation
    <3>1. RunShown(d, r)
      BY DEF Since, Consistent
    <3> QED BY <1>1, <1>3, <3>1 DEF RunShown
  <2> DEFINE row == [d.run[r] EXCEPT !.status = now,
                                     !.report = @ \/ e.type = "report.completed"]
             crow == [d.conv[c] EXCEPT !.status = now]
  <2>2. /\ now \in RunStatus /\ x \in Tables
        /\ x.run = [d.run EXCEPT ![r] = row]
        /\ \A q \in Run \ {r} : x.step[q] = d.step[q]
        /\ x.conv = [d.conv EXCEPT ![c] = crow]
    <3> DEFINE steps == RecordSteps(d.step[r], e)
    <3>1. /\ now \in RunStatus /\ x \in Tables
          /\ x = [run |-> [d.run EXCEPT ![r] = row], step |-> [d.step EXCEPT ![r] = steps],
                  conv |-> [d.conv EXCEPT ![c] = crow]]
      BY <1>1, <1>3, <2>1, RecordWrites, Zenon
    <3> HIDE DEF x, now, row, steps, crow
    <3> QED BY <1>1, <3>1 DEF Consistent, Tables
  <2>3. row.status = now /\ row.conv = c /\ row.turn = d.run[r].turn
    BY <1>1 DEF RunRow
  <2>4. crow.status = now /\ crow.latest = d.conv[c].latest
    BY <1>1, <2>1 DEF ConvRow
  <2> HIDE DEF x, row, crow, now
  <2>5. /\ x.run[r] = row /\ x.conv[c] = crow
        /\ \A q \in Run \ {r} : x.run[q] = d.run[q]
        /\ \A k \in Conversation \ {c} : x.conv[k] = d.conv[k]
    BY <1>1, <2>1, <2>2
  <2>6. now # NoRow
    BY <2>2 DEF RunStatus, TERMINAL_STATUSES, NoRow
  <2>7. d.conv[c].latest = r
    <3>1. HasRow(d0, r)
      BY <1>3 DEF Since
    <3> QED BY <1>1, <2>1, <3>1 DEF IsLatest, Since
  <2>8. \A q \in Run : RunShown(x, q)
    BY <1>1, <2>1, <2>3, <2>5, <2>6, NoConversationAssumption
    DEF Since, Consistent, RunShown, HasRow
  <2>9. ASSUME NEW k \in Conversation PROVE ConvShown(x, k)
    <3>1. ConvShown(d, k)
      BY <1>1 DEF Consistent
    <3>2. \A q \in Run : x.run[q].conv = d.run[q].conv /\ x.run[q].turn = d.run[q].turn
      BY <2>3, <2>5
    <3>3. x.conv[k].latest = d.conv[k].latest
      BY <2>4, <2>5
    <3>4. CASE k = c
      <4>1. x.conv[k].latest = r /\ x.conv[k].status = x.run[r].status
        BY <2>3, <2>4, <2>5, <2>7, <3>4
      <4> QED BY <2>7, <3>1, <3>2, <3>4, <4>1 DEF ConvShown
    <3>5. CASE k # c
      <4>1. x.conv[k].status = d.conv[k].status
        BY <2>5, <3>5
      <4>2. \A q \in Run : d.run[q].conv = k => x.run[q].status = d.run[q].status
        BY <2>5, <3>5
      <4> QED BY <3>1, <3>2, <3>3, <4>1, <4>2 DEF ConvShown
    <3> QED BY <3>4, <3>5
  <2>10. x \in Consistent
    BY <2>2, <2>8, <2>9 DEF Consistent
  <2>11. x \in Since(d0, r)
    <3>1. HasRow(x, r) /\ HasRow(d0, r) /\ x.run[r].conv = d0.run[r].conv
      BY <1>1, <1>3, <2>3, <2>5, <2>6 DEF Since, HasRow
    <3>2. \A q \in Run \ {r} : x.run[q] = d0.run[q] /\ x.step[q] = d0.step[q]
      BY <2>2, <2>5 DEF Since
    <3>3. \A k \in Conversation : x.conv[k].latest = d0.conv[k].latest
      BY <2>4, <2>5 DEF Since
    <3> QED BY <2>10, <3>1, <3>2, <3>3 DEF Since
  <2> QED BY <1>3, <2>3, <2>5, <2>6, <2>11 DEF HasRow, x, now
<1> QED BY <1>2, <1>3

\* The tables are those they were made of.
LEMMA SinceSelf ==
    ASSUME NEW r \in Run, db \in Consistent
    PROVE  db \in Since(db, r) /\ db \in Tables
BY DEF Since, Consistent

\* Events that do not end the run leave a run that has not ended.
LEMMA OpenRecorded ==
    ASSUME NEW r \in Run, db \in Consistent, IsLatest(db, r),
           db.run[r].status \notin TERMINAL_STATUSES, NEW es \in Seq(OpenEvent)
    PROVE  RecordAll(r, es) \in OpenSince(db, r)
<1>1. db \in OpenSince(db, r) /\ db \in Tables
  BY SinceSelf DEF OpenSince
<1>2. ASSUME NEW d \in OpenSince(db, r), NEW e \in OpenEvent
      PROVE  Record(d, r, e) \in OpenSince(db, r)
  <2>1. d \in Since(db, r) /\ e \in RunEvent /\ e.type \notin TerminalEvent
    BY DEF OpenSince, OpenEvent
  <2> DEFINE x == Record(d, r, e)
  <2>2. /\ x \in Since(db, r) /\ (HasRow(x, r) <=> HasRow(d, r))
        /\ HasRow(d, r) => x.run[r].status = RowStatus(e, d.run[r].status)
    BY <1>1, <2>1, RecordKeeps, Zenon
  <2> HIDE DEF x
  <2>3. CASE HasRow(d, r)
    <3>1. RowStatus(e, d.run[r].status) \notin TERMINAL_STATUSES
      BY <2>1 DEF RowStatus, OpenSince, TERMINAL_STATUSES, TerminalEvent
    <3> QED BY <2>2, <2>3, <3>1 DEF OpenSince, x
  <2>4. CASE ~HasRow(d, r)
    <3>1. x.run[r].status \notin TERMINAL_STATUSES
      BY <2>2, <2>4 DEF HasRow, NoRow, TERMINAL_STATUSES
    <3> QED BY <2>2, <3>1 DEF OpenSince, x
  <2> QED BY <2>3, <2>4
<1> QED BY <1>1, <1>2, RecordAllKeeps

\* An event that ends the run shows its row as ended the same way.
LEMMA EndRecorded ==
    ASSUME NEW r \in Run, db \in Consistent, IsLatest(db, r),
           db.run[r].status \notin TERMINAL_STATUSES, NEW es \in Seq(OpenEvent),
           NEW e \in RunEvent, e.type \in TerminalEvent
    PROVE  /\ RecordAll(r, es \o <<e>>) \in Since(db, r)
           /\ RecordAll(r, es \o <<e>>).run[r].status \in {NoRow, StatusAfter(e.type)}
<1> DEFINE d == RecordAll(r, es)
           x == Record(d, r, e)
<1>1. d \in OpenSince(db, r) /\ d \in Since(db, r) /\ db \in Tables
  BY OpenRecorded, SinceSelf DEF OpenSince
<1>2. RecordAll(r, es \o <<e>>) = x
  <2>1. es \in Seq(RunEvent)
    BY DEF OpenEvent
  <2> QED BY <2>1, RecordAllAppend
<1> HIDE DEF d
<1>3. /\ x \in Since(db, r) /\ (HasRow(x, r) <=> HasRow(d, r))
      /\ HasRow(d, r) => x.run[r].status = RowStatus(e, d.run[r].status)
  BY <1>1, RecordKeeps, Zenon
<1>4. RowStatus(e, d.run[r].status) = StatusAfter(e.type)
  BY DEF RowStatus, StatusAfter, TerminalEvent
<1> HIDE DEF x
<1> QED BY <1>2, <1>3, <1>4 DEF HasRow

------------------------------------------------------------------------------
(***************************************************************************)
(* What the tables say of the runs in memory: the row of a run is of its   *)
(* conversation; a run that has not ended is the one its conversation      *)
(* shows; and an end the tables show is the run's.                         *)
(***************************************************************************)
StoredOK(r) ==
    /\ status[r] = "absent" => ~HasRow(db, r)
    /\ Known(r) /\ HasRow(db, r) => db.run[r].conv = conv[r]
    /\ Known(r) /\ status[r] \notin TERMINAL_STATUSES => IsLatest(db, r)
    /\ Known(r) /\ db.run[r].status \in TERMINAL_STATUSES => db.run[r].status = status[r]

StoreInv == db \in Consistent /\ \A r \in Run : StoredOK(r)

\* A step of a run that has not ended, as the tables see it.
Stored(r) ==
    /\ Known(r) /\ status[r] \notin TERMINAL_STATUSES
    /\ \E v \in RunStatus : status' = [status EXCEPT ![r] = v]
    /\ UNCHANGED conv
    /\ db' \in Since(db, r)
    /\ db'.run[r].status \in TERMINAL_STATUSES => db'.run[r].status = status'[r]

\* Such a step keeps what the tables say of every run.
LEMMA StoredKeeps == ASSUME IInv, StoreInv, NEW r \in Run, Stored(r) PROVE StoreInv'
<1>1. PICK v \in RunStatus : status' = [status EXCEPT ![r] = v]
  BY DEF Stored
<1>2. status'[r] = v /\ \A q \in Run \ {r} : status'[q] = status[q]
  BY <1>1 DEF IInv, FieldsTyped
<1>3. v # "absent" /\ Known(r)'
  BY <1>2 DEF RunStatus, TERMINAL_STATUSES, Known
<1>4. /\ db' \in Consistent /\ conv' = conv /\ (HasRow(db', r) <=> HasRow(db, r))
      /\ \A q \in Run \ {r} : db'.run[q] = db.run[q]
      /\ db'.run[r].conv = db.run[r].conv
      /\ \A c \in Conversation : db'.conv[c].latest = db.conv[c].latest
  BY DEF Stored, Since
<1>5. \A q \in Run : HasRow(db, q) => db.run[q].conv \in Conversation
  BY DEF StoreInv, Consistent, Tables, RunRow, RunShown
<1>6. StoredOK(r)'
  <2>1. IsLatest(db', r)
    BY <1>4, <1>5 DEF Stored, StoreInv, StoredOK, IsLatest
  <2>2. HasRow(db', r) => db'.run[r].conv = conv'[r]
    BY <1>4 DEF Stored, StoreInv, StoredOK
  <2>3. db'.run[r].status \in TERMINAL_STATUSES => db'.run[r].status = status'[r]
    BY DEF Stored
  <2> QED BY <1>2, <1>3, <2>1, <2>2, <2>3 DEF StoredOK
<1>7. ASSUME NEW q \in Run, q # r PROVE StoredOK(q)'
  <2>1. /\ StoredOK(q) /\ status'[q] = status[q] /\ db'.run[q] = db.run[q]
        /\ (Known(q)' <=> Known(q)) /\ conv'[q] = conv[q]
    BY <1>2, <1>4, <1>7 DEF StoreInv, Known
  <2>2. HasRow(db', q) <=> HasRow(db, q)
    BY <2>1 DEF HasRow
  <2>3. IsLatest(db, q) => IsLatest(db', q)
    BY <1>4, <1>5, <2>1, <2>2 DEF IsLatest
  <2> QED BY <2>1, <2>2, <2>3 DEF StoredOK
<1> QED BY <1>4, <1>6, <1>7 DEF StoreInv

\* A run that has not ended is the one its conversation shows, as not ended.
LEMMA ActiveRun ==
    ASSUME StoreInv, NEW r \in Run, Known(r), status[r] \notin TERMINAL_STATUSES
    PROVE  /\ db \in Consistent /\ IsLatest(db, r)
           /\ db.run[r].status \notin TERMINAL_STATUSES
BY DEF StoreInv, StoredOK

\* Events that leave the run open, with whatever open status it gets.
LEMMA OpenStored ==
    ASSUME IInv, StoreInv, NEW r \in Run, Known(r), status[r] \notin TERMINAL_STATUSES,
           NEW es \in Seq(OpenEvent), db' = RecordAll(r, es), UNCHANGED conv,
           NEW v \in RunStatus, status' = [status EXCEPT ![r] = v]
    PROVE  Stored(r)
<1>1. db' \in OpenSince(db, r)
  BY ActiveRun, OpenRecorded
<1> QED BY <1>1 DEF Stored, OpenSince

\* Nothing is recorded, because the store failed or there was nothing to do.
LEMMA NothingStored ==
    ASSUME IInv, StoreInv, NEW r \in Run, Known(r), status[r] \notin TERMINAL_STATUSES,
           UNCHANGED <<db, conv>>,
           NEW v \in RunStatus, status' = [status EXCEPT ![r] = v]
    PROVE  Stored(r)
<1>1. db \in Since(db, r) /\ db.run[r].status \notin TERMINAL_STATUSES
  BY ActiveRun, SinceSelf
<1> QED BY <1>1 DEF Stored

\* Events that end the run, the last of which says how.
LEMMA EndStored ==
    ASSUME IInv, StoreInv, NEW r \in Run, Known(r), status[r] \notin TERMINAL_STATUSES,
           NEW es \in Seq(OpenEvent), NEW type \in TerminalEvent,
           db' = RecordAll(r, es \o <<Event(type)>>), UNCHANGED conv,
           status' = [status EXCEPT ![r] = StatusAfter(type)]
    PROVE  Stored(r)
<1> DEFINE e == Event(type)
           v == StatusAfter(type)
<1>1. e \in RunEvent /\ e.type = type
  BY EventTyped DEF EventType
<1> HIDE DEF e
<1>2. /\ db' \in Since(db, r) /\ db'.run[r].status \in {NoRow, v}
  BY <1>1, ActiveRun, EndRecorded DEF e
<1>3. v \in RunStatus
  BY DEF StatusAfter, TerminalEvent, RunStatus, TERMINAL_STATUSES
<1>4. NoRow \notin TERMINAL_STATUSES /\ status'[r] = v
  BY DEF NoRow, TERMINAL_STATUSES, IInv, FieldsTyped
<1> HIDE DEF v
<1> QED BY <1>2, <1>3, <1>4 DEF Stored, v

\* Events that leave a run running do not end it.
LEMMA QuietIsOpen == \A es \in Seq(QuietEvent) : es \in Seq(OpenEvent)
<1>1. QuietEvent \subseteq OpenEvent
  BY DEF QuietEvent, OpenEvent, StatusAfter, TerminalEvent
<1> QED BY <1>1

\* The except branch: some of the events, and run.failed if that succeeds.
LEMMA FailureStored ==
    ASSUME IInv, StoreInv, NEW r \in Run, task[r] = "running", UNCHANGED conv,
           NEW es \in Seq(OpenEvent), NEW k \in 0..Len(es), FailsAfter(r, es, k)
    PROVE  Stored(r)
<1> DEFINE front == SubSeq(es, 1, k)
           failed == Event("run.failed")
<1>1. Known(r) /\ status[r] = "running" /\ status[r] \notin TERMINAL_STATUSES
  BY TaskRuns DEF TERMINAL_STATUSES
<1>2. front \in Seq(OpenEvent)
  <2>1. \A i \in 1..k : es[i] \in OpenEvent
    OBVIOUS
  <2> QED BY <2>1, SubSeqProperties
<1>3. /\ status' = [status EXCEPT ![r] = "failed"]
      /\ \/ db' = RecordAll(r, front \o <<failed>>)
         \/ db' = RecordAll(r, front \o <<>>)
  BY Zenon DEF FailsAfter
<1> HIDE DEF front, failed
<1>4. CASE db' = RecordAll(r, front \o <<failed>>)
  <2>1. "run.failed" \in TerminalEvent /\ StatusAfter("run.failed") = "failed"
    BY DEF TerminalEvent, StatusAfter
  <2> QED BY <1>1, <1>2, <1>3, <1>4, <2>1, EndStored DEF failed
<1>5. CASE db' = RecordAll(r, front \o <<>>)
  <2>1. front \o <<>> = front /\ "failed" \in RunStatus
    BY <1>2, ConcatEmptySeq DEF RunStatus, TERMINAL_STATUSES
  <2> QED BY <1>1, <1>2, <1>3, <1>5, <2>1, OpenStored
<1> QED BY <1>3, <1>4, <1>5

\* record() raised in the middle of the events of an item.
LEMMA BreaksStored ==
    ASSUME IInv, StoreInv, NEW r \in Run, task[r] = "running", UNCHANGED conv,
           NEW es \in Seq(RunEvent), es \in Seq(OpenEvent) \/ Len(es) = 1, Breaks(r, es)
    PROVE  Stored(r)
<1>1. PICK k \in 1..Len(es) : FailsAfter(r, es, k - 1)
  BY DEF Breaks
<1>2. CASE es \in Seq(OpenEvent)
  <2>1. k - 1 \in 0..Len(es)
    BY <1>1, <1>2
  <2> QED BY <1>1, <1>2, <2>1, FailureStored

\* record() raised on the only event: none was recorded before.
<1>3. CASE Len(es) = 1
  <2> DEFINE failed == Event("run.failed")
  <2>1. k - 1 = 0 /\ SubSeq(es, 1, 0) = <<>>
    BY <1>3
  <2>2. /\ status' = [status EXCEPT ![r] = "failed"]
        /\ \/ db' = RecordAll(r, <<>> \o <<failed>>)
           \/ db' = RecordAll(r, <<>> \o <<>>)
    <3>1. FailsAfter(r, es, 0)
      BY <1>1, <2>1
    <3>2. /\ status' = [status EXCEPT ![r] = "failed"]
          /\ \/ db' = RecordAll(r, SubSeq(es, 1, 0) \o <<failed>>)
             \/ db' = RecordAll(r, SubSeq(es, 1, 0) \o <<>>)
      BY <3>1, Zenon DEF FailsAfter
    <3> QED BY <2>1, <3>2
  <2>3. Known(r) /\ status[r] \notin TERMINAL_STATUSES
    BY TaskRuns DEF TERMINAL_STATUSES
  <2>4. <<>> \in Seq(OpenEvent) /\ <<>> \o <<>> = <<>>
    OBVIOUS
  <2>5. /\ "run.failed" \in TerminalEvent /\ StatusAfter("run.failed") = "failed"
        /\ "failed" \in RunStatus
    BY DEF TerminalEvent, StatusAfter, RunStatus, TERMINAL_STATUSES
  <2> HIDE DEF failed
  <2>6. CASE db' = RecordAll(r, <<>> \o <<failed>>)
    BY <2>2, <2>3, <2>4, <2>5, <2>6, EndStored DEF failed
  <2>7. CASE db' = RecordAll(r, <<>> \o <<>>)
    BY <2>2, <2>3, <2>4, <2>5, <2>7, OpenStored
  <2> QED BY <2>2, <2>6, <2>7
<1> QED BY <1>2, <1>3

\* The handlers of the task.
LEMMA TaskStored ==
    ASSUME IInv, StoreInv, NEW r \in Run, TaskStep(r)
    PROVE  Stored(r) \/ UNCHANGED <<status, conv, db>>
<1>1. CASE StartNode(r)
  <2> DEFINE n == graph[r].at[1]
             es == TaskEvents(r, n)
  <2>1. task[r] = "running" /\ n \in StartNodes /\ UNCHANGED conv
    BY <1>1, RunTyped DEF StartNode, Reads, PlaceOK
  <2>2. es \in Seq(QuietEvent) /\ es \in Seq(OpenEvent) /\ es \in Seq(RunEvent)
    BY <2>1, TaskEventsQuiet, QuietIsOpen, QuietIsEvent
  <2>3. Known(r) /\ status[r] = "running" /\ status[r] \notin TERMINAL_STATUSES
        /\ status[r] \in RunStatus
    BY <2>1, TaskRuns DEF TERMINAL_STATUSES, RunStatus
  <2>4. Breaks(r, es) \/ (Shows(r, es) /\ UNCHANGED status)
    BY <1>1, Zenon DEF StartNode
  <2> HIDE DEF n, es
  <2>5. CASE Shows(r, es) /\ UNCHANGED status
    <3>1. status' = [status EXCEPT ![r] = status[r]] /\ db' = RecordAll(r, es)
      BY <2>5, RunTyped DEF Shows
    <3> QED BY <2>1, <2>2, <2>3, <3>1, OpenStored
  <2> QED BY <2>1, <2>2, <2>4, <2>5, BreaksStored
<1>2. CASE UpdateNode(r)
  <2>1. task[r] = "running" /\ UNCHANGED conv
    BY <1>2 DEF UpdateNode, Reads
  <2>2. PICK e \in Edges, revised \in BOOLEAN :
            \/ Shows(r, UpdateEvents(r, e[1], e[2], revised)) /\ UNCHANGED status
            \/ Breaks(r, UpdateEvents(r, e[1], e[2], revised))
    BY <1>2, Zenon DEF UpdateNode
  <2> DEFINE es == UpdateEvents(r, e[1], e[2], revised)
  <2>3. es \in Seq(QuietEvent) /\ es \in Seq(OpenEvent) /\ es \in Seq(RunEvent)
    BY EdgesTyped, UpdateEventsQuiet, QuietIsOpen, QuietIsEvent
  <2>4. Known(r) /\ status[r] = "running" /\ status[r] \notin TERMINAL_STATUSES
        /\ status[r] \in RunStatus
    BY <2>1, TaskRuns DEF TERMINAL_STATUSES, RunStatus
  <2> HIDE DEF es
  <2>5. CASE Shows(r, es) /\ UNCHANGED status
    <3>1. status' = [status EXCEPT ![r] = status[r]] /\ db' = RecordAll(r, es)
      BY <2>5, RunTyped DEF Shows
    <3> QED BY <2>1, <2>3, <2>4, <3>1, OpenStored
  <2> QED BY <2>1, <2>2, <2>3, <2>5, BreaksStored DEF es
<1>3. CASE Ask(r)
  <2> DEFINE e == Event("hitl.required")
  <2>1. /\ task[r] = "running" /\ UNCHANGED conv
        /\ \/ Shows(r, <<e>>) /\ status' = [status EXCEPT ![r] = "waiting_input"]
           \/ Breaks(r, <<e>>)
    BY <1>3, Zenon DEF Ask, Reads
  <2>2. e \in RunEvent /\ e \in OpenEvent
    BY EventTyped DEF EventType, OpenEvent, TerminalEvent
  <2> HIDE DEF e
  <2>3. <<e>> \in Seq(OpenEvent) /\ <<e>> \in Seq(RunEvent)
    BY <2>2
  <2>4. Known(r) /\ status[r] \notin TERMINAL_STATUSES /\ "waiting_input" \in RunStatus
    BY <2>1, TaskRuns DEF TERMINAL_STATUSES, RunStatus
  <2>5. CASE Shows(r, <<e>>) /\ status' = [status EXCEPT ![r] = "waiting_input"]
    <3>1. db' = RecordAll(r, <<e>>)
      BY <2>5 DEF Shows
    <3> QED BY <2>1, <2>3, <2>4, <2>5, <3>1, OpenStored
  <2> QED BY <2>1, <2>3, <2>5, BreaksStored
<1>4. CASE StreamEnds(r)
  <2> DEFINE final == IF shown[r].graphStatus \in FAILED_GRAPH_STATUSES
                      THEN "failed" ELSE "completed"
             type == IF final = "failed" THEN "run.failed" ELSE "run.completed"
             e == Event(type)
  <2>1. /\ task[r] = "running" /\ UNCHANGED conv
        /\ \/ Shows(r, <<e>>) /\ status' = [status EXCEPT ![r] = final]
           \/ Breaks(r, <<e>>)
    BY <1>4, Zenon DEF StreamEnds
  <2>2. type \in TerminalEvent /\ final = StatusAfter(type)
    BY DEF TerminalEvent, StatusAfter
  <2> HIDE DEF final, type
  <2>3. <<e>> \in Seq(RunEvent) /\ Len(<<e>>) = 1
    BY <2>2, EventTyped DEF EventType
  <2>4. Known(r) /\ status[r] \notin TERMINAL_STATUSES
    BY <2>1, TaskRuns DEF TERMINAL_STATUSES
  <2>5. <<>> \in Seq(OpenEvent) /\ <<>> \o <<e>> = <<e>>
    BY <2>3
  <2>6. CASE Shows(r, <<e>>) /\ status' = [status EXCEPT ![r] = final]
    <3>1. db' = RecordAll(r, <<>> \o <<Event(type)>>)
      BY <2>5, <2>6 DEF Shows
    <3> QED BY <2>1, <2>2, <2>4, <2>5, <2>6, <3>1, EndStored
  <2> HIDE DEF e
  <2> QED BY <2>1, <2>3, <2>6, BreaksStored
<1>5. CASE GraphRaises(r)
  <2>1. task[r] = "running" /\ UNCHANGED conv /\ FailsAfter(r, <<>>, 0)
    BY <1>5 DEF GraphRaises
  <2>2. <<>> \in Seq(OpenEvent) /\ 0 \in 0..Len(<<>>)
    OBVIOUS
  <2> QED BY <2>1, <2>2, FailureStored
<1>6. CASE Unwind(r)
  BY <1>6 DEF Unwind
<1> QED BY <1>1, <1>2, <1>3, <1>4, <1>5, <1>6 DEF TaskStep

\* What the client asks of a run that exists.
LEMMA ResumeStored ==
    ASSUME IInv, StoreInv, NEW r \in Run, ResumeRun(r)
    PROVE  Stored(r)
<1> DEFINE e == Event("hitl.resolved")
<1>1. /\ status[r] = "waiting_input" /\ status' = [status EXCEPT ![r] = "running"]
      /\ UNCHANGED conv
      /\ Shows(r, <<e>>) \/ UNCHANGED db
  BY Zenon DEF ResumeRun, Answerable
<1>2. /\ Known(r) /\ status[r] \notin TERMINAL_STATUSES /\ "running" \in RunStatus
  BY <1>1 DEF Known, RunStatus, TERMINAL_STATUSES
<1>3. e \in OpenEvent
  BY EventTyped DEF EventType, OpenEvent, TerminalEvent
<1> HIDE DEF e
<1>4. CASE Shows(r, <<e>>)
  <2>1. db' = RecordAll(r, <<e>>) /\ <<e>> \in Seq(OpenEvent)
    BY <1>3, <1>4 DEF Shows
  <2> QED BY <1>1, <1>2, <2>1, OpenStored
<1>5. CASE UNCHANGED db
  BY <1>1, <1>2, <1>5, NothingStored
<1> QED BY <1>1, <1>4, <1>5

\* A cancelled run is shown as cancelled, or as it was.
LEMMA CancelStored ==
    ASSUME IInv, StoreInv, NEW r \in Run, CancelRun(r)
    PROVE  Stored(r)
<1> DEFINE e == Event("run.cancelled")
<1>1. /\ status[r] \in RunStatus \ TERMINAL_STATUSES
      /\ status' = [status EXCEPT ![r] = "cancelled"]
      /\ UNCHANGED conv
      /\ Shows(r, <<e>>) \/ UNCHANGED db
  BY Zenon DEF CancelRun, Cancellable
<1>2. /\ Known(r) /\ status[r] \notin TERMINAL_STATUSES /\ "cancelled" \in RunStatus
      /\ "run.cancelled" \in TerminalEvent /\ StatusAfter("run.cancelled") = "cancelled"
  BY <1>1 DEF Known, RunStatus, TERMINAL_STATUSES, TerminalEvent, StatusAfter
<1>3. CASE Shows(r, <<e>>)
  <2>1. db' = RecordAll(r, <<>> \o <<e>>) /\ <<>> \in Seq(OpenEvent)
    BY <1>3 DEF Shows
  <2> QED BY <1>1, <1>2, <2>1, EndStored
<1>4. CASE UNCHANGED db
  BY <1>1, <1>2, <1>4, NothingStored
<1> QED BY <1>1, <1>3, <1>4

\* The next turn of a conversation is after all its turns.
LEMMA NextTurn ==
    ASSUME db \in Consistent, NEW c \in Conversation
    PROVE  /\ next_turn_no(c) \in Nat
           /\ \A r \in Run : db.run[r].conv = c => db.run[r].turn < next_turn_no(c)
<1> DEFINE T == {0} \cup {db.run[r].turn : r \in RowsOf(c)}
<1>1. \A r \in Run : db.run[r].turn \in Nat
  BY DEF Consistent, Tables, RunRow
<1>2. \E m \in T : \A t \in T : m >= t
  <2>1. CASE RowsOf(c) = {}
    BY <2>1
  <2>2. CASE RowsOf(c) # {}
    <3> DEFINE l == db.conv[c].latest
    <3>1. \E r \in Run : db.run[r].conv = c
      BY <2>2 DEF RowsOf
    <3>2. /\ l \in Run /\ db.run[l].conv = c
          /\ \A r \in Run : db.run[r].conv = c /\ r # l => db.run[r].turn < db.run[l].turn
      BY <3>1 DEF Consistent, ConvShown
    <3>3. \A r \in RowsOf(c) : db.run[l].turn >= db.run[r].turn
      BY <1>1, <3>2 DEF RowsOf
    <3>4. db.run[l].turn \in T /\ db.run[l].turn >= 0
      BY <1>1, <3>2 DEF RowsOf
    <3> HIDE DEF l
    <3> QED BY <3>3, <3>4
  <2> QED BY <2>1, <2>2
<1> DEFINE m == Max(T)
<1>3. m \in T /\ \A t \in T : m >= t
  <2> HIDE DEF T
  <2> QED BY <1>2 DEF Max
<1>4. next_turn_no(c) = m + 1
  BY DEF next_turn_no
<1> HIDE DEF m
<1>5. m \in Nat
  BY <1>1, <1>3 DEF RowsOf
<1>6. \A r \in Run : db.run[r].conv = c => db.run[r].turn \in T
  BY DEF RowsOf
<1> HIDE DEF T
<1> QED BY <1>1, <1>3, <1>4, <1>5, <1>6

\* A run whose admission was granted finds no other run of its conversation
\* that has not ended.
LEMMA AdmittedAlone ==
    ASSUME IInv, NEW c \in Conversation, Admits(c), NEW q \in Run, Known(q), conv[q] = c
    PROVE  status[q] \in TERMINAL_STATUSES
<1> DEFINE n == Len(convRuns[c])
<1>1. convRuns[c] \in Seq(Run) /\ n \in Nat
  BY DEF IInv, FieldsTyped
<1>2. PICK i \in 1..n : convRuns[c][i] = q
  BY DEF IInv, Registered
<1>3. i < n => status[q] \in TERMINAL_STATUSES
  BY <1>2 DEF IInv, Registered
<1>4. i = n => status[q] \in TERMINAL_STATUSES
  BY <1>1, <1>2 DEF Admits, Last
<1> QED BY <1>1, <1>2, <1>3, <1>4

\* What record() makes of run.started.
LEMMA StartedKeeps ==
    ASSUME db \in Consistent, NEW r \in Run, NEW c \in Conversation, ~HasRow(db, r),
           NEW d, d = RecordStarted(r, c)
    PROVE  /\ d \in Consistent
           /\ HasRow(d, r) /\ d.run[r].conv = c /\ d.run[r].status = "running"
           /\ d.conv[c].latest = r
           /\ \A q \in Run \ {r} : d.run[q] = db.run[q]
           /\ \A k \in Conversation \ {c} : d.conv[k] = db.conv[k]
<1> DEFINE n == next_turn_no(c)
           row == [status |-> "running", conv |-> c, turn |-> n, report |-> FALSE]
           crow == [status |-> "running", latest |-> r]
<1>1. /\ db.run \in [Run -> RunRow] /\ db.step \in [Run -> [Step -> StepRow]]
      /\ db.conv \in [Conversation -> ConvRow]
      /\ \A q \in Run : RunShown(db, q) /\ \A k \in Conversation : ConvShown(db, k)
  BY DEF Consistent, Tables
<1>2. /\ d.run = [db.run EXCEPT ![r] = row] /\ d.step = db.step
      /\ d.conv = [db.conv EXCEPT ![c] = crow]
      /\ d = [run |-> d.run, step |-> d.step, conv |-> d.conv]
  BY DEF RecordStarted
<1>3. n \in Nat /\ \A q \in Run : db.run[q].conv = c => db.run[q].turn < n
  BY NextTurn
<1> HIDE DEF n
<1>4. row \in RunRow /\ crow \in ConvRow
  BY <1>3 DEF RunRow, ConvRow, RunStatus
<1>5. /\ row.status = "running" /\ row.conv = c /\ row.turn = n
      /\ crow.status = "running" /\ crow.latest = r
  OBVIOUS
<1> HIDE DEF row, crow
<1>6. d \in Tables
  BY <1>1, <1>2, <1>4 DEF Tables
<1>7. /\ d.run[r] = row /\ \A q \in Run \ {r} : d.run[q] = db.run[q]
      /\ d.conv[c] = crow /\ \A k \in Conversation \ {c} : d.conv[k] = db.conv[k]
  BY <1>1, <1>2
<1>8. HasRow(d, r)
  BY <1>5, <1>7 DEF HasRow, NoRow
<1>9. c # NoConversation
  BY NoConversationAssumption
<1>10. \A q \in Run : RunShown(d, q)
  BY <1>1, <1>5, <1>7, <1>8, <1>9 DEF RunShown, HasRow
<1>11. db.run[r].conv = NoConversation
  BY <1>1 DEF RunShown
<1>12. ConvShown(d, c)
  <2>1. ASSUME NEW q \in Run, d.run[q].conv = c, q # r PROVE d.run[q].turn < d.run[r].turn
    BY <1>3, <1>5, <1>7, <2>1
  <2> QED BY <1>5, <1>7, <2>1 DEF ConvShown
<1>13. ASSUME NEW k \in Conversation, k # c PROVE ConvShown(d, k)
  <2>1. k # NoConversation
    BY NoConversationAssumption
  <2>2. \A q \in Run : d.run[q].conv = k <=> db.run[q].conv = k
    BY <1>5, <1>7, <1>11, <1>13, <2>1
  <2>3. \A q \in Run : d.run[q].conv = k => d.run[q] = db.run[q]
    BY <1>5, <1>7, <1>13
  <2>4. d.conv[k] = db.conv[k] /\ ConvShown(db, k)
    BY <1>1, <1>7, <1>13
  <2> QED BY <2>2, <2>3, <2>4 DEF ConvShown
<1>14. d \in Consistent
  BY <1>6, <1>10, <1>12, <1>13 DEF Consistent
<1> QED BY <1>5, <1>7, <1>8, <1>14

\* A new run becomes the one its conversation shows, or gets no row.
LEMMA CreateStored ==
    ASSUME IInv, StoreInv, NEW r \in Run, NEW c \in Conversation, CreateRun(r, c)
    PROVE  StoreInv'
<1>1. /\ status[r] = "absent" /\ Admits(c)
      /\ status' = [status EXCEPT ![r] = "running"] /\ conv' = [conv EXCEPT ![r] = c]
      /\ db' = RecordStarted(r, c) \/ db' = db
  BY Zenon DEF CreateRun
<1>2. /\ status'[r] = "running" /\ conv'[r] = c
      /\ \A q \in Run \ {r} : status'[q] = status[q] /\ conv'[q] = conv[q]
  BY <1>1 DEF IInv, FieldsTyped
<1>3. /\ Known(r)' /\ \A q \in Run \ {r} : Known(q)' <=> Known(q)
  BY <1>2 DEF Known, RunStatus
<1>4. ~HasRow(db, r) /\ db \in Consistent
  BY <1>1 DEF StoreInv, StoredOK
<1>5. CASE db' = db
  <2>1. StoredOK(r)'
    BY <1>2, <1>4, <1>5 DEF StoredOK, IsLatest, HasRow, NoRow, TERMINAL_STATUSES
  <2>2. ASSUME NEW q \in Run, q # r PROVE StoredOK(q)'
    BY <1>2, <1>3, <1>5, <2>2 DEF StoreInv, StoredOK
  <2> QED BY <1>4, <1>5, <2>1, <2>2 DEF StoreInv
<1>6. CASE db' = RecordStarted(r, c)
  <2>1. /\ db' \in Consistent
        /\ HasRow(db', r) /\ db'.run[r].conv = c /\ db'.run[r].status = "running"
        /\ db'.conv[c].latest = r
        /\ \A q \in Run \ {r} : db'.run[q] = db.run[q]
        /\ \A k \in Conversation \ {c} : db'.conv[k] = db.conv[k]
    BY <1>4, <1>6, StartedKeeps
  <2>2. StoredOK(r)'
    BY <1>2, <2>1 DEF StoredOK, IsLatest, TERMINAL_STATUSES
  <2>3. ASSUME NEW q \in Run, q # r PROVE StoredOK(q)'
    <3>1. /\ StoredOK(q) /\ (HasRow(db', q) <=> HasRow(db, q)) /\ db'.run[q] = db.run[q]
          /\ status'[q] = status[q] /\ conv'[q] = conv[q] /\ (Known(q)' <=> Known(q))
      BY <1>2, <1>3, <2>1, <2>3 DEF StoreInv, HasRow
    <3>2. ASSUME Known(q), status[q] \notin TERMINAL_STATUSES, HasRow(db, q)
          PROVE  db'.conv[db.run[q].conv] = db.conv[db.run[q].conv]
      <4>1. db.run[q].conv = conv[q] /\ conv[q] \in Conversation
        BY <3>1, <3>2 DEF StoredOK, IInv, Registered
      <4>2. conv[q] # c
        BY <1>1, <3>2, AdmittedAlone
      <4> QED BY <2>1, <4>1, <4>2
    <3> QED BY <3>1, <3>2 DEF StoredOK, IsLatest
  <2> QED BY <2>1, <2>2, <2>3 DEF StoreInv
<1> QED BY <1>1, <1>5, <1>6

\* A restart forgets the runs, not the tables.
LEMMA RestartStored ==
    ASSUME IInv, StoreInv, Restart
    PROVE  StoreInv'
<1>1. \A r \in Run : ~Known(r)' /\ (status'[r] = "absent" => status[r] = "absent")
  BY DEF Restart, Known, RunStatus, TERMINAL_STATUSES, IInv, FieldsTyped
<1>2. db' = db
  BY DEF Restart
<1> QED BY <1>1, <1>2 DEF StoreInv, StoredOK

\* An empty store shows no run.
LEMMA InitStored == Init => StoreInv
<1> SUFFICES ASSUME Init PROVE StoreInv
  OBVIOUS
<1>1. /\ NoRunRow \in RunRow /\ NoStepRow \in StepRow /\ NoConvRow \in ConvRow
  BY NoOutcomeTyped DEF NoRunRow, RunRow, NoStepRow, StepRow, NoConvRow, ConvRow, NoOutcome
<1>2. db.run = [r \in Run |-> NoRunRow] /\ db \in Tables
  BY <1>1 DEF Init, Tables
<1>3. \A r \in Run : db.run[r].status = NoRow /\ db.run[r].conv = NoConversation
  BY <1>2 DEF NoRunRow
<1>4. \A c \in Conversation : c # NoConversation
  BY NoConversationAssumption
<1>5. db \in Consistent
  BY <1>2, <1>3, <1>4 DEF Consistent, RunShown, ConvShown, HasRow
<1>6. \A r \in Run : ~Known(r)
  BY DEF Init, Known, RunStatus, TERMINAL_STATUSES
<1> QED BY <1>3, <1>5, <1>6 DEF StoreInv, StoredOK, HasRow

\* Every step keeps what the tables say.
LEMMA NextStored == IInv /\ StoreInv /\ [Next]_vars => StoreInv'
<1> SUFFICES ASSUME IInv, StoreInv, [Next]_vars PROVE StoreInv'
  OBVIOUS
<1>1. ASSUME UNCHANGED <<status, conv, db>> PROVE StoreInv'
  <2>1. \A r \in Run : StoredOK(r)' <=> StoredOK(r)
    BY <1>1 DEF StoredOK, Known
  <2> QED BY <1>1, <2>1 DEF StoreInv
<1>2. CASE UNCHANGED vars
  BY <1>1, <1>2 DEF vars, memory
<1>3. ASSUME NEW r \in Run, TaskStep(r) PROVE StoreInv'
  BY <1>1, <1>3, TaskStored, StoredKeeps
<1>4. ASSUME NEW r \in Run, ClientStep(r) PROVE StoreInv'
  BY <1>4, CreateStored, ResumeStored, CancelStored, StoredKeeps DEF ClientStep
<1>5. CASE Restart
  BY <1>5, RestartStored
<1> QED BY <1>2, <1>3, <1>4, <1>5 DEF Next

(***************************************************************************)
(* What the tables say of the runs in memory, in every behaviour.          *)
(***************************************************************************)
THEOREM StoreInvariance == Spec => []StoreInv
BY Invariance, InitStored, NextStored, PTL DEF Spec

(***************************************************************************)
(* A final outcome the history shows of a run the manager knows is that    *)
(* run's outcome, whichever writes to the store failed.                    *)
(***************************************************************************)
THEOREM StoredOutcomesAreTrue == Spec => []StoredOutcomeIsTrue
<1>1. StoreInv => StoredOutcomeIsTrue
  BY DEF StoreInv, StoredOK, StoredOutcomeIsTrue
<1> QED BY <1>1, StoreInvariance, PTL

(***************************************************************************)
(* The row of a conversation shows its run with the highest turn, and that *)
(* run's status, although every event of any of its runs overwrites it.    *)
(***************************************************************************)
THEOREM ConversationsShowLatest == Spec => []ConversationShowsLatest
<1>1. ASSUME StoreInv, NEW c \in Conversation, RowsOf(c) # {}
      PROVE  LET latest == db.conv[c].latest
             IN  /\ latest \in RowsOf(c)
                 /\ db.conv[c].status = db.run[latest].status
                 /\ \A r \in RowsOf(c) \ {latest} : db.run[r].turn < db.run[latest].turn
  <2>1. ConvShown(db, c) /\ \E r \in Run : db.run[r].conv = c
    BY <1>1 DEF StoreInv, Consistent, RowsOf
  <2> QED BY <2>1 DEF ConvShown, RowsOf
<1>2. StoreInv => ConversationShowsLatest
  BY <1>1 DEF ConversationShowsLatest
<1> QED BY <1>2, StoreInvariance, PTL

------------------------------------------------------------------------------
(***************************************************************************)
(* The steps of a run.  Where the graph is tells which steps have been     *)
(* completed and which have not: the rounds of questions go back within    *)
(* the request graph only.                                                 *)
(***************************************************************************)
RequestNode == {"receive_request", "interpret_input", "lookup_jobs", "no_job_match",
                "confirm_job", "build_plan", "filter_candidates", "resolve_requirements"}
DimensionNode == {"generate_dimensions", "validate_dimensions", "dimension_invalid"}
BranchNode == {"prepare_work_items", "capacity_exceeded", "run_assessment_branch", "finalize"}
ReportNode == {"score_dimensions", "aggregate_candidates", "compose_report", "validate_report"}

\* The nodes the graph only comes to once a step is completed.
Behind(s) ==
    CASE s = "understand_request" ->
            {"filter_candidates"} \cup DimensionNode \cup BranchNode \cup ReportNode
      [] s = "filter_candidates" -> DimensionNode \cup BranchNode \cup ReportNode
      [] s = "build_dimensions" -> BranchNode \cup ReportNode
      [] s = "parallel_assessment" -> ReportNode
      [] s = "score_candidates" -> {"compose_report", "validate_report"}
      [] OTHER -> {}

\* The nodes that show progress of a step, and those before them.
Ahead(s) ==
    CASE s = "build_dimensions" -> RequestNode \cup {"generate_dimensions", "validate_dimensions"}
      [] s = "parallel_assessment" -> RequestNode \cup DimensionNode \cup BranchNode
      [] OTHER -> {}

Completes(n) == {CompletionStep[m] : m \in {n} \cap CompletionNodes}

\* The steps of run r the tables show as completed.
DoneSteps(d, r) == {s \in Step : d.step[r][s].state = "completed"}

\* A task reads the run's items, or will again when the client answers.
Working(r) == task[r] = "running" \/ status[r] = "waiting_input"

StepsOK(r) ==
    LET n == graph[r].at[1]
        completed == shown[r].completed
    IN  /\ db.run[r].report => Step \subseteq DoneSteps(db, r)
        /\ status[r] = "absent" => shown[r] = Fresh /\ graph[r] = AtEntry
        /\ Working(r) =>
            /\ HasRow(db, r)
            /\ completed \subseteq shown[r].started
            /\ completed \subseteq DoneSteps(db, r)
            /\ \A s \in Step : n \in Behind(s) => s \in completed
            /\ \A s \in Step : n \in Ahead(s) => s \notin completed
            /\ db.run[r].report => n = End

StepsInv == \A r \in Run : StepsOK(r)

\* An edge leads behind a step only from behind it or by completing it, and
\* stays ahead of a step only from ahead of it without completing it.
LEMMA EdgeSteps ==
    ASSUME NEW e \in Edges, NEW s \in Step
    PROVE  /\ e[3] \in Behind(s) => e[1] \in Behind(s) \/ s \in Completes(e[1])
           /\ e[3] \in Ahead(s) => e[1] \in Ahead(s) /\ s \notin Completes(e[1])
<1>1. Completes(e[1]) = IF e[1] \in CompletionNodes THEN {CompletionStep[e[1]]} ELSE {}
  BY DEF Completes
<1>2. CASE e \in RequestEdges
  BY <1>1, <1>2 DEF RequestEdges, Behind, Ahead, Step, RequestNode, DimensionNode,
     BranchNode, ReportNode, CompletionNodes, CompletionStep, End
<1>3. CASE e \in EvaluationEdges
  BY <1>1, <1>3 DEF EvaluationEdges, Behind, Ahead, Step, RequestNode, DimensionNode,
     BranchNode, ReportNode, CompletionNodes, CompletionStep, End
<1>4. CASE e \in ReportEdges
  BY <1>1, <1>4 DEF ReportEdges, Behind, Ahead, Step, RequestNode, DimensionNode,
     BranchNode, ReportNode, CompletionNodes, CompletionStep, End
<1> QED BY <1>2, <1>3, <1>4 DEF Edges

\* The end of the report graph: validate_report is behind every other step,
\* completes the last one and is the last node.
LEMMA ReportSteps ==
    /\ \A s \in Step : "validate_report" \in Behind(s) \/ s \in Completes("validate_report")
    /\ \A e \in Edges : e[1] = "validate_report" => e[3] = End
<1>1. "compose_report" \in Completes("validate_report")
  BY DEF Completes, CompletionNodes, CompletionStep
<1>2. \A e \in Edges : e[1] = "validate_report" => e[3] = End
  BY DEF Edges, RequestEdges, EvaluationEdges, ReportEdges
<1> QED BY <1>1, <1>2 DEF Behind, Step, ReportNode

\* Nothing is behind or ahead where the graph begins.
LEMMA EntrySteps == \A s \in Step : AtEntry.at[1] \notin Behind(s)
BY DEF AtEntry, Entry, At, Behind, Step, DimensionNode, BranchNode, ReportNode

\* The graph does not complete a step it shows progress of.
LEMMA ProgressSteps ==
    ASSUME NEW n, NEW gs \in GraphStatus, NEW C,
           \A s \in Step : n \in Ahead(s) => s \notin C
    PROVE  ProgressEvents(n, gs) \in Seq({e \in RunEvent : e.type = "step.progress" /\ e.step \notin C})
<1> DEFINE p == StepEvent("step.progress", "parallel_assessment", NoOutcome)
           d == StepEvent("step.progress", "build_dimensions", gs)
           E == {e \in RunEvent : e.type = "step.progress" /\ e.step \notin C}
<1>1. n \in {"prepare_work_items", "run_assessment_branch"} => p \in E
  <2>1. n \in {"prepare_work_items", "run_assessment_branch"} => "parallel_assessment" \notin C
    BY DEF Ahead, BranchNode, Step
  <2> QED BY <2>1, NoOutcomeTyped DEF StepEvent, RunEvent, EventType, Step
<1>2. n = "generate_dimensions" => d \in E
  <2>1. n = "generate_dimensions" => "build_dimensions" \notin C
    BY DEF Ahead, Step
  <2> QED BY <2>1 DEF StepEvent, RunEvent, EventType, Step
<1> HIDE DEF p, d, E
<1>3. <<>> \in Seq(E) /\ (p \in E => <<p>> \in Seq(E)) /\ (d \in E => <<d>> \in Seq(E))
  OBVIOUS
<1> QED BY <1>1, <1>2, <1>3 DEF ProgressEvents, p, d, E

\* An event leaves a completed step completed unless it is of that step and
\* does not complete it.
LEMMA RecordStepsKeeps ==
    ASSUME NEW rows \in [Step -> StepRow], NEW e \in RunEvent, NEW s \in Step
    PROVE  /\ rows[s].state = "completed" /\ (e.step # s \/ e.type = "step.completed")
                => RecordSteps(rows, e)[s].state = "completed"
           /\ e.step = s /\ e.type = "step.completed"
                => RecordSteps(rows, e)[s].state = "completed"
<1>1. CASE e.step # NoStep
  <2>1. e.step \in Step /\ RecordSteps(rows, e) = [rows EXCEPT ![e.step] = RecordStep(rows[e.step], e)]
    BY <1>1 DEF RecordSteps, RunEvent
  <2>2. e.type = "step.completed" => RecordStep(rows[e.step], e).state = "completed"
    BY DEF RecordStep
  <2> QED BY <2>1, <2>2
<1>2. CASE e.step = NoStep
  <2>1. NoStep \notin Step
    BY DEF NoStep, Step
  <2>2. ASSUME NEW state, rows[s].state = "completed"
        PROVE  Settle(rows, state)[s].state = "completed"
    BY <2>2 DEF Settle
  <2>3. RecordSteps(rows, e) \in {Settle(rows, state) : state \in {"paused", "running", "cancelled", "failed"}}
                    \cup {rows}
    BY <1>2 DEF RecordSteps
  <2> QED BY <1>2, <2>1, <2>2, <2>3
<1> QED BY <1>1, <1>2

\* The tables events of run r make of d0 when none of them undoes a step of C
\* or reports.
Kept(d0, r, C) ==
    {d \in Since(d0, r) : C \subseteq DoneSteps(d, r) /\ d.run[r].report = d0.run[r].report}

KeepEvent(C) ==
    {e \in RunEvent : /\ e.type # "report.completed"
                      /\ e.step \notin C \/ e.type = "step.completed"}

\* What one event does to the steps and the report of its run.
LEMMA RecordProgress ==
    ASSUME NEW r \in Run, db \in Consistent, IsLatest(db, r), HasRow(db, r),
           NEW e \in RunEvent, NEW d \in Since(db, r),
           NEW C \in SUBSET Step, C \subseteq DoneSteps(d, r),
           e.step \notin C \/ e.type = "step.completed"
    PROVE  /\ Record(d, r, e) \in Since(db, r)
           /\ C \subseteq DoneSteps(Record(d, r, e), r)
           /\ e.type = "step.completed" /\ e.step \in Step
                => e.step \in DoneSteps(Record(d, r, e), r)
           /\ Record(d, r, e).run[r].report <=> d.run[r].report \/ e.type = "report.completed"
<1> DEFINE x == Record(d, r, e)
           now == RowStatus(e, d.run[r].status)
           c == d.run[r].conv
           row == [d.run[r] EXCEPT !.status = now, !.report = @ \/ e.type = "report.completed"]
           steps == RecordSteps(d.step[r], e)
           crow == [d.conv[c] EXCEPT !.status = now]
<1>1. /\ d \in Tables /\ HasRow(d, r) /\ c \in Conversation /\ db \in Tables
      /\ d.run \in [Run -> RunRow] /\ d.step \in [Run -> [Step -> StepRow]]
  BY DEF Since, Consistent, Tables, RunRow, RunShown
<1>2. x \in Since(db, r)
  BY <1>1, RecordKeeps
<1>3. x = [run |-> [d.run EXCEPT ![r] = row], step |-> [d.step EXCEPT ![r] = steps],
           conv |-> [d.conv EXCEPT ![c] = crow]]
  BY <1>1, RecordWrites, Zenon
<1>4. row.report <=> d.run[r].report \/ e.type = "report.completed"
  BY <1>1 DEF RunRow
<1>5. \A s \in Step : (s \in C \/ (e.type = "step.completed" /\ e.step = s))
                        => steps[s].state = "completed"
  <2>1. d.step[r] \in [Step -> StepRow]
    BY <1>1
  <2>2. \A s \in C : d.step[r][s].state = "completed"
    BY DEF DoneSteps
  <2> QED BY <2>1, <2>2, RecordStepsKeeps
<1> HIDE DEF x, now, c, row, steps, crow
<1>6. x.run[r] = row /\ x.step[r] = steps
  BY <1>1, <1>3
<1> QED BY <1>2, <1>4, <1>5, <1>6 DEF DoneSteps, x

\* All events of a list keep the steps of C and the report.
LEMMA KeptRecorded ==
    ASSUME NEW r \in Run, db \in Consistent, IsLatest(db, r), HasRow(db, r),
           NEW C \in SUBSET Step, C \subseteq DoneSteps(db, r), NEW es \in Seq(KeepEvent(C))
    PROVE  RecordAll(r, es) \in Kept(db, r, C)
<1>1. db \in Kept(db, r, C)
  BY SinceSelf DEF Kept
<1>2. ASSUME NEW d \in Kept(db, r, C), NEW e \in KeepEvent(C)
      PROVE  Record(d, r, e) \in Kept(db, r, C)
  <2>1. d \in Since(db, r) /\ C \subseteq DoneSteps(d, r) /\ d.run[r].report = db.run[r].report
    BY DEF Kept
  <2>2. e \in RunEvent /\ (e.step \notin C \/ e.type = "step.completed") /\ e.type # "report.completed"
    BY DEF KeepEvent
  <2> DEFINE x == Record(d, r, e)
  <2>3. /\ x \in Since(db, r) /\ C \subseteq DoneSteps(x, r)
        /\ x.run[r].report <=> d.run[r].report
    BY <2>1, <2>2, RecordProgress
  <2>4. x.run[r].report \in BOOLEAN /\ d.run[r].report \in BOOLEAN
    BY <2>1, <2>3 DEF Since, Consistent, Tables, RunRow
  <2> HIDE DEF x
  <2>5. x.run[r].report = db.run[r].report
    BY <2>1, <2>3, <2>4
  <2> QED BY <2>3, <2>5 DEF Kept, x
<1> QED BY <1>1, <1>2, RecordAllKeeps

------------------------------------------------------------------------------
\* The handlers, as the steps of their run see them.

\* A run that is working is one its conversation shows, with a row.
LEMMA WorkingRun ==
    ASSUME IInv, StoreInv, NEW r \in Run, StepsOK(r), Working(r)
    PROVE  /\ Known(r) /\ status[r] \notin TERMINAL_STATUSES
           /\ db \in Consistent /\ IsLatest(db, r) /\ HasRow(db, r)
           /\ db.run[r].report \in BOOLEAN
           /\ shown[r] \in Shown /\ graph[r] \in Place
<1>1. Known(r) /\ status[r] \notin TERMINAL_STATUSES
  <2>1. CASE task[r] = "running"
    BY <2>1, TaskRuns DEF TERMINAL_STATUSES
  <2>2. CASE status[r] = "waiting_input"
    BY <2>2 DEF Known, RunStatus, TERMINAL_STATUSES
  <2> QED BY <2>1, <2>2 DEF Working
<1>2. db \in Consistent /\ IsLatest(db, r)
  BY <1>1, ActiveRun
<1>3. db.run[r].report \in BOOLEAN
  BY <1>2 DEF Consistent, Tables, RunRow
<1> QED BY <1>1, <1>2, <1>3, RunTyped DEF StepsOK

\* A run that does not work any more only has to have been right.
LEMMA NotWorkingSteps ==
    ASSUME NEW r \in Run, status'[r] # "absent", status'[r] # "waiting_input",
           task'[r] # "running",
           db'.run[r].report => Step \subseteq DoneSteps(db', r)
    PROVE  StepsOK(r)'
BY Zenon DEF StepsOK, Working

\* Rows kept by events without a report are as right as before.
LEMMA KeptReport ==
    ASSUME NEW r \in Run, StepsOK(r), NEW C \in SUBSET Step,
           db.run[r].report => DoneSteps(db, r) \subseteq C,
           db' \in Kept(db, r, C)
    PROVE  db'.run[r].report => Step \subseteq DoneSteps(db', r)
<1>1. db'.run[r].report = db.run[r].report /\ C \subseteq DoneSteps(db', r)
  BY DEF Kept
<1> QED BY <1>1 DEF StepsOK

\* Events of no step, and no report.
PlainEvent == {e \in RunEvent : e.step = NoStep /\ e.type # "report.completed"}

\* Such are the events that start, pause, resume and end runs.
LEMMA PlainEvents ==
    /\ \A type \in EventType \ {"report.completed"} : Event(type) \in PlainEvent
    /\ \A C \in SUBSET Step : PlainEvent \subseteq KeepEvent(C)
<1>1. \A type \in EventType \ {"report.completed"} : Event(type) \in PlainEvent
  BY EventTyped DEF PlainEvent, Event
<1>2. \A C \in SUBSET Step : PlainEvent \subseteq KeepEvent(C)
  BY DEF PlainEvent, KeepEvent, NoStep, Step
<1> QED BY <1>1, <1>2

\* The except branch.
LEMMA FailureSteps ==
    ASSUME IInv, StoreInv, NEW r \in Run, StepsOK(r), task[r] = "running",
           NEW es, NEW k, FailsAfter(r, es, k),
           NEW C \in SUBSET Step, C \subseteq DoneSteps(db, r),
           db.run[r].report => DoneSteps(db, r) \subseteq C,
           SubSeq(es, 1, k) \in Seq(KeepEvent(C))
    PROVE  StepsOK(r)'
<1> DEFINE front == SubSeq(es, 1, k)
           failed == Event("run.failed")
<1>1. /\ status' = [status EXCEPT ![r] = "failed"] /\ task' = [task EXCEPT ![r] = "done"]
      /\ \/ db' = RecordAll(r, front \o <<failed>>)
         \/ db' = RecordAll(r, front \o <<>>)
  BY Zenon DEF FailsAfter
<1>2. failed \in KeepEvent(C)
  BY PlainEvents DEF EventType, TerminalEvent
<1> HIDE DEF front, failed
<1>3. front \o <<failed>> \in Seq(KeepEvent(C)) /\ front \o <<>> \in Seq(KeepEvent(C))
  BY <1>2 DEF front
<1>4. db' \in Kept(db, r, C)
  BY <1>1, <1>3, WorkingRun, KeptRecorded DEF Working
<1>5. db'.run[r].report => Step \subseteq DoneSteps(db', r)
  BY <1>4, KeptReport
<1>6. status'[r] = "failed" /\ task'[r] = "done"
  BY <1>1 DEF IInv, FieldsTyped
<1> QED BY <1>5, <1>6, NotWorkingSteps

\* record() raised on one of the events, or on the only one.
LEMMA BreaksSteps ==
    ASSUME IInv, StoreInv, NEW r \in Run, StepsOK(r), task[r] = "running",
           NEW es \in Seq(RunEvent), Breaks(r, es),
           \/ Len(es) = 1
           \/ ~db.run[r].report /\ \A i \in 1..(Len(es) - 1) : es[i].type # "report.completed"
    PROVE  StepsOK(r)'
<1>1. PICK k \in 1..Len(es) : FailsAfter(r, es, k - 1)
  BY DEF Breaks
<1>2. CASE Len(es) = 1
  <2>1. k - 1 = 0 /\ SubSeq(es, 1, 0) = <<>>
    BY <1>2
  <2> DEFINE C == DoneSteps(db, r)
  <2>2. C \in SUBSET Step /\ SubSeq(es, 1, k - 1) \in Seq(KeepEvent(C))
    BY <2>1 DEF DoneSteps
  <2> HIDE DEF C
  <2> QED BY <1>1, <2>2, FailureSteps DEF C
<1>3. CASE ~db.run[r].report /\ \A i \in 1..(Len(es) - 1) : es[i].type # "report.completed"
  <2>1. k - 1 \in 0..(Len(es) - 1) /\ k - 1 \in Nat /\ k - 1 <= Len(es)
    BY <1>1
  <2>2. \A i \in 1..(k - 1) : es[i] \in KeepEvent({})
    BY <1>3, <2>1 DEF KeepEvent
  <2>3. SubSeq(es, 1, k - 1) \in Seq(KeepEvent({}))
    BY <2>1, <2>2, SubSeqProperties
  <2>4. {} \in SUBSET Step /\ {} \subseteq DoneSteps(db, r)
    OBVIOUS
  <2> QED BY <1>1, <1>3, <2>3, <2>4, FailureSteps
<1> QED BY <1>2, <1>3

\* One plain event of a run that has a row.
LEMMA PlainSteps ==
    ASSUME IInv, StoreInv, NEW r \in Run, StepsOK(r), Known(r),
           status[r] \notin TERMINAL_STATUSES, HasRow(db, r),
           NEW type \in EventType \ {"report.completed"},
           db' = RecordAll(r, <<Event(type)>>) \/ db' = db
    PROVE  /\ HasRow(db', r) /\ DoneSteps(db, r) \subseteq DoneSteps(db', r)
           /\ db'.run[r].report = db.run[r].report
           /\ db'.run[r].report => Step \subseteq DoneSteps(db', r)
<1> DEFINE C == DoneSteps(db, r)
           e == Event(type)
<1>1. C \in SUBSET Step /\ e \in KeepEvent(C)
  BY PlainEvents DEF DoneSteps
<1>2. db \in Consistent /\ IsLatest(db, r)
  BY ActiveRun
<1>3. db' \in Kept(db, r, C)
  <2>1. CASE db' = RecordAll(r, <<e>>)
    <3> HIDE DEF C, e
    <3>1. <<e>> \in Seq(KeepEvent(C)) /\ C \subseteq DoneSteps(db, r)
      BY <1>1 DEF C
    <3> QED BY <1>1, <1>2, <2>1, <3>1, KeptRecorded
  <2>2. CASE db' = db
    BY <1>2, <2>2, SinceSelf DEF Kept
  <2> QED BY <2>1, <2>2
<1>4. db'.run[r].report => Step \subseteq DoneSteps(db', r)
  BY <1>1, <1>3, KeptReport
<1>5. HasRow(db', r)
  BY <1>3 DEF Kept, Since
<1> QED BY <1>3, <1>4, <1>5 DEF Kept

\* A step of a run that leaves its place among the nodes and its projection.
LEMMA SamePlaceSteps ==
    ASSUME NEW r \in Run, StepsOK(r), Working(r), status'[r] # "absent",
           shown'[r] = shown[r], graph'[r].at[1] = graph[r].at[1],
           HasRow(db', r), DoneSteps(db, r) \subseteq DoneSteps(db', r),
           db'.run[r].report = db.run[r].report,
           db'.run[r].report => Step \subseteq DoneSteps(db', r)
    PROVE  StepsOK(r)'
BY DEF StepsOK

\* The task item of a node.
LEMMA StartNodeSteps ==
    ASSUME IInv, StoreInv, NEW r \in Run, StepsOK(r), StartNode(r)
    PROVE  StepsOK(r)'
<1> DEFINE n == graph[r].at[1]
           es == TaskEvents(r, n)
           e == StepEvent("step.started", StartStep[n], NoOutcome)
           C == shown[r].completed
<1>1. /\ task[r] = "running" /\ n \in StartNodes /\ StartStep[n] \in Step
      /\ n # End
  BY RunTyped, StepTables DEF StartNode, Reads, PlaceOK, StartNodes, End
<1>2. Working(r) /\ ~db.run[r].report /\ C \subseteq shown[r].started /\ C \subseteq DoneSteps(db, r)
  BY <1>1, WorkingRun DEF Working, StepsOK
<1>3. C \in SUBSET Step
  BY <1>2 DEF DoneSteps
<1>4. e \in RunEvent /\ e.type = "step.started" /\ e.step = StartStep[n]
  BY <1>1, StepEventQuiet, NoOutcomeTyped DEF StepEvent, QuietEvent
<1>5. \/ Breaks(r, es)
      \/ /\ db' = RecordAll(r, es)
         /\ shown' = [shown EXCEPT ![r].started = @ \cup {StartStep[n]}]
         /\ graph' = [graph EXCEPT ![r].at = <<n, "update">>]
         /\ UNCHANGED <<status, task>>
  BY Zenon DEF StartNode, Shows
<1>6. es = IF StartStep[n] \in shown[r].started THEN <<>> ELSE <<e>>
  BY DEF TaskEvents
<1> HIDE DEF es, e
<1>7. es \in Seq(RunEvent) /\ es \in Seq(KeepEvent(C)) /\ \A i \in 1..Len(es) : es[i].type # "report.completed"
  <2>1. StartStep[n] \notin shown[r].started => e \in KeepEvent(C)
    BY <1>2, <1>4 DEF KeepEvent
  <2>2. e.type # "report.completed"
    BY <1>4
  <2> HIDE DEF C, n
  <2> QED BY <1>4, <1>6, <2>1, <2>2
<1>8. CASE Breaks(r, es)
  BY <1>1, <1>2, <1>7, <1>8, BreaksSteps
<1>9. ASSUME db' = RecordAll(r, es),
             shown' = [shown EXCEPT ![r].started = @ \cup {StartStep[n]}],
             graph' = [graph EXCEPT ![r].at = <<n, "update">>],
             UNCHANGED <<status, task>>
      PROVE  StepsOK(r)'
  <2>1. db' \in Kept(db, r, C)
    BY <1>2, <1>3, <1>7, <1>9, WorkingRun, KeptRecorded
  <2>2. /\ HasRow(db', r) /\ C \subseteq DoneSteps(db', r) /\ ~db'.run[r].report
    BY <1>2, <2>1, WorkingRun DEF Kept, Since
  <2>3. /\ shown'[r].completed = C /\ shown[r].started \subseteq shown'[r].started
        /\ graph'[r].at[1] = n
    BY <1>9, <1>2, WorkingRun DEF IInv, FieldsTyped, Shown, Place
  <2>4. status'[r] # "absent" /\ (Working(r)' <=> Working(r))
    BY <1>2, <1>9, WorkingRun DEF Working, Known, RunStatus, TERMINAL_STATUSES
  <2>5. /\ \A s \in Step : n \in Behind(s) => s \in C
        /\ \A s \in Step : n \in Ahead(s) => s \notin C
    BY <1>2 DEF StepsOK
  <2> HIDE DEF n, C
  <2> QED BY <1>2, <2>2, <2>3, <2>4, <2>5 DEF StepsOK
<1> QED BY <1>5, <1>8, <1>9

\* The events of an update before its report: none of them is a report, and
\* after them what the update completes is completed.
BeforeReport(r, n, gs, revised) ==
    TitleEvents(n, revised) \o ProgressEvents(n, gs) \o CompletionEvents(r, n, gs)

NoReport == {e \in RunEvent : e.type # "report.completed"}

\* None of these events is a report.
LEMMA BeforeReportTyped ==
    ASSUME NEW r, NEW n, NEW gs \in GraphStatus, NEW revised \in BOOLEAN
    PROVE  BeforeReport(r, n, gs, revised) \in Seq(NoReport)
<1> DEFINE u == Event("conversation.updated")
           v == Event("requirement.revised")
           p == StepEvent("step.progress", "parallel_assessment", NoOutcome)
           d == StepEvent("step.progress", "build_dimensions", gs)
           s == CompletionStep[n]
           b == StepEvent("step.started", s, NoOutcome)
           c == StepEvent("step.completed", s, gs)
<1>1. u \in NoReport /\ v \in NoReport
  BY EventTyped DEF NoReport, EventType
<1>2. p \in NoReport /\ d \in NoReport
  BY NoOutcomeTyped, StepEventQuiet DEF NoReport, QuietEvent, StepEvent, Step
<1>3. n \in CompletionNodes => b \in NoReport /\ c \in NoReport
  BY StepTables, NoOutcomeTyped, StepEventQuiet DEF NoReport, QuietEvent, StepEvent
<1> HIDE DEF u, v, p, d, s, b, c
<1>4. TitleEvents(n, revised) \in Seq(NoReport)
  <2>1. <<>> \in Seq(NoReport) /\ <<u>> \in Seq(NoReport) /\ <<u, v>> \in Seq(NoReport)
    BY <1>1
  <2> QED BY <2>1 DEF TitleEvents, u, v
<1>5. ProgressEvents(n, gs) \in Seq(NoReport)
  <2>1. <<>> \in Seq(NoReport) /\ <<p>> \in Seq(NoReport) /\ <<d>> \in Seq(NoReport)
    BY <1>2
  <2> QED BY <2>1 DEF ProgressEvents, p, d
<1>6. CompletionEvents(r, n, gs) \in Seq(NoReport)
  <2>1. n \in CompletionNodes =>
            <<>> \o <<c>> \in Seq(NoReport) /\ <<b>> \o <<c>> \in Seq(NoReport)
    BY <1>3
  <2>2. NewlyCompleted(r, n) # {} => n \in CompletionNodes
    BY DEF NewlyCompleted
  <2>3. <<>> \in Seq(NoReport)
    OBVIOUS
  <2>4. CompletionEvents(r, n, gs) = <<>> \/ (NewlyCompleted(r, n) # {} /\
            (CompletionEvents(r, n, gs) = <<>> \o <<c>> \/ CompletionEvents(r, n, gs) = <<b>> \o <<c>>))
    BY DEF CompletionEvents, b, c, s
  <2> QED BY <2>1, <2>2, <2>3, <2>4
<1> QED BY <1>4, <1>5, <1>6 DEF BeforeReport

\* The rows after those events.
LEMMA BeforeReportRecorded ==
    ASSUME IInv, StoreInv, NEW r \in Run, StepsOK(r), Working(r),
           NEW gs \in GraphStatus, NEW revised \in BOOLEAN, NEW n, n = graph[r].at[1],
           NEW d, d = RecordAll(r, BeforeReport(r, n, gs, revised))
    PROVE  /\ d \in Since(db, r)
           /\ shown[r].completed \cup Completes(n) \subseteq DoneSteps(d, r)
           /\ d.run[r].report = db.run[r].report
<1> DEFINE C == shown[r].completed
           a == TitleEvents(n, revised)
           p == ProgressEvents(n, gs)
           z == CompletionEvents(r, n, gs)
           s == CompletionStep[n]
           b == StepEvent("step.started", s, NoOutcome)
           c == StepEvent("step.completed", s, gs)
<1>1. /\ C \in SUBSET Step /\ C \subseteq shown[r].started /\ C \subseteq DoneSteps(db, r)
      /\ \A t \in Step : n \in Ahead(t) => t \notin C
  BY DEF StepsOK, DoneSteps
<1>2. /\ db \in Consistent /\ IsLatest(db, r) /\ HasRow(db, r)
  BY WorkingRun
<1>3. NewlyCompleted(r, n) = Completes(n) \ C
  BY DEF NewlyCompleted, Completes
<1>4. d = RecordAll(r, a \o p \o z)
  BY DEF BeforeReport
<1>5. CASE NewlyCompleted(r, n) = {}
  <2>1. z = <<>>
    BY <1>5 DEF CompletionEvents
  <2>2. a \in Seq(KeepEvent(C))
    <3> DEFINE u == Event("conversation.updated")
               v == Event("requirement.revised")
    <3>1. u \in KeepEvent(C) /\ v \in KeepEvent(C)
      BY <1>1, PlainEvents DEF EventType
    <3> HIDE DEF u, v, C
    <3>2. <<>> \in Seq(KeepEvent(C)) /\ <<u>> \in Seq(KeepEvent(C)) /\ <<u, v>> \in Seq(KeepEvent(C))
      BY <3>1
    <3> QED BY <3>2 DEF TitleEvents, u, v
  <2>3. p \in Seq(KeepEvent(C))
    <3>1. {e \in RunEvent : e.type = "step.progress" /\ e.step \notin C} \subseteq KeepEvent(C)
      BY DEF KeepEvent
    <3>2. p \in Seq({e \in RunEvent : e.type = "step.progress" /\ e.step \notin C})
      <4>1. \A t \in Step : n \in Ahead(t) => t \notin C
        BY <1>1
      <4> HIDE DEF C
      <4> QED BY <4>1, ProgressSteps
    <3> HIDE DEF C, p
    <3> QED BY <3>1, <3>2
  <2> HIDE DEF a, p, z, C
  <2>4. a \o p \o z \in Seq(KeepEvent(C))
    BY <2>1, <2>2, <2>3
  <2>5. d \in Kept(db, r, C)
    BY <1>1, <1>2, <1>4, <2>4, KeptRecorded
  <2> QED BY <1>3, <1>5, <2>5 DEF Kept, C
<1>6. CASE NewlyCompleted(r, n) # {}
  <2>1. n \in CompletionNodes /\ Completes(n) = {s} /\ s \notin C /\ s \in Step
    BY <1>3, <1>6, StepTables DEF Completes
  <2>2. a = <<>> /\ p = <<>>
    BY <2>1, TitleEventsQuiet, ProgressEventsQuiet DEF CompletionNodes
  <2>3. /\ b \in RunEvent /\ b.type = "step.started" /\ b.step = s
        /\ c \in RunEvent /\ c.type = "step.completed" /\ c.step = s
    BY <2>1, NoOutcomeTyped, StepEventQuiet DEF QuietEvent, StepEvent
  <2>4. z = <<>> \o <<c>> \/ z = <<b>> \o <<c>>
    BY <1>6 DEF CompletionEvents
  <2> HIDE DEF a, p, z, b, c, s, C
  <2>5. b \in KeepEvent(C) /\ c \in KeepEvent(C)
    BY <2>1, <2>3 DEF KeepEvent
  <2>6. ASSUME NEW front \in Seq(KeepEvent(C)), z = front \o <<c>>
        PROVE  /\ d \in Since(db, r)
               /\ C \cup Completes(n) \subseteq DoneSteps(d, r)
               /\ d.run[r].report = db.run[r].report
    <3> DEFINE y == RecordAll(r, front)
    <3>1. d = Record(y, r, c)
      <4>1. a \o p \o z = front \o <<c>>
        BY <2>2, <2>5, <2>6
      <4> QED BY <1>4, <2>5, <4>1, RecordAllAppend
    <3>2. y \in Kept(db, r, C)
      BY <1>1, <1>2, KeptRecorded DEF C
    <3>3. /\ y \in Since(db, r) /\ C \subseteq DoneSteps(y, r)
          /\ y.run[r].report = db.run[r].report /\ C \in SUBSET Step
      BY <1>1, <3>2 DEF Kept, C
    <3> HIDE DEF y
    <3>4. /\ d \in Since(db, r) /\ C \subseteq DoneSteps(d, r) /\ s \in DoneSteps(d, r)
          /\ d.run[r].report <=> y.run[r].report
      BY <1>2, <2>1, <2>3, <3>1, <3>3, RecordProgress
    <3>5. d.run[r].report \in BOOLEAN /\ y.run[r].report \in BOOLEAN
      BY <3>3, <3>4 DEF Since, Consistent, Tables, RunRow
    <3> QED BY <2>1, <3>3, <3>4, <3>5
  <2>7. <<>> \in Seq(KeepEvent(C)) /\ <<b>> \in Seq(KeepEvent(C))
    BY <2>5
  <2> QED BY <2>4, <2>6, <2>7 DEF C
<1> QED BY <1>5, <1>6

\* Where an update leads, what is behind is completed and what is ahead is not.
LEMMA MoveSteps ==
    ASSUME NEW r \in Run, graph[r] \in Place, NEW e \in Edges, e[1] = graph[r].at[1],
           NEW g \in Moves(r, e[1], e[3]), NEW C \in SUBSET Step,
           \A s \in Step : e[1] \in Behind(s) => s \in C,
           \A s \in Step : e[1] \in Ahead(s) => s \notin C
    PROVE  /\ \A s \in Step : g.at[1] \in Behind(s) => s \in C \cup Completes(e[1])
           /\ \A s \in Step : g.at[1] \in Ahead(s) => s \notin C \cup Completes(e[1])
           /\ e[1] = "validate_report" => g.at[1] = End
<1>1. CASE e[1] = "run_assessment_branch" /\ graph[r].branches > 1
  <2>1. g = [graph[r] EXCEPT !.branches = @ - 1]
    BY <1>1 DEF Moves
  <2>2. g.at = graph[r].at
    BY <2>1 DEF Place
  <2>3. Completes(e[1]) = {}
    BY <1>1 DEF Completes, CompletionNodes
  <2> QED BY <1>1, <2>2, <2>3
<1>2. CASE ~(e[1] = "run_assessment_branch" /\ graph[r].branches > 1)
  <2> DEFINE B == IF e[3] = "run_assessment_branch" THEN 1..MaxBranches ELSE {0}
  <2>1. PICK b \in B : g = [graph[r] EXCEPT !.at = At(e[3]), !.branches = b]
    BY <1>2, Zenon DEF Moves
  <2> HIDE DEF B
  <2>2. g.at = At(e[3]) /\ At(e[3])[1] = e[3]
    BY <2>1 DEF Place, At
  <2> QED BY <2>2, EdgeSteps, ReportSteps
<1> QED BY <1>1, <1>2

\* The update of a node.
LEMMA UpdateNodeSteps ==
    ASSUME IInv, StoreInv, NEW r \in Run, StepsOK(r), UpdateNode(r)
    PROVE  StepsOK(r)'
<1>1. PICK e \in Edges, revised \in BOOLEAN :
        /\ e[1] = graph[r].at[1]
        /\ \/ /\ Shows(r, UpdateEvents(r, e[1], e[2], revised))
              /\ shown' = [shown EXCEPT ![r] = AfterUpdate(r, e[1], e[2])]
              /\ \E g \in Moves(r, e[1], e[3]) : graph' = [graph EXCEPT ![r] = g]
              /\ UNCHANGED <<status, task>>
           \/ Breaks(r, UpdateEvents(r, e[1], e[2], revised))
  BY Zenon DEF UpdateNode
<1> DEFINE n == e[1]
           gs == e[2]
           es == UpdateEvents(r, n, gs, revised)
           front == BeforeReport(r, n, gs, revised)
           report == ReportEvents(r, n)
           C == shown[r].completed
           D == C \cup Completes(n)
<1>2. gs \in GraphStatus /\ n \in Node /\ task[r] = "running" /\ Working(r)
  BY EdgesTyped DEF UpdateNode, Reads, Working
<1>3. ~db.run[r].report
  <2>1. End \notin Node
    BY DEF Node, Edges, RequestEdges, EvaluationEdges, ReportEdges, End
  <2> QED BY <1>1, <1>2, <2>1 DEF StepsOK
<1>4. front \in Seq(NoReport) /\ es = front \o report
  BY <1>2, BeforeReportTyped DEF UpdateEvents, BeforeReport
<1>5. es \in Seq(RunEvent)
  BY <1>2, UpdateEventsQuiet, QuietIsEvent
<1>6. report = <<>> \/ (n = "validate_report" /\ report = <<Event("report.completed")>>)
  BY DEF ReportEvents
<1>7. \A i \in 1..(Len(es) - 1) : es[i].type # "report.completed"
  <2> HIDE DEF front, report, es
  <2>1. report = <<>> \/ Len(report) = 1
    BY <1>6
  <2>2. \A i \in 1..Len(front) : front[i].type # "report.completed"
    BY <1>4 DEF NoReport
  <2>3. Len(es) = Len(front) + Len(report) /\ \A i \in 1..Len(front) : es[i] = front[i]
    <3>1. Event("report.completed") \in RunEvent
      BY EventTyped DEF EventType
    <3>2. front \in Seq(RunEvent)
      BY <1>4 DEF NoReport
    <3>3. report \in Seq(RunEvent)
      <4> DEFINE x == Event("report.completed")
      <4> HIDE DEF x
      <4>1. <<x>> \in Seq(RunEvent) /\ <<>> \in Seq(RunEvent)
        BY <3>1 DEF x
      <4> QED BY <1>6, <4>1 DEF x
    <3> QED BY <1>4, <3>2, <3>3, ConcatProperties
  <2> QED BY <1>4, <2>1, <2>2, <2>3
<1>8. CASE Breaks(r, es)
  BY <1>2, <1>3, <1>5, <1>7, <1>8, BreaksSteps
<1>9. ASSUME Shows(r, es), shown' = [shown EXCEPT ![r] = AfterUpdate(r, n, gs)],
             NEW g \in Moves(r, n, e[3]), graph' = [graph EXCEPT ![r] = g],
             UNCHANGED <<status, task>>
      PROVE  StepsOK(r)'
  <2> DEFINE d == RecordAll(r, front)
  <2>1. /\ d \in Since(db, r) /\ D \subseteq DoneSteps(d, r) /\ d.run[r].report = db.run[r].report
    BY <1>1, <1>2, BeforeReportRecorded
  <2>2. /\ db \in Consistent /\ IsLatest(db, r) /\ HasRow(db, r) /\ graph[r] \in Place
        /\ shown[r] \in Shown /\ Known(r)
    BY <1>2, WorkingRun
  <2>3. /\ \A s \in Step : n \in Behind(s) => s \in C
        /\ \A s \in Step : n \in Ahead(s) => s \notin C
        /\ C \in SUBSET Step /\ C \subseteq shown[r].started
    BY <1>1, <1>2 DEF StepsOK, DoneSteps
  <2>4. /\ \A s \in Step : g.at[1] \in Behind(s) => s \in D
        /\ \A s \in Step : g.at[1] \in Ahead(s) => s \notin D
        /\ n = "validate_report" => g.at[1] = End
    <3> HIDE DEF C
    <3> QED BY <1>1, <1>9, <2>2, <2>3, MoveSteps, Zenon
  <2>5. /\ HasRow(db', r) /\ D \subseteq DoneSteps(db', r)
        /\ db'.run[r].report => n = "validate_report"
    <3>1. db' = RecordAll(r, front \o report)
      BY <1>4, <1>9 DEF Shows
    <3>2. HasRow(d, r)
      BY <2>1, <2>2 DEF Since
    <3> HIDE DEF front, report, d, D
    <3>3. CASE report = <<>>
      <4>1. db' = d
        BY <1>4, <3>1, <3>3, ConcatEmptySeq DEF d
      <4> QED BY <1>3, <2>1, <3>2, <4>1
    <3>4. CASE n = "validate_report" /\ report = <<Event("report.completed")>>
      <4> DEFINE x == Event("report.completed")
      <4>1. x \in RunEvent /\ x.step = NoStep /\ NoStep \notin Step
        BY EventTyped DEF EventType, Event, NoStep, Step
      <4> HIDE DEF x
      <4>2. front \in Seq(RunEvent)
        BY <1>4 DEF NoReport
      <4>3. db' = Record(d, r, x)
        BY <3>1, <3>4, <4>1, <4>2, RecordAllAppend DEF d, x
      <4>4. D \in SUBSET Step
        BY <2>1 DEF DoneSteps
      <4>5. db' \in Since(db, r) /\ D \subseteq DoneSteps(db', r)
        BY <2>1, <2>2, <4>1, <4>3, <4>4, RecordProgress
      <4> QED BY <2>2, <3>4, <4>5 DEF Since
    <3> QED BY <1>6, <3>3, <3>4
  <2>6. n = "validate_report" => Step \subseteq D
    BY <2>3, ReportSteps
  <2>7. /\ shown'[r].completed = D /\ D \subseteq shown'[r].started
        /\ graph'[r] = g /\ status'[r] = status[r]
    <3>1. NewlyCompleted(r, n) = Completes(n) \ C
      BY DEF NewlyCompleted, Completes
    <3>2. shown'[r] = AfterUpdate(r, n, gs) /\ graph'[r] = g
      BY <1>9 DEF IInv, FieldsTyped
    <3> QED BY <1>9, <2>3, <3>1, <3>2 DEF AfterUpdate
  <2>8. status'[r] # "absent"
    BY <2>2, <2>7 DEF Known, RunStatus, TERMINAL_STATUSES
  <2> HIDE DEF n, D, C
  <2> QED BY <2>4, <2>5, <2>6, <2>7, <2>8 DEF StepsOK
<1> HIDE DEF es
<1> QED BY <1>1, <1>8, <1>9, Zenon DEF es

\* The other items of the stream.
LEMMA AskSteps ==
    ASSUME IInv, StoreInv, NEW r \in Run, StepsOK(r), Ask(r)
    PROVE  StepsOK(r)'
<1> DEFINE e == Event("hitl.required")
<1>1. /\ task[r] = "running" /\ UNCHANGED <<shown, graph>>
      /\ \/ Shows(r, <<e>>) /\ status' = [status EXCEPT ![r] = "waiting_input"]
         \/ Breaks(r, <<e>>)
  BY Zenon DEF Ask, Reads
<1>2. e \in RunEvent /\ "hitl.required" \in EventType \ {"report.completed"}
  BY EventTyped DEF EventType
<1>3. Working(r) /\ Known(r) /\ status[r] \notin TERMINAL_STATUSES /\ HasRow(db, r)
  BY <1>1, WorkingRun DEF Working
<1>4. CASE Breaks(r, <<e>>)
  <2> HIDE DEF e
  <2>1. <<e>> \in Seq(RunEvent) /\ Len(<<e>>) = 1
    BY <1>2
  <2> QED BY <1>1, <1>4, <2>1, BreaksSteps
<1>5. CASE Shows(r, <<e>>) /\ status' = [status EXCEPT ![r] = "waiting_input"]
  <2>1. db' = RecordAll(r, <<e>>)
    BY <1>5 DEF Shows
  <2>2. /\ HasRow(db', r) /\ DoneSteps(db, r) \subseteq DoneSteps(db', r)
        /\ db'.run[r].report = db.run[r].report
        /\ db'.run[r].report => Step \subseteq DoneSteps(db', r)
    BY <1>2, <1>3, <2>1, PlainSteps
  <2>3. status'[r] # "absent"
    BY <1>5 DEF IInv, FieldsTyped
  <2> QED BY <1>1, <1>3, <2>2, <2>3, SamePlaceSteps
<1> QED BY <1>1, <1>4, <1>5

\* The end of the stream ends the run.
LEMMA StreamEndsSteps ==
    ASSUME IInv, StoreInv, NEW r \in Run, StepsOK(r), StreamEnds(r)
    PROVE  StepsOK(r)'
<1> DEFINE final == IF shown[r].graphStatus \in FAILED_GRAPH_STATUSES
                    THEN "failed" ELSE "completed"
           type == IF final = "failed" THEN "run.failed" ELSE "run.completed"
           e == Event(type)
<1>1. /\ task[r] = "running"
      /\ \/ /\ Shows(r, <<e>>) /\ status' = [status EXCEPT ![r] = final]
            /\ task' = [task EXCEPT ![r] = "done"]
         \/ Breaks(r, <<e>>)
  BY Zenon DEF StreamEnds
<1>2. final \in {"failed", "completed"} /\ type \in EventType \ {"report.completed"}
  BY DEF EventType, TerminalEvent
<1> HIDE DEF final, type
<1>3. e \in RunEvent
  BY <1>2, EventTyped
<1>4. Working(r) /\ Known(r) /\ status[r] \notin TERMINAL_STATUSES /\ HasRow(db, r)
  BY <1>1, WorkingRun DEF Working
<1>5. CASE Breaks(r, <<e>>)
  <2> HIDE DEF e
  <2>1. <<e>> \in Seq(RunEvent) /\ Len(<<e>>) = 1
    BY <1>3
  <2> QED BY <1>1, <1>5, <2>1, BreaksSteps
<1>6. ASSUME Shows(r, <<e>>), status' = [status EXCEPT ![r] = final],
             task' = [task EXCEPT ![r] = "done"]
      PROVE  StepsOK(r)'
  <2>1. db' = RecordAll(r, <<e>>)
    BY <1>6 DEF Shows
  <2>2. db'.run[r].report => Step \subseteq DoneSteps(db', r)
    BY <1>2, <1>4, <2>1, PlainSteps
  <2>3. status'[r] = final /\ task'[r] = "done"
    BY <1>6 DEF IInv, FieldsTyped
  <2> QED BY <1>2, <2>2, <2>3, NotWorkingSteps
<1> HIDE DEF e
<1> QED BY <1>1, <1>5, <1>6

\* A node that raises shows nothing of its item.
LEMMA GraphRaisesSteps ==
    ASSUME IInv, StoreInv, NEW r \in Run, StepsOK(r), GraphRaises(r)
    PROVE  StepsOK(r)'
<1> DEFINE C == DoneSteps(db, r)
<1>1. task[r] = "running" /\ FailsAfter(r, <<>>, 0)
  BY DEF GraphRaises
<1>2. C \in SUBSET Step /\ SubSeq(<<>>, 1, 0) \in Seq(KeepEvent(C))
  BY DEF DoneSteps
<1> HIDE DEF C
<1> QED BY <1>1, <1>2, FailureSteps DEF C

\* A cancelled task ends without a write.
LEMMA UnwindSteps ==
    ASSUME IInv, StoreInv, NEW r \in Run, StepsOK(r), Unwind(r)
    PROVE  StepsOK(r)'
<1>1. UNCHANGED <<status, shown, graph, db>> /\ task'[r] # "running"
  BY DEF Unwind, IInv, FieldsTyped
<1> QED BY <1>1 DEF StepsOK, Working

\* What the client asks.
LEMMA ResumeSteps ==
    ASSUME IInv, StoreInv, NEW r \in Run, StepsOK(r), ResumeRun(r)
    PROVE  StepsOK(r)'
<1> DEFINE e == Event("hitl.resolved")
           revises == pending[r] = "resolve_requirements"
<1>1. /\ status[r] = "waiting_input" /\ status' = [status EXCEPT ![r] = "running"]
      /\ UNCHANGED shown
      /\ \/ /\ Shows(r, <<e>>)
            /\ graph' = [graph EXCEPT
                            ![r].at = <<graph[r].at[1], "update">>,
                            ![r].revisions = @ + IF revises THEN 1 ELSE 0]
         \/ UNCHANGED <<db, graph>>
  BY Zenon DEF ResumeRun, Answerable
<1>2. "hitl.resolved" \in EventType \ {"report.completed"}
  BY DEF EventType
<1>3. Working(r) /\ Known(r) /\ status[r] \notin TERMINAL_STATUSES /\ HasRow(db, r)
      /\ graph[r] \in Place
  BY <1>1, WorkingRun DEF Working
<1>4. db' = RecordAll(r, <<e>>) \/ db' = db
  BY <1>1 DEF Shows
<1>5. /\ HasRow(db', r) /\ DoneSteps(db, r) \subseteq DoneSteps(db', r)
      /\ db'.run[r].report = db.run[r].report
      /\ db'.run[r].report => Step \subseteq DoneSteps(db', r)
  BY <1>2, <1>3, <1>4, PlainSteps
<1>6. status'[r] # "absent" /\ graph'[r].at[1] = graph[r].at[1]
  <2> HIDE DEF e, revises
  <2>1. status'[r] # "absent"
    BY <1>1 DEF IInv, FieldsTyped
  <2>2. CASE UNCHANGED <<db, graph>>
    BY <2>1, <2>2
  <2>3. CASE graph' = [graph EXCEPT ![r].at = <<graph[r].at[1], "update">>,
                                    ![r].revisions = @ + IF revises THEN 1 ELSE 0]
    BY <1>3, <2>1, <2>3 DEF IInv, FieldsTyped, Place
  <2> QED BY <1>1, <2>2, <2>3
<1> QED BY <1>1, <1>3, <1>5, <1>6, SamePlaceSteps

\* A cancelled run does not work any more.
LEMMA CancelSteps ==
    ASSUME IInv, StoreInv, NEW r \in Run, StepsOK(r), CancelRun(r)
    PROVE  StepsOK(r)'
<1>1. /\ status[r] \in RunStatus \ TERMINAL_STATUSES /\ HasRow(db, r)
      /\ status' = [status EXCEPT ![r] = "cancelled"]
      /\ task' = [task EXCEPT ![r] = IF @ = "running" THEN "unwinding" ELSE @]
      /\ db' = RecordAll(r, <<Event("run.cancelled")>>) \/ db' = db
  BY Zenon DEF CancelRun, Cancellable, Addressable, HasRow, Shows
<1>2. "run.cancelled" \in EventType \ {"report.completed"} /\ Known(r)
  BY <1>1 DEF EventType, TerminalEvent, Known
<1>3. db'.run[r].report => Step \subseteq DoneSteps(db', r)
  BY <1>1, <1>2, PlainSteps
<1>4. status'[r] = "cancelled" /\ task'[r] # "running"
  BY <1>1 DEF IInv, FieldsTyped
<1> QED BY <1>3, <1>4, NotWorkingSteps

\* A new run starts where nothing is completed.
LEMMA CreateSteps ==
    ASSUME IInv, StoreInv, NEW r \in Run, NEW c \in Conversation, CreateRun(r, c),
           NEW q \in Run, StepsOK(q)
    PROVE  StepsOK(q)'
<1>1. /\ status[r] = "absent" /\ status' = [status EXCEPT ![r] = "running"]
      /\ UNCHANGED <<shown, graph>>
      /\ \/ db' = RecordStarted(r, c) /\ task' = [task EXCEPT ![r] = "running"]
         \/ UNCHANGED <<db, task>>
  BY Zenon DEF CreateRun
<1>2. ~HasRow(db, r) /\ db \in Consistent
  BY <1>1 DEF StoreInv, StoredOK
<1>3. db.run \in [Run -> RunRow] /\ task[r] = "none"
  <2>1. ~Known(r)
    BY <1>1 DEF Known, RunStatus, TERMINAL_STATUSES
  <2> QED BY <1>2, <2>1 DEF Consistent, Tables, IInv, RunsOK
<1>4. status'[r] = "running"
  BY <1>1 DEF IInv, FieldsTyped
<1>5. CASE q = r
  <2>1. CASE UNCHANGED <<db, task>>
    <3>1. task'[r] # "running"
      BY <1>3, <2>1
    <3> QED BY <1>4, <1>5, <2>1, <3>1 DEF StepsOK, Working, DoneSteps
  <2>2. CASE db' = RecordStarted(r, c) /\ task' = [task EXCEPT ![r] = "running"]
    <3>1. HasRow(db', r)
      BY <1>2, <2>2, StartedKeeps
    <3>2. ~db'.run[r].report
      <4> DEFINE row == [status |-> "running", conv |-> c, turn |-> next_turn_no(c), report |-> FALSE]
      <4>1. db'.run = [db.run EXCEPT ![r] = row]
        BY <2>2 DEF RecordStarted
      <4>2. db'.run[r] = row
        BY <1>3, <4>1
      <4> QED BY <4>2
    <3>3. shown'[r] = Fresh /\ graph'[r] = AtEntry
      BY <1>1, <1>5 DEF StepsOK
    <3>4. shown'[r].completed = {}
      BY <3>3 DEF Fresh
    <3> QED BY <1>4, <1>5, <3>1, <3>2, <3>3, <3>4, EntrySteps DEF StepsOK
  <2> QED BY <1>1, <2>1, <2>2
<1>6. CASE q # r
  <2>1. /\ status'[q] = status[q] /\ task'[q] = task[q]
        /\ shown'[q] = shown[q] /\ graph'[q] = graph[q]
    BY <1>1, <1>6 DEF IInv, FieldsTyped
  <2>2. db'.run[q] = db.run[q] /\ db'.step[q] = db.step[q]
    <3>1. CASE UNCHANGED <<db, task>>
      BY <3>1
    <3>2. CASE db' = RecordStarted(r, c)
      BY <1>2, <1>3, <1>6, <3>2, StartedKeeps DEF RecordStarted
    <3> QED BY <1>1, <3>1, <3>2
  <2> QED BY <2>1, <2>2 DEF StepsOK, Working, HasRow, DoneSteps
<1> QED BY <1>5, <1>6

\* A handler of one run leaves the others as they are.
LEMMA OtherSteps ==
    ASSUME IInv, StoreInv, NEW r \in Run, Handled(r),
           db' \in Since(db, r) \/ db' = db,
           NEW q \in Run, q # r, StepsOK(q)
    PROVE  StepsOK(q)'
<1>1. PICK v \in RunStatus, l \in Seq(RunEvent), p \in InterruptNode \cup {NoInterrupt},
           s \in Shown, t \in TaskState, g \in Place : Writes(r, v, l, p, s, t, g)
  BY Zenon DEF Handled
<1>2. /\ status'[q] = status[q] /\ task'[q] = task[q]
      /\ shown'[q] = shown[q] /\ graph'[q] = graph[q]
  BY <1>1 DEF Writes, IInv, FieldsTyped
<1>3. db'.run[q] = db.run[q] /\ db'.step[q] = db.step[q]
  BY DEF Since
<1> QED BY <1>2, <1>3 DEF StepsOK, Working, HasRow, DoneSteps

\* Every step keeps the steps of every run right.
LEMMA NextSteps == IInv /\ StoreInv /\ StepsInv /\ [Next]_vars => StepsInv'
<1> SUFFICES ASSUME IInv, StoreInv, StepsInv, [Next]_vars, NEW q \in Run
             PROVE  StepsOK(q)'
  BY DEF StepsInv
<1>1. StepsOK(q)
  BY DEF StepsInv
<1>2. CASE UNCHANGED vars
  <2>1. UNCHANGED <<status, task, shown, graph, db>>
    BY <1>2 DEF vars, memory
  <2> QED BY <1>1, <2>1 DEF StepsOK, Working, HasRow, DoneSteps
<1>3. ASSUME NEW r \in Run, TaskStep(r) PROVE StepsOK(q)'
  <2>1. CASE q = r
    BY <1>1, <1>3, <2>1, StartNodeSteps, UpdateNodeSteps, AskSteps, StreamEndsSteps,
       GraphRaisesSteps, UnwindSteps DEF TaskStep
  <2>2. CASE q # r
    <3>1. Handled(r)
      BY <1>3, StartNodeHandled, UpdateNodeHandled, AskHandled, StreamEndsHandled,
         GraphRaisesHandled, UnwindHandled DEF TaskStep
    <3>2. db' \in Since(db, r) \/ db' = db
      BY <1>3, TaskStored DEF Stored
    <3> QED BY <1>1, <2>2, <3>1, <3>2, OtherSteps
  <2> QED BY <2>1, <2>2
<1>4. ASSUME NEW r \in Run, ResumeRun(r) \/ CancelRun(r) PROVE StepsOK(q)'
  <2>1. CASE q = r
    BY <1>1, <1>4, <2>1, ResumeSteps, CancelSteps
  <2>2. CASE q # r
    <3>1. Handled(r)
      BY <1>4, ResumeRunHandled, CancelRunHandled
    <3>2. db' \in Since(db, r)
      BY <1>4, ResumeStored, CancelStored DEF Stored
    <3> QED BY <1>1, <2>2, <3>1, <3>2, OtherSteps
  <2> QED BY <2>1, <2>2
<1>5. ASSUME NEW r \in Run, NEW c \in Conversation, CreateRun(r, c) PROVE StepsOK(q)'
  BY <1>1, <1>5, CreateSteps
<1>6. CASE Restart
  <2>1. /\ db' = db /\ shown'[q] = Fresh /\ graph'[q] = AtEntry /\ task'[q] # "running"
        /\ status'[q] # "waiting_input"
    BY <1>6 DEF Restart, Known, RunStatus, IInv, FieldsTyped
  <2> QED BY <1>1, <2>1 DEF StepsOK, Working, DoneSteps
<1> QED BY <1>2, <1>3, <1>4, <1>5, <1>6 DEF Next, ClientStep

(***************************************************************************)
(* Where the graph of a run is tells which of its steps the tables show as *)
(* completed, and a stored report that all of them are.                    *)
(***************************************************************************)
THEOREM StepsInvariance == Spec => []StepsInv
<1>1. Init => StepsInv
  <2> SUFFICES ASSUME Init, NEW r \in Run PROVE StepsOK(r)
    BY DEF StepsInv
  <2>1. /\ db.run = [q \in Run |-> NoRunRow] /\ task[r] = "none" /\ status[r] = "absent"
        /\ shown[r] = Fresh /\ graph[r] = AtEntry
    BY DEF Init
  <2>2. ~db.run[r].report
    BY <2>1 DEF NoRunRow
  <2> QED BY <2>1, <2>2 DEF StepsOK, Working
<1> QED BY <1>1, NextSteps, Invariance, StoreInvariance, PTL DEF Spec

(***************************************************************************)
(* A run that ended with a report shows every step completed, whatever     *)
(* rounds of questions and failing writes it went through.                 *)
(***************************************************************************)
THEOREM ReportedRunsAreWhole == Spec => []ReportedRunIsWhole
<1>1. StepsInv => ReportedRunIsWhole
  BY DEF StepsInv, StepsOK, DoneSteps, ReportedRunIsWhole
<1> QED BY <1>1, StepsInvariance, PTL
=============================================================================
