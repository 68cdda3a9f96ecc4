---------------------------- MODULE RunPage_proofs ----------------------------
(***************************************************************************)
(* Proofs about RunPage, for every set of runs and conversations and every *)
(* bound: what the page and the history store make of the same events.     *)
(***************************************************************************)
EXTENDS TalentRun_proofs, RunPage

------------------------------------------------------------------------------
\* Applying a list of events.

\* The views after the first events of es, one after the other.
Views(f, view, r, es, m) ==
    f = [n \in 0..m |-> IF n = 0 THEN view ELSE ReduceRunEvent(f[n - 1], r, es[n])]

\* There always are such views.
LEMMA ViewsExist ==
    ASSUME NEW view, NEW r, NEW es, NEW m \in Nat PROVE \E f : Views(f, view, r, es, m)
<1> DEFINE S == {n \in Nat : \E f : Views(f, view, r, es, n)}
<1>1. 0 \in S
  <2> DEFINE f == [n \in 0..0 |-> view]
  <2>1. f = [n \in 0..0 |-> IF n = 0 THEN view ELSE ReduceRunEvent(f[n - 1], r, es[n])]
    OBVIOUS
  <2> QED BY <2>1, Zenon DEF Views
<1>2. ASSUME NEW n \in Nat, n \in S PROVE n + 1 \in S
  <2>1. PICK f : Views(f, view, r, es, n)
    BY <1>2
  <2> DEFINE g == [i \in 0..(n + 1) |->
                     IF i = n + 1 THEN ReduceRunEvent(f[n], r, es[n + 1]) ELSE f[i]]
  <2>2. \A i \in 0..n : f[i] = IF i = 0 THEN view ELSE ReduceRunEvent(f[i - 1], r, es[i])
    BY <2>1 DEF Views
  <2>3. \A i \in 0..(n + 1) :
            g[i] = IF i = 0 THEN view ELSE ReduceRunEvent(g[i - 1], r, es[i])
    <3> SUFFICES ASSUME NEW i \in 0..(n + 1)
                 PROVE  g[i] = IF i = 0 THEN view ELSE ReduceRunEvent(g[i - 1], r, es[i])
      OBVIOUS
    <3>1. CASE i = n + 1
      <4>1. i # 0 /\ i - 1 = n /\ n \in 0..(n + 1) /\ n # n + 1
        BY <3>1
      <4> QED BY <3>1, <4>1
    <3>2. CASE i # n + 1
      <4>1. i \in 0..n /\ g[i] = f[i]
        BY <3>2
      <4>2. i # 0 => i - 1 \in 0..n /\ i - 1 # n + 1 /\ i - 1 \in 0..(n + 1)
        BY <4>1
      <4>3. i # 0 => g[i - 1] = f[i - 1]
        BY <4>2
      <4> QED BY <2>2, <4>1, <4>3
    <3> QED BY <3>1, <3>2, Zenon
  <2>4. g = [i \in 0..(n + 1) |-> g[i]]
    OBVIOUS
  <2> HIDE DEF g
  <2>5. Views(g, view, r, es, n + 1)
    BY <2>3, <2>4 DEF Views
  <2> QED BY <2>5
<1> QED
  <2> HIDE DEF S
  <2>1. Nat \subseteq S
    BY <1>1, <1>2, SetInduction
  <2> QED BY <2>1 DEF S

\* ViewAfter is the last of them.
LEMMA ViewAfterViews ==
    ASSUME NEW view, NEW r, NEW es, Len(es) \in Nat
    PROVE  \E f : Views(f, view, r, es, Len(es)) /\ ViewAfter(view, r, es) = f[Len(es)]
<1> DEFINE m == Len(es)
           P(f) == f = [n \in 0..m |-> IF n = 0 THEN view
                                       ELSE ReduceRunEvent(f[n - 1], r, es[n])]
           g == CHOOSE f : P(f)
<1>1. \E f : P(f)
  <2>1. \E f : Views(f, view, r, es, Len(es))
    BY ViewsExist
  <2> QED BY <2>1, Zenon DEF Views
<1>2. P(g)
  BY <1>1, Zenon
<1>3. ViewAfter(view, r, es) = g[m]
  BY Zenon DEF ViewAfter
<1> QED BY <1>2, <1>3, Zenon DEF Views

\* One more event is applied after the others.
LEMMA ViewAfterAppend ==
    ASSUME NEW view, NEW r, NEW E, NEW es \in Seq(E), NEW e \in E
    PROVE  ViewAfter(view, r, es \o <<e>>) = ReduceRunEvent(ViewAfter(view, r, es), r, e)
<1> DEFINE m == Len(es)
           fs == es \o <<e>>
<1>1. m \in Nat /\ Len(fs) = m + 1 /\ fs[m + 1] = e /\ \A n \in 1..m : fs[n] = es[n]
  OBVIOUS
<1>2. PICK f : Views(f, view, r, es, m) /\ ViewAfter(view, r, es) = f[m]
  BY <1>1, ViewAfterViews
<1>3. PICK g : Views(g, view, r, fs, m + 1) /\ ViewAfter(view, r, fs) = g[m + 1]
  <2> HIDE DEF fs, m
  <2>1. Len(fs) \in Nat
    BY <1>1
  <2> QED BY <1>1, <2>1, ViewAfterViews
<1> HIDE DEF m, fs
<1>4. \A n \in 0..m : f[n] = IF n = 0 THEN view ELSE ReduceRunEvent(f[n - 1], r, es[n])
  BY <1>2 DEF Views
<1>5. \A n \in 0..(m + 1) :
        g[n] = IF n = 0 THEN view ELSE ReduceRunEvent(g[n - 1], r, fs[n])
  BY <1>3 DEF Views
<1> DEFINE S == {n \in Nat : n <= m => f[n] = g[n]}
<1>6. 0 \in S
  BY <1>1, <1>4, <1>5
<1>7. ASSUME NEW n \in Nat, n \in S PROVE n + 1 \in S
  <2>1. SUFFICES ASSUME n + 1 <= m PROVE f[n + 1] = g[n + 1]
    OBVIOUS
  <2>2. /\ n <= m /\ n + 1 \in 1..m /\ n + 1 \in 0..m /\ n + 1 \in 0..(m + 1)
        /\ n + 1 # 0 /\ n + 1 - 1 = n
    BY <1>1, <2>1
  <2>3. /\ f[n + 1] = ReduceRunEvent(f[n], r, es[n + 1])
        /\ g[n + 1] = ReduceRunEvent(g[n], r, fs[n + 1])
    BY <1>4, <1>5, <2>2
  <2> QED BY <1>1, <1>7, <2>2, <2>3
<1>8. Nat \subseteq S
  <2> HIDE DEF S
  <2> QED BY <1>6, <1>7, SetInduction
<1>9. f[m] = g[m]
  BY <1>1, <1>8
<1>10. g[m + 1] = ReduceRunEvent(g[m], r, e)
  <2>1. m + 1 \in 0..(m + 1) /\ m + 1 # 0 /\ m + 1 - 1 = m
    BY <1>1
  <2> QED BY <1>1, <1>5, <2>1
<1> QED BY <1>2, <1>3, <1>9, <1>10 DEF fs

\* Without an event the view stays.
LEMMA ViewAfterNone ==
    ASSUME NEW view, NEW r
    PROVE  ViewAfter(view, r, <<>>) = view
<1> DEFINE es == <<>>
<1>1. Len(es) = 0
  OBVIOUS
<1> HIDE DEF es
<1>2. PICK f : Views(f, view, r, es, 0) /\ ViewAfter(view, r, es) = f[0]
  BY <1>1, ViewAfterViews
<1>3. f[0] = view
  BY <1>2 DEF Views
<1> QED BY <1>2, <1>3 DEF es

\* One event.
LEMMA ViewAfterOne ==
    ASSUME NEW view, NEW r, NEW e
    PROVE  ViewAfter(view, r, <<e>>) = ReduceRunEvent(view, r, e)
<1> DEFINE none == <<>>
<1>1. none \in Seq({e}) /\ e \in {e} /\ none \o <<e>> = <<e>>
  OBVIOUS
<1>2. ViewAfter(view, r, none) = view
  BY ViewAfterNone
<1> HIDE DEF none
<1>3. ViewAfter(view, r, none \o <<e>>) = ReduceRunEvent(ViewAfter(view, r, none), r, e)
  BY <1>1, ViewAfterAppend
<1> QED BY <1>1, <1>2, <1>3

\* A prefix, and the next element after it.
LEMMA NextPrefix ==
    ASSUME NEW E, NEW es \in Seq(E), NEW n \in Nat, n + 1 <= Len(es)
    PROVE  /\ SubSeq(es, 1, n) \in Seq(E) /\ es[n + 1] \in E
           /\ SubSeq(es, 1, n + 1) = SubSeq(es, 1, n) \o <<es[n + 1]>>
<1> DEFINE a == SubSeq(es, 1, n)
           b == SubSeq(es, 1, n + 1)
           e == es[n + 1]
<1>1. n \in 0..Len(es) /\ n + 1 \in 0..Len(es) /\ e \in E
  OBVIOUS
<1>2. \A i \in 1..(n + 1) : es[i] \in E
  OBVIOUS
<1>3. a \in Seq(E) /\ Len(a) = n /\ \A i \in 1..n : a[i] = es[i]
  BY <1>1, <1>2, SubSeqProperties
<1>4. b \in Seq(E) /\ Len(b) = n + 1 /\ \A i \in 1..(n + 1) : b[i] = es[i]
  BY <1>1, <1>2, SubSeqProperties
<1> HIDE DEF a, b, e
<1>5. b = a \o <<e>>
  <2>1. a \o <<e>> \in Seq(E) /\ Len(a \o <<e>>) = n + 1
    BY <1>1, <1>3
  <2>2. ASSUME NEW i \in 1..(n + 1) PROVE (a \o <<e>>)[i] = b[i]
    BY <1>1, <1>3, <1>4 DEF e
  <2> QED BY <1>4, <2>1, <2>2, SeqEqual
<1> QED BY <1>1, <1>3, <1>5 DEF a, b, e

\* Whatever applying each event of es keeps holds after all of them.
LEMMA ViewAfterKeeps ==
    ASSUME NEW view, NEW r, NEW E, NEW l \in Seq(E), NEW es \in Seq(E), NEW D,
           ViewAfter(view, r, l) \in D,
           \A v \in D : \A i \in 1..Len(es) : ReduceRunEvent(v, r, es[i]) \in D
    PROVE  ViewAfter(view, r, l \o es) \in D
<1> DEFINE S == {n \in Nat : n <= Len(es) =>
                    ViewAfter(view, r, l \o SubSeq(es, 1, n)) \in D}
<1>1. 0 \in S
  <2>1. SubSeq(es, 1, 0) = <<>> /\ l \o <<>> = l
    OBVIOUS
  <2> QED BY <2>1
<1>2. ASSUME NEW n \in Nat, n \in S PROVE n + 1 \in S
  <2>1. SUFFICES ASSUME n + 1 <= Len(es)
                 PROVE  ViewAfter(view, r, l \o SubSeq(es, 1, n + 1)) \in D
    OBVIOUS
  <2> DEFINE a == SubSeq(es, 1, n)
             e == es[n + 1]
             b == l \o a
  <2>2. a \in Seq(E) /\ e \in E /\ SubSeq(es, 1, n + 1) = a \o <<e>>
    BY <2>1, NextPrefix
  <2>3. ViewAfter(view, r, b) \in D
    BY <1>2, <2>1
  <2>4. n + 1 \in 1..Len(es)
    BY <2>1
  <2> HIDE DEF a
  <2>5. b \in Seq(E) /\ l \o (a \o <<e>>) = b \o <<e>>
    BY <2>2
  <2> HIDE DEF b
  <2>6. ViewAfter(view, r, b \o <<e>>) = ReduceRunEvent(ViewAfter(view, r, b), r, e)
    BY <2>2, <2>5, ViewAfterAppend
  <2> QED BY <2>2, <2>3, <2>4, <2>5, <2>6
<1>3. Nat \subseteq S
  <2> HIDE DEF S
  <2> QED BY <1>1, <1>2, SetInduction
<1>4. ViewAfter(view, r, l \o SubSeq(es, 1, Len(es))) \in D
  <2>1. Len(es) \in Nat /\ Len(es) <= Len(es)
    OBVIOUS
  <2> QED BY <1>3, <2>1
<1>5. SubSeq(es, 1, Len(es)) = es
  OBVIOUS
<1> HIDE DEF S
<1> QED BY <1>4, <1>5

\* The same of the tables and the view together.
LEMMA BothKeep ==
    ASSUME NEW view, NEW r, NEW E, NEW l \in Seq(E), NEW es \in Seq(E), NEW P,
           <<db, ViewAfter(view, r, l)>> \in P,
           \A d, v : <<d, v>> \in P => \A i \in 1..Len(es) :
                <<Record(d, r, es[i]), ReduceRunEvent(v, r, es[i])>> \in P
    PROVE  <<RecordAll(r, es), ViewAfter(view, r, l \o es)>> \in P
<1> DEFINE Pair(n) == <<RecordAll(r, SubSeq(es, 1, n)), ViewAfter(view, r, l \o SubSeq(es, 1, n))>>
           S == {n \in Nat : n <= Len(es) => Pair(n) \in P}
<1>1. 0 \in S
  <2>1. SubSeq(es, 1, 0) = <<>> /\ l \o <<>> = l /\ RecordAll(r, <<>>) = db
    BY RecordAllFew
  <2> QED BY <2>1
<1>2. ASSUME NEW n \in Nat, n \in S PROVE n + 1 \in S
  <2>1. SUFFICES ASSUME n + 1 <= Len(es) PROVE Pair(n + 1) \in P
    OBVIOUS
  <2> DEFINE a == SubSeq(es, 1, n)
             e == es[n + 1]
             b == l \o a
             d == RecordAll(r, a)
             v == ViewAfter(view, r, b)
  <2>2. a \in Seq(E) /\ e \in E /\ SubSeq(es, 1, n + 1) = a \o <<e>>
    BY <2>1, NextPrefix
  <2>3. <<d, v>> \in P
    BY <1>2, <2>1
  <2>4. n + 1 \in 1..Len(es)
    BY <2>1
  <2>5. <<Record(d, r, e), ReduceRunEvent(v, r, e)>> \in P
    <3> HIDE DEF d, v
    <3> QED BY <2>3, <2>4
  <2> HIDE DEF a
  <2>6. b \in Seq(E) /\ l \o (a \o <<e>>) = b \o <<e>>
    BY <2>2
  <2> HIDE DEF b, e
  <2>7. /\ ViewAfter(view, r, b \o <<e>>) = ReduceRunEvent(v, r, e)
        /\ RecordAll(r, a \o <<e>>) = Record(d, r, e)
    BY <2>2, <2>6, ViewAfterAppend, RecordAllAppend
  <2> QED BY <2>2, <2>5, <2>6, <2>7
<1>3. Nat \subseteq S
  <2> HIDE DEF S
  <2> QED BY <1>1, <1>2, SetInduction
<1>4. Pair(Len(es)) \in P
  <2>1. Len(es) \in Nat /\ Len(es) <= Len(es)
    OBVIOUS
  <2> HIDE DEF Pair
  <2> QED BY <1>3, <2>1
<1>5. SubSeq(es, 1, Len(es)) = es
  OBVIOUS
<1> HIDE DEF S
<1> QED BY <1>4, <1>5

------------------------------------------------------------------------------
\* One event on a view.

Steps == [Step -> StepRow]
Turn == [status : RunStatus \cup {NoRow}, steps : Steps, report : BOOLEAN]

View == [runId : Run \cup {NoRow}, status : RunStatus \cup {NoRow, "idle"},
         steps : Steps, interrupt : BOOLEAN, report : BOOLEAN, turns : [Run -> Turn]]

AnyStep(steps, states) == \E s \in Step : steps[s].state \in states

\* The views of run r that keep the turns of the other runs.
ViewsOf(r, turns) ==
    {v \in View : v.runId = r /\ \A q \in Run \ {r} : v.turns[q] = turns[q]}

\* What they show of the run when its status is now: this is what PageFollowsRun
\* says of the view of the page.
Followed(r, now, turns) ==
    {v \in ViewsOf(r, turns) :
        /\ v.status = now
        /\ v.interrupt <=> now = "waiting_input"
        /\ now = "waiting_input" => ~AnyStep(v.steps, {"running"})
        /\ now \in {"cancelled", "failed"} => ~AnyStep(v.steps, {"running", "paused"})}

\* The events of graph items: those of steps, and three more.
WorkEvent ==
    {e \in RunEvent :
        IF e.step = NoStep
        THEN e.type \in {"conversation.updated", "requirement.revised", "report.completed"}
        ELSE e.type \in {"step.started", "step.progress", "step.completed"}}

\* Freezing and thawing give steps.
LEMMA StepsTyped ==
    ASSUME NEW steps \in Steps
    PROVE  /\ \A state \in {"paused", "cancelled", "failed"} : Freeze(steps, state) \in Steps
           /\ Thaw(steps) \in Steps
           /\ \A e \in RunEvent : e.step # NoStep => UpdateStep(steps, e) \in Steps
<1>1. \A s \in Step : steps[s] \in StepRow
  BY DEF Steps
<1>2. ASSUME NEW s \in Step, NEW state \in {"running", "paused", "cancelled", "failed"}
      PROVE  [steps[s] EXCEPT !.state = state] \in StepRow
  BY <1>1 DEF StepRow
<1>3. \A state \in {"paused", "cancelled", "failed"} : Freeze(steps, state) \in Steps
  BY <1>1, <1>2 DEF Freeze, Steps
<1>4. Thaw(steps) \in Steps
  BY <1>1, <1>2 DEF Thaw, Steps
<1>5. ASSUME NEW e \in RunEvent, e.step # NoStep
      PROVE  UpdateStep(steps, e) \in Steps
  <2> DEFINE row == [state |-> IF e.type = "step.completed" THEN "completed" ELSE "running",
                     outcome |-> IF e.outcome # NoOutcome THEN e.outcome
                                 ELSE steps[e.step].outcome]
  <2>1. e.step \in Step /\ e.outcome \in GraphStatus /\ steps[e.step] \in StepRow
    BY <1>1, <1>5 DEF RunEvent
  <2>2. row \in StepRow
    BY <2>1 DEF StepRow
  <2>3. UpdateStep(steps, e) = [steps EXCEPT ![e.step] = row]
    BY DEF UpdateStep
  <2> HIDE DEF row
  <2> QED BY <2>2, <2>3 DEF Steps
<1> QED BY <1>3, <1>4, <1>5

\* What the two freezes leave.
LEMMA Frozen ==
    ASSUME NEW steps \in Steps
    PROVE  /\ ~AnyStep(Freeze(steps, "paused"), {"running"})
           /\ \A state \in {"cancelled", "failed"} :
                ~AnyStep(Freeze(steps, state), {"running", "paused"})
<1>1. ASSUME NEW s \in Step, NEW state \in {"paused", "cancelled", "failed"}
      PROVE  /\ Freeze(steps, state)[s].state # "running"
             /\ state # "paused" => Freeze(steps, state)[s].state # "paused"
  <2>1. steps[s] \in StepRow
    BY DEF Steps
  <2> QED BY <2>1 DEF Freeze, StepRow
<1> QED BY <1>1 DEF AnyStep

\* What the manager sends: the events of items, and events without a step.
SentEvent == WorkEvent \cup {e \in RunEvent : e.step = NoStep}

\* What the page makes of each sent event.
LEMMA ReduceStep ==
    ASSUME NEW r \in Run, NEW turns, NEW v \in ViewsOf(r, turns), NEW e \in SentEvent, e.step # NoStep,
           NEW x, x = ReduceRunEvent(v, r, e)
    PROVE  /\ x \in ViewsOf(r, turns)
           /\ x.status = "running" /\ x.steps = UpdateStep(v.steps, e)
           /\ x.interrupt = v.interrupt /\ x.report = v.report /\ x.turns = v.turns
<1>1. e.type \in {"step.started", "step.progress", "step.completed"} /\ e \in RunEvent
  BY DEF SentEvent, WorkEvent
<1>2. x = [v EXCEPT !.status = "running", !.steps = UpdateStep(@, e)]
  BY <1>1 DEF ReduceRunEvent
<1> DEFINE steps == UpdateStep(v.steps, e)
<1>3. v \in View /\ v.runId = r /\ v.steps \in Steps
  BY DEF ViewsOf, View
<1>4. steps \in Steps
  BY <1>1, <1>3, StepsTyped
<1>5. x = [v EXCEPT !.status = "running", !.steps = steps]
  BY <1>2, <1>3 DEF View
<1> HIDE DEF steps
<1>6. /\ x \in ViewsOf(r, turns) /\ x.status = "running" /\ x.steps = steps
      /\ x.interrupt = v.interrupt /\ x.report = v.report /\ x.turns = v.turns
  BY <1>3, <1>4, <1>5 DEF ViewsOf, View, RunStatus
<1> QED BY <1>6 DEF steps

\* The first event makes the run the one shown, with an empty turn.
LEMMA ReduceStarted ==
    ASSUME NEW r, NEW v, NEW e \in SentEvent, e.type = "run.started"
    PROVE  ReduceRunEvent(v, r, e) =
                [v EXCEPT !.runId = r, !.status = "running",
                          !.turns[r] = [NoTurn EXCEPT !.status = "running"]]
<1>1. e.step = NoStep
  BY DEF SentEvent, WorkEvent
<1> QED BY <1>1 DEF ReduceRunEvent

\* A question is shown and pauses the steps at work.
LEMMA ReduceAsked ==
    ASSUME NEW r, NEW v, NEW e \in SentEvent, e.type = "hitl.required"
    PROVE  ReduceRunEvent(v, r, e) =
                [v EXCEPT !.status = "waiting_input", !.interrupt = TRUE,
                          !.steps = Freeze(v.steps, "paused")]
<1>1. e.step = NoStep
  BY DEF SentEvent, WorkEvent
<1> QED BY <1>1 DEF ReduceRunEvent

\* An answer takes the question away and the steps go on.
LEMMA ReduceAnswered ==
    ASSUME NEW r, NEW v, NEW e \in SentEvent, e.type = "hitl.resolved"
    PROVE  ReduceRunEvent(v, r, e) =
                [v EXCEPT !.status = "running", !.interrupt = FALSE, !.steps = Thaw(v.steps)]
<1>1. e.step = NoStep
  BY DEF SentEvent, WorkEvent
<1> QED BY <1>1 DEF ReduceRunEvent, Answered

\* A report only sets its flag.
LEMMA ReduceReport ==
    ASSUME NEW r, NEW v, NEW e \in SentEvent, e.type = "report.completed"
    PROVE  ReduceRunEvent(v, r, e) = [v EXCEPT !.report = TRUE]
<1>1. e.step = NoStep
  BY DEF SentEvent, WorkEvent
<1> QED BY <1>1 DEF ReduceRunEvent

\* Other events without a step change nothing that is modelled.
LEMMA ReducePlain ==
    ASSUME NEW r, NEW v, NEW e \in SentEvent,
           e.type \in {"conversation.updated", "requirement.revised"}
           \/ (e.step = NoStep /\ e.type \in {"step.started", "step.progress", "step.completed"})
    PROVE  ReduceRunEvent(v, r, e) = v
<1>1. e.step = NoStep
  BY DEF SentEvent, WorkEvent
<1> QED BY <1>1 DEF ReduceRunEvent

\* The steps a run that has ended is shown with.
LastSteps(v, now) == IF now = "completed" THEN v.steps ELSE Freeze(v.steps, now)

\* The last event freezes the steps and leaves a copy of the turn.
LEMMA ReduceEnd ==
    ASSUME NEW r, NEW v, NEW e \in SentEvent, e.type \in TerminalEvent
    PROVE  ReduceRunEvent(v, r, e) =
                Ended(v, StatusAfter(e.type), LastSteps(v, StatusAfter(e.type)))
<1>1. e.step = NoStep
  BY DEF SentEvent, WorkEvent, TerminalEvent
<1>2. CASE e.type = "run.completed"
  BY <1>1, <1>2 DEF ReduceRunEvent, StatusAfter, LastSteps
<1>3. CASE e.type = "run.cancelled"
  BY <1>1, <1>3 DEF ReduceRunEvent, StatusAfter, LastSteps
<1>4. CASE e.type = "run.failed"
  BY <1>1, <1>4 DEF ReduceRunEvent, StatusAfter, LastSteps
<1> QED BY <1>2, <1>3, <1>4 DEF TerminalEvent

\* The turn a view shows of its run.
TurnOf(v) == [status |-> v.status, steps |-> v.steps, report |-> v.report]

\* The end of a run, as the page shows and keeps it.
LEMMA EndedTyped ==
    ASSUME NEW r \in Run, NEW turns, NEW v \in ViewsOf(r, turns), NEW now \in TERMINAL_STATUSES,
           NEW steps \in Steps, NEW x, x = Ended(v, now, steps)
    PROVE  /\ x \in ViewsOf(r, turns)
           /\ x.status = now /\ x.steps = steps /\ x.report = v.report /\ ~x.interrupt
           /\ x.turns[r] = TurnOf(x)
<1> DEFINE turn == [status |-> now, steps |-> steps, report |-> v.report]
           ts == [v.turns EXCEPT ![r] = turn]
           w == [v EXCEPT !.status = now, !.interrupt = FALSE, !.steps = steps]
<1>1. v \in View /\ v.runId = r /\ v.report \in BOOLEAN /\ v.turns \in [Run -> Turn]
  BY DEF ViewsOf, View
<1>2. now \in RunStatus /\ steps \in Steps
  BY DEF RunStatus
<1>3. turn \in Turn
  BY <1>1, <1>2 DEF Turn
<1>4. ts \in [Run -> Turn]
  <2> HIDE DEF turn
  <2> QED BY <1>1, <1>3
<1>5. /\ w \in View /\ w.runId = r /\ w.status = now /\ w.steps = steps
      /\ ~w.interrupt /\ w.report = v.report /\ w.turns = v.turns
  BY <1>1, <1>2 DEF View
<1>6. Ended(v, now, steps) = SnapshotCurrentTurn(w)
  BY DEF Ended
<1> HIDE DEF w, turn
<1>7. SnapshotCurrentTurn(w) = [w EXCEPT !.turns = ts]
  <2>1. SnapshotCurrentTurn(w) = [w EXCEPT !.turns[r] = turn]
    BY <1>5 DEF SnapshotCurrentTurn, turn
  <2> QED BY <1>5, <2>1
<1> HIDE DEF ts
<1>8. /\ Ended(v, now, steps) \in ViewsOf(r, turns)
      /\ x.status = now /\ x.steps = steps /\ x.report = v.report /\ ~x.interrupt
      /\ x.turns = ts
  <2>1. \A q \in Run \ {r} : ts[q] = turns[q]
    BY <1>1 DEF ts, ViewsOf
  <2> QED BY <1>4, <1>5, <1>6, <1>7, <2>1 DEF ViewsOf, View
<1>9. ts[r] = turn
  BY <1>1 DEF ts
<1> QED BY <1>8, <1>9 DEF TurnOf, turn

\* A sent event leaves a view of the run.
LEMMA ReduceTyped ==
    ASSUME NEW r \in Run, NEW turns, NEW v \in ViewsOf(r, turns), NEW e \in SentEvent
    PROVE  ReduceRunEvent(v, r, e) \in ViewsOf(r, turns)
<1>1. /\ v \in View /\ v.runId = r /\ v.steps \in Steps /\ v.turns \in [Run -> Turn]
      /\ e \in RunEvent
  BY DEF ViewsOf, View, SentEvent, WorkEvent
<1>2. /\ \A state \in {"paused", "cancelled", "failed"} : Freeze(v.steps, state) \in Steps
      /\ Thaw(v.steps) \in Steps
      /\ e.step # NoStep => UpdateStep(v.steps, e) \in Steps
  BY <1>1, StepsTyped
<1>3. CASE e.step # NoStep
  BY <1>3, ReduceStep
<1>4. CASE e.type = "run.started"
  <2> DEFINE turn == [NoTurn EXCEPT !.status = "running"]
             ts == [v.turns EXCEPT ![r] = turn]
  <2>1. ReduceRunEvent(v, r, e) = [v EXCEPT !.runId = r, !.status = "running", !.turns[r] = turn]
    BY <1>4, ReduceStarted
  <2>2. turn \in Turn
    BY NoOutcomeTyped DEF NoTurn, Turn, Steps, NoStepRow, StepRow, RunStatus
  <2>3. ts \in [Run -> Turn] /\ \A q \in Run \ {r} : ts[q] = v.turns[q]
    <3> HIDE DEF turn
    <3> QED BY <1>1, <2>2
  <2> HIDE DEF turn
  <2>4. ReduceRunEvent(v, r, e) = [v EXCEPT !.runId = r, !.status = "running", !.turns = ts]
    BY <2>1
  <2> HIDE DEF ts
  <2>5. \A q \in Run \ {r} : ts[q] = turns[q]
    BY <2>3 DEF ViewsOf
  <2> QED BY <1>1, <2>3, <2>4, <2>5 DEF ViewsOf, View, RunStatus
<1>5. CASE e.type = "hitl.required"
  <2>1. ReduceRunEvent(v, r, e) = [v EXCEPT !.status = "waiting_input", !.interrupt = TRUE,
                                            !.steps = Freeze(v.steps, "paused")]
    BY <1>5, ReduceAsked
  <2> QED BY <1>1, <1>2, <2>1 DEF ViewsOf, View, RunStatus
<1>6. CASE e.type = "hitl.resolved"
  <2>1. ReduceRunEvent(v, r, e) = [v EXCEPT !.status = "running", !.interrupt = FALSE,
                                            !.steps = Thaw(v.steps)]
    BY <1>6, ReduceAnswered
  <2> QED BY <1>1, <1>2, <2>1 DEF ViewsOf, View, RunStatus
<1>7. CASE e.type = "report.completed"
  <2>1. ReduceRunEvent(v, r, e) = [v EXCEPT !.report = TRUE]
    BY <1>7, ReduceReport
  <2> QED BY <1>1, <2>1 DEF ViewsOf, View
<1>8. CASE e.type \in TerminalEvent
  <2> DEFINE now == StatusAfter(e.type)
  <2>1. now \in {"completed", "cancelled", "failed"} /\ now \in TERMINAL_STATUSES
    BY <1>8 DEF TerminalEvent, StatusAfter, TERMINAL_STATUSES
  <2>2. LastSteps(v, now) \in Steps
    BY <1>1, <1>2, <2>1 DEF LastSteps
  <2>3. ReduceRunEvent(v, r, e) = Ended(v, now, LastSteps(v, now))
    BY <1>8, ReduceEnd
  <2> HIDE DEF now
  <2> DEFINE steps == LastSteps(v, now)
  <2> HIDE DEF now, steps
  <2>4. Ended(v, now, steps) \in ViewsOf(r, turns)
    BY <2>1, <2>2, EndedTyped DEF steps
  <2> QED BY <2>3, <2>4 DEF steps
<1>9. CASE e.step = NoStep /\ e.type \in {"conversation.updated", "requirement.revised",
                                          "step.started", "step.progress", "step.completed"}
  BY <1>9, ReducePlain
<1>10. e.type \in EventType
  BY <1>1 DEF RunEvent
<1> QED BY <1>3, <1>4, <1>5, <1>6, <1>7, <1>8, <1>9, <1>10 DEF EventType

------------------------------------------------------------------------------
\* What the page shows of a run.

\* The events of an item leave a run running.
LEMMA WorkFollowed ==
    ASSUME NEW r \in Run, NEW turns, NEW v \in Followed(r, "running", turns), NEW e \in WorkEvent
    PROVE  ReduceRunEvent(v, r, e) \in Followed(r, "running", turns)
<1>1. /\ v \in ViewsOf(r, turns) /\ v.status = "running" /\ ~v.interrupt
      /\ v \in View /\ e \in SentEvent
  BY DEF Followed, ViewsOf, View, SentEvent
<1>2. ReduceRunEvent(v, r, e) \in ViewsOf(r, turns)
  BY <1>1, ReduceTyped
<1>3. CASE e.step # NoStep
  BY <1>1, <1>2, <1>3, ReduceStep DEF Followed
<1>4. CASE e.type = "report.completed"
  <2>1. ReduceRunEvent(v, r, e) = [v EXCEPT !.report = TRUE]
    BY <1>1, <1>4, ReduceReport
  <2> QED BY <1>1, <1>2, <2>1 DEF Followed, View
<1>5. CASE e.type \in {"conversation.updated", "requirement.revised"}
  <2>1. ReduceRunEvent(v, r, e) = v
    BY <1>1, <1>5, ReducePlain
  <2> QED BY <2>1
<1> QED BY <1>3, <1>4, <1>5 DEF WorkEvent

\* A question.
LEMMA AskedFollowed ==
    ASSUME NEW r \in Run, NEW turns, NEW v \in ViewsOf(r, turns)
    PROVE  ReduceRunEvent(v, r, Event("hitl.required")) \in Followed(r, "waiting_input", turns)
<1> DEFINE e == Event("hitl.required")
<1>1. v \in View /\ v.steps \in Steps
  BY DEF ViewsOf, View
<1>2. e \in SentEvent /\ e.type = "hitl.required"
  BY EventTyped DEF SentEvent, EventType, Event
<1> HIDE DEF e
<1>3. ReduceRunEvent(v, r, e) \in ViewsOf(r, turns)
  BY <1>2, ReduceTyped
<1>4. ReduceRunEvent(v, r, e) = [v EXCEPT !.status = "waiting_input", !.interrupt = TRUE,
                                          !.steps = Freeze(v.steps, "paused")]
  BY <1>2, ReduceAsked
<1>5. ~AnyStep(Freeze(v.steps, "paused"), {"running"})
  BY <1>1, Frozen
<1> DEFINE steps == Freeze(v.steps, "paused")
<1> HIDE DEF steps
<1>6. /\ ReduceRunEvent(v, r, e).status = "waiting_input"
      /\ ReduceRunEvent(v, r, e).interrupt = TRUE
      /\ ReduceRunEvent(v, r, e).steps = steps
  BY <1>1, <1>4 DEF View, steps
<1> QED BY <1>3, <1>5, <1>6 DEF Followed, e, steps

\* Its answer.
LEMMA AnsweredFollowed ==
    ASSUME NEW r \in Run, NEW turns, NEW v \in ViewsOf(r, turns)
    PROVE  ReduceRunEvent(v, r, Event("hitl.resolved")) \in Followed(r, "running", turns)
<1> DEFINE e == Event("hitl.resolved")
<1>1. v \in View
  BY DEF ViewsOf
<1>2. e \in SentEvent /\ e.type = "hitl.resolved"
  BY EventTyped DEF SentEvent, EventType, Event
<1> HIDE DEF e
<1>3. ReduceRunEvent(v, r, e) \in ViewsOf(r, turns)
  BY <1>2, ReduceTyped
<1>4. ReduceRunEvent(v, r, e) = [v EXCEPT !.status = "running", !.interrupt = FALSE,
                                          !.steps = Thaw(v.steps)]
  BY <1>2, ReduceAnswered
<1>5. /\ ReduceRunEvent(v, r, e).status = "running"
      /\ ReduceRunEvent(v, r, e).interrupt = FALSE
  BY <1>1, <1>4 DEF View
<1> QED BY <1>3, <1>5 DEF Followed, e

\* The end of the run, from whatever view.
LEMMA LastFollowed ==
    ASSUME NEW r \in Run, NEW turns, NEW v \in ViewsOf(r, turns),
           NEW e \in SentEvent, e.type \in TerminalEvent,
           NEW x, x = ReduceRunEvent(v, r, e)
    PROVE  /\ x \in Followed(r, StatusAfter(e.type), turns)
           /\ x.steps = LastSteps(v, StatusAfter(e.type)) /\ x.report = v.report
           /\ x.turns[r] = TurnOf(x)
<1> DEFINE now == StatusAfter(e.type)
           steps == LastSteps(v, now)
<1>1. v \in View /\ v.steps \in Steps /\ v.turns \in [Run -> Turn]
  BY DEF ViewsOf, View
<1>3. x \in ViewsOf(r, turns) /\ x = Ended(v, now, steps)
  BY ReduceTyped, ReduceEnd
<1>4. now \in TERMINAL_STATUSES /\ now \in {"completed", "cancelled", "failed"}
  BY DEF TerminalEvent, StatusAfter, TERMINAL_STATUSES
<1> HIDE DEF now
<1>5. /\ steps \in Steps
      /\ now \in {"cancelled", "failed"} => ~AnyStep(steps, {"running", "paused"})
  <2>1. CASE now = "completed"
    BY <1>1, <2>1 DEF LastSteps
  <2>2. CASE now \in {"cancelled", "failed"}
    <3>1. steps = Freeze(v.steps, now)
      BY <2>2 DEF LastSteps
    <3> QED BY <1>1, <2>2, <3>1, StepsTyped, Frozen
  <2> QED BY <1>4, <2>1, <2>2
<1> HIDE DEF steps
<1>6. /\ x.status = now /\ x.steps = steps /\ x.report = v.report /\ ~x.interrupt
      /\ x.turns[r] = TurnOf(x)
  BY <1>3, <1>4, <1>5, EndedTyped
<1>7. x \in Followed(r, now, turns)
  BY <1>3, <1>4, <1>5, <1>6 DEF Followed
<1> QED BY <1>6, <1>7 DEF now, steps

\* ... when the event has no more than a type.
LEMMA EndFollowed ==
    ASSUME NEW r \in Run, NEW turns, NEW v \in ViewsOf(r, turns), NEW type \in TerminalEvent,
           NEW x, x = ReduceRunEvent(v, r, Event(type))
    PROVE  /\ x \in Followed(r, StatusAfter(type), turns)
           /\ x.steps = LastSteps(v, StatusAfter(type)) /\ x.report = v.report
           /\ x.turns[r] = TurnOf(x)
<1>1. Event(type) \in SentEvent /\ Event(type).type = type
  BY EventTyped DEF SentEvent, EventType, Event
<1> QED BY <1>1, LastFollowed

------------------------------------------------------------------------------
\* What the page receives of a log.

Open(l) == \A i \in 1..Len(l) : l[i].type \notin TerminalEvent

\* All of it, while no event ends it.
LEMMA ReceivedOpen == ASSUME NEW l, Open(l) PROVE Received(l) = l
<1>1. {i \in 1..Len(l) : l[i].type \in TerminalEvent} = {}
  BY DEF Open
<1>2. Ending(l) = 0
  BY <1>1, Zenon DEF Ending
<1> QED BY <1>2 DEF Received

\* Two lists of events that end no log.
LEMMA OpenConcat ==
    ASSUME NEW l \in Seq(RunEvent), Open(l), NEW es \in Seq(RunEvent), Open(es)
    PROVE  l \o es \in Seq(RunEvent) /\ Open(l \o es)
<1>1. \A i \in 1..Len(l \o es) : (l \o es)[i].type \notin TerminalEvent
  BY TerminalInConcat DEF Open
<1> QED BY <1>1 DEF Open

\* The first event that ends it is received.
LEMMA ReceivedSingle ==
    ASSUME NEW l \in Seq(RunEvent), Open(l), NEW e \in RunEvent
    PROVE  Received(l \o <<e>>) = l \o <<e>>
<1> DEFINE x == l \o <<e>>
<1>1. /\ x \in Seq(RunEvent) /\ Len(x) = Len(l) + 1 /\ Len(l) \in Nat
      /\ e.type \in TerminalEvent => Ending(x) = Len(x)
  BY SingleLog DEF Open
<1>2. CASE e.type \in TerminalEvent
  <2> HIDE DEF x
  <2>1. SubSeq(x, 1, Len(x)) = x
    BY <1>1
  <2> QED BY <1>1, <1>2, <2>1 DEF Received, x
<1>3. CASE e.type \notin TerminalEvent
  <2>1. \A i \in 1..Len(x) : x[i].type \notin TerminalEvent
    BY <1>3 DEF Open
  <2>2. Open(x)
    BY <2>1 DEF Open
  <2> HIDE DEF x
  <2> QED BY <2>2, ReceivedOpen DEF x
<1> QED BY <1>2, <1>3

\* Nothing after it is: of the log of a run that failed the page receives all,
\* or what was sent before run.failed.
LEMMA ReceivedFailed ==
    ASSUME NEW l \in Seq(RunEvent), Open(l), NEW front \in Seq(SentEvent), EndsLast(front),
           NEW failed \in RunEvent
    PROVE  \/ Received(l \o front \o <<failed>>) = l \o front \o <<failed>>
           \/ \E before \in Seq(SentEvent), e \in SentEvent :
                /\ e.type \in TerminalEvent \ {"run.cancelled"}
                /\ Received(l \o front \o <<failed>>) = l \o before \o <<e>>
<1> DEFINE h == l \o front
           x == h \o <<failed>>
           n == Len(front)
<1>1. front \in Seq(RunEvent) /\ n \in Nat /\ \A i \in 1..n : front[i] \in SentEvent
  BY DEF SentEvent, WorkEvent
<1>2. h \in Seq(RunEvent)
  BY <1>1
<1>3. CASE Open(front)
  <2>1. Open(h)
    BY <1>1, <1>3, OpenConcat
  <2> HIDE DEF h
  <2>2. Received(x) = x
    BY <1>2, <2>1, ReceivedSingle
  <2> QED BY <2>2 DEF h
<1>4. CASE ~Open(front)
  <2> DEFINE before == SubSeq(front, 1, n - 1)
             e == front[n]
             k == l \o before
  <2>1. n \in 1..n /\ e \in SentEvent /\ e.type \in TerminalEvent \ {"run.cancelled"}
    BY <1>1, <1>4 DEF EndsLast, Open
  <2>2. /\ before \in Seq(SentEvent) /\ before \in Seq(RunEvent) /\ Len(before) = n - 1
        /\ \A i \in 1..(n - 1) : before[i] = front[i] /\ i \in 1..n /\ i # n
    <3>1. \A i \in 1..(n - 1) : front[i] \in SentEvent /\ front[i] \in RunEvent
      BY <1>1 DEF SentEvent, WorkEvent
    <3>2. n - 1 \in 0..n
      BY <1>1, <2>1
    <3> HIDE DEF n
    <3> QED BY <1>1, <2>1, <3>1, <3>2, SubSeqProperties
  <2>3. Open(before)
    BY <2>1, <2>2 DEF Open, EndsLast
  <2>4. k \in Seq(RunEvent) /\ Open(k)
    BY <2>2, <2>3, OpenConcat
  <2>5. front = before \o <<e>>
    BY <1>1, <2>1, <2>2
  <2>6. h = k \o <<e>>
    <3> DEFINE one == <<e>>
    <3>1. one \in Seq(RunEvent)
      BY <2>1 DEF SentEvent, WorkEvent
    <3> HIDE DEF before, one, e
    <3>2. l \o (before \o one) = (l \o before) \o one
      <4>1. l \in Seq(RunEvent) /\ before \in Seq(RunEvent)
        BY <2>2
      <4> HIDE DEF h, n, k
      <4> QED BY <3>1, <4>1
    <3> QED BY <2>5, <3>2 DEF one
  <2> HIDE DEF before, e, k, h, n
  <2> DEFINE m == Len(h)
             T == {i \in 1..Len(x) : x[i].type \in TerminalEvent}
  <2>7. /\ m \in Nat /\ m = Len(k) + 1 /\ Len(k) \in Nat /\ h[m] = e
        /\ \A i \in 1..Len(k) : h[i] = k[i]
    BY <2>4, <2>6
  <2>8. /\ Len(x) = m + 1 /\ \A i \in 1..m : x[i] = h[i]
        /\ SubSeq(x, 1, m) = h
    BY <1>2, <2>7
  <2> HIDE DEF x, m
  <2>9. m \in T /\ T \in SUBSET Nat
    BY <2>1, <2>7, <2>8
  <2>10. \A i \in T : m <= i
    <3> SUFFICES ASSUME NEW i \in 1..Len(x), i < m PROVE x[i].type \notin TerminalEvent
      BY <2>7, <2>8
    <3>1. i \in 1..Len(k) /\ i \in 1..m
      BY <2>7
    <3> QED BY <2>4, <2>7, <2>8, <3>1 DEF Open
  <2>11. Ending(x) = m
    <3>1. Ending(x) = IF T = {} THEN 0 ELSE Min(T)
      BY DEF Ending
    <3> HIDE DEF T
    <3> QED BY <2>9, <2>10, <3>1, MinIs
  <2>12. Received(x) = h
    BY <2>7, <2>8, <2>11 DEF Received
  <2> QED BY <2>1, <2>2, <2>6, <2>12 DEF x, h, k
<1> QED BY <1>3, <1>4

\* The view the answer of create_run gives, and what the log makes of it.
StartView(r, turns) == [InitialView(turns) EXCEPT !.runId = r, !.status = "running"]
RunView(r, turns) == ViewAfter(StartView(r, turns), r, Received(events[r]))

\* The view of a run that has just been started.
LEMMA StartFollowed ==
    ASSUME NEW r \in Run, NEW turns \in [Run -> Turn],
           NEW x, x = ViewAfter(StartView(r, turns), r, <<Event("run.started")>>)
    PROVE  /\ x \in Followed(r, "running", turns)
           /\ x.steps = NoTurn.steps /\ ~x.report
<1> DEFINE e == Event("run.started")
           v == StartView(r, turns)
           turn == [NoTurn EXCEPT !.status = "running"]
           ts == [turns EXCEPT ![r] = turn]
<1>1. e \in SentEvent /\ e.type = "run.started"
  BY EventTyped DEF SentEvent, EventType, Event
<1> HIDE DEF e
<1>2. NoTurn.steps \in Steps
  BY NoOutcomeTyped DEF NoTurn, Steps, NoStepRow, StepRow
<1>3. /\ v \in View /\ v.runId = r /\ v.status = "running" /\ v.steps = NoTurn.steps
      /\ ~v.interrupt /\ ~v.report /\ v.turns = turns
  <2> DEFINE w == InitialView(turns)
  <2>1. /\ w \in View /\ w.steps = NoTurn.steps /\ ~w.interrupt /\ ~w.report /\ w.turns = turns
    BY <1>2 DEF InitialView, View
  <2>2. v = [w EXCEPT !.runId = r, !.status = "running"]
    BY DEF StartView
  <2> HIDE DEF w, v
  <2> QED BY <2>1, <2>2 DEF View, RunStatus
<1>4. v \in ViewsOf(r, turns)
  BY <1>3 DEF ViewsOf
<1> HIDE DEF v
<1>5. x = ReduceRunEvent(v, r, e)
  BY ViewAfterOne DEF v, e
<1>6. x \in ViewsOf(r, turns)
  BY <1>1, <1>4, <1>5, ReduceTyped
<1>7. x = [v EXCEPT !.runId = r, !.status = "running", !.turns[r] = turn]
  BY <1>1, <1>5, ReduceStarted
<1> HIDE DEF turn
<1>8. /\ x.status = "running" /\ x.steps = NoTurn.steps
      /\ ~x.interrupt /\ ~x.report
  BY <1>3, <1>7 DEF View
<1> QED BY <1>6, <1>8 DEF Followed

------------------------------------------------------------------------------
\* The page and the tables.

\* The view of run r shows what the rows of d say of it, and keeps it as a
\* turn when the run has ended.
Agree(d, r, v) ==
    /\ HasRow(d, r)
    /\ v.status = d.run[r].status
    /\ v.steps = d.step[r]
    /\ v.report <=> d.run[r].report
    /\ v.status \in TERMINAL_STATUSES => v.turns[r] = TurnOf(v)

\* The tables of a run and its view, while the run is running.
Paired(r, turns) ==
    {p \in Since(db, r) \X Followed(r, "running", turns) : Agree(p[1], r, p[2])}

\* What record() makes of the rows of a run, in one event.
LEMMA RecordedRow ==
    ASSUME db \in Consistent, NEW r \in Run, IsLatest(db, r), NEW d \in Since(db, r),
           HasRow(d, r), NEW e \in RunEvent, NEW x, x = Record(d, r, e)
    PROVE  /\ x \in Since(db, r) /\ HasRow(x, r)
           /\ x.run[r].status = RowStatus(e, d.run[r].status)
           /\ x.run[r].report <=> (d.run[r].report \/ e.type = "report.completed")
           /\ x.step[r] = RecordSteps(d.step[r], e)
<1>1. db \in Tables /\ d \in Consistent /\ d \in Tables /\ RunShown(d, r)
  BY DEF Since, Consistent
<1>2. d.run[r].conv \in Conversation
  BY <1>1 DEF RunShown, Tables, RunRow
<1>3. /\ x \in Since(db, r) /\ HasRow(x, r)
      /\ x.run[r].status = RowStatus(e, d.run[r].status)
  BY <1>1, RecordKeeps
<1> DEFINE now == RowStatus(e, d.run[r].status)
           c == d.run[r].conv
           row == [d.run[r] EXCEPT !.status = now,
                                   !.report = @ \/ e.type = "report.completed"]
           steps == RecordSteps(d.step[r], e)
           crow == [d.conv[c] EXCEPT !.status = now]
<1>4. x = [run |-> [d.run EXCEPT ![r] = row], step |-> [d.step EXCEPT ![r] = steps],
           conv |-> [d.conv EXCEPT ![c] = crow]]
  BY <1>1, <1>2, RecordWrites, Zenon
<1>5. row.report <=> (d.run[r].report \/ e.type = "report.completed")
  <2> DEFINE report == d.run[r].report \/ e.type = "report.completed"
  <2>1. d.run[r] \in RunRow
    BY <1>1 DEF Tables
  <2>2. row = [d.run[r] EXCEPT !.status = now, !.report = report]
    BY <2>1 DEF RunRow
  <2> HIDE DEF report, now, row
  <2>3. row.report = report
    BY <2>1, <2>2 DEF RunRow
  <2> QED BY <2>3 DEF report
<1> HIDE DEF row, steps, crow
<1>6. x.run[r] = row /\ x.step[r] = steps
  BY <1>1, <1>4 DEF Tables
<1> QED BY <1>3, <1>5, <1>6 DEF steps

\* The store settles the rows of a run as the page freezes and thaws its steps.
LEMMA SettledAlike ==
    ASSUME NEW rows \in Steps
    PROVE  /\ \A state \in {"paused", "cancelled", "failed"} :
                Settle(rows, state) = Freeze(rows, state)
           /\ Settle(rows, "running") = Thaw(rows)
<1>1. ASSUME NEW s \in Step
      PROVE  /\ rows[s] \in StepRow
             /\ [rows[s] EXCEPT !.state = rows[s].state] = rows[s]
  <2>1. rows[s] \in StepRow
    BY DEF Steps
  <2> QED BY <2>1 DEF StepRow
<1>2. ASSUME NEW state \in {"paused", "cancelled", "failed"}
      PROVE  Settle(rows, state) = Freeze(rows, state)
  <2>1. ASSUME NEW s \in Step
        PROVE  Settle(rows, state)[s] = Freeze(rows, state)[s]
    BY <1>1 DEF Settle, Freeze
  <2> QED BY <2>1 DEF Settle, Freeze
<1>3. Settle(rows, "running") = Thaw(rows)
  <2>1. ASSUME NEW s \in Step
        PROVE  Settle(rows, "running")[s] = Thaw(rows)[s]
    BY <1>1 DEF Settle, Thaw
  <2> QED BY <2>1 DEF Settle, Thaw
<1> QED BY <1>2, <1>3

\* Both make the same of an event of an item.
LEMMA WorkAgrees ==
    ASSUME db \in Consistent, NEW r \in Run, IsLatest(db, r), NEW turns,
           NEW d \in Since(db, r), NEW v \in Followed(r, "running", turns), Agree(d, r, v),
           NEW e \in WorkEvent
    PROVE  /\ Record(d, r, e) \in Since(db, r)
           /\ ReduceRunEvent(v, r, e) \in Followed(r, "running", turns)
           /\ Agree(Record(d, r, e), r, ReduceRunEvent(v, r, e))
<1> DEFINE x == Record(d, r, e)
           y == ReduceRunEvent(v, r, e)
<1>1. /\ v \in ViewsOf(r, turns) /\ v \in View /\ v.status = "running" /\ v.steps \in Steps
      /\ e \in RunEvent /\ e \in SentEvent /\ HasRow(d, r)
  BY DEF Followed, ViewsOf, View, WorkEvent, SentEvent, Agree
<1>2. y \in Followed(r, "running", turns)
  BY WorkFollowed
<1>3. /\ x \in Since(db, r) /\ HasRow(x, r)
      /\ x.run[r].status = RowStatus(e, d.run[r].status)
      /\ x.run[r].report <=> (d.run[r].report \/ e.type = "report.completed")
      /\ x.step[r] = RecordSteps(d.step[r], e)
  BY <1>1, RecordedRow
<1>4. d.run[r].status = "running" /\ d.step[r] = v.steps /\ (d.run[r].report <=> v.report)
  BY <1>1 DEF Agree
<1>5. y.status = "running" /\ "running" \notin TERMINAL_STATUSES
  BY <1>2 DEF Followed, TERMINAL_STATUSES
<1>6. e.type \notin {"hitl.required", "hitl.resolved"} \cup TerminalEvent
  BY DEF WorkEvent, TerminalEvent
<1>7. x.run[r].status = "running"
  BY <1>3, <1>4, <1>6 DEF RowStatus, TerminalEvent
<1> HIDE DEF x, y
<1>8. CASE e.step # NoStep
  <2>1. y.steps = UpdateStep(v.steps, e) /\ (y.report <=> v.report)
    BY <1>1, <1>8, ReduceStep DEF y
  <2>2. RecordSteps(v.steps, e) = UpdateStep(v.steps, e)
    <3>1. RecordSteps(v.steps, e) = [v.steps EXCEPT ![e.step] = RecordStep(@, e)]
      BY <1>8 DEF RecordSteps
    <3>2. RecordStep(v.steps[e.step], e) =
            [state |-> IF e.type = "step.completed" THEN "completed" ELSE "running",
             outcome |-> IF e.outcome # NoOutcome THEN e.outcome ELSE v.steps[e.step].outcome]
      BY DEF RecordStep
    <3> QED BY <3>1, <3>2 DEF UpdateStep
  <2>3. e.type # "report.completed"
    BY <1>8 DEF WorkEvent
  <2> QED BY <1>2, <1>3, <1>4, <1>5, <1>7, <2>1, <2>2, <2>3 DEF Agree, x, y
<1>9. CASE e.step = NoStep
  <2>1. RecordSteps(v.steps, e) = v.steps
    BY <1>6, <1>9 DEF RecordSteps, TerminalEvent
  <2>2. y.steps = v.steps /\ (y.report <=> (v.report \/ e.type = "report.completed"))
    <3>1. CASE e.type = "report.completed"
      <4>1. y = [v EXCEPT !.report = TRUE]
        BY <1>1, <3>1, ReduceReport DEF y
      <4> QED BY <1>1, <3>1, <4>1 DEF View
    <3>2. CASE e.type \in {"conversation.updated", "requirement.revised"}
      <4>1. y = v
        BY <1>1, <3>2, ReducePlain DEF y
      <4> QED BY <3>2, <4>1
    <3> QED BY <1>9, <3>1, <3>2 DEF WorkEvent
  <2> QED BY <1>2, <1>3, <1>4, <1>5, <1>7, <2>1, <2>2 DEF Agree, x, y
<1> QED BY <1>8, <1>9

\* ... and of all events of an item.
LEMMA WorkAllAgrees ==
    ASSUME db \in Consistent, NEW r \in Run, IsLatest(db, r), NEW turns, NEW view,
           NEW l \in Seq(RunEvent), NEW es \in Seq(WorkEvent),
           ViewAfter(view, r, l) \in Followed(r, "running", turns),
           Agree(db, r, ViewAfter(view, r, l))
    PROVE  Agree(RecordAll(r, es), r, ViewAfter(view, r, l \o es))
<1>1. es \in Seq(RunEvent) /\ \A i \in 1..Len(es) : es[i] \in WorkEvent
  BY DEF WorkEvent
<1> DEFINE P == Paired(r, turns)
<1>2. <<db, ViewAfter(view, r, l)>> \in P
  BY SinceSelf DEF Paired
<1>3. ASSUME NEW d, NEW v, <<d, v>> \in P, NEW e \in WorkEvent
      PROVE  <<Record(d, r, e), ReduceRunEvent(v, r, e)>> \in P
  <2>1. d \in Since(db, r) /\ v \in Followed(r, "running", turns) /\ Agree(d, r, v)
    BY <1>3 DEF Paired
  <2>2. /\ Record(d, r, e) \in Since(db, r)
        /\ ReduceRunEvent(v, r, e) \in Followed(r, "running", turns)
        /\ Agree(Record(d, r, e), r, ReduceRunEvent(v, r, e))
    BY <2>1, WorkAgrees
  <2> QED BY <2>2 DEF Paired
<1>4. <<RecordAll(r, es), ViewAfter(view, r, l \o es)>> \in P
  <2> HIDE DEF P
  <2>1. \A d, v : <<d, v>> \in P => \A i \in 1..Len(es) :
            <<Record(d, r, es[i]), ReduceRunEvent(v, r, es[i])>> \in P
    BY <1>1, <1>3
  <2> QED BY <1>1, <1>2, <2>1, BothKeep
<1> QED BY <1>4 DEF Paired

\* ... and of a question, an answer and an end.
LEMMA SingleAgrees ==
    ASSUME db \in Consistent, NEW r \in Run, IsLatest(db, r), NEW turns,
           NEW v \in ViewsOf(r, turns), Agree(db, r, v),
           NEW type \in {"hitl.required", "hitl.resolved"} \cup TerminalEvent
    PROVE  Agree(RecordAll(r, <<Event(type)>>), r, ReduceRunEvent(v, r, Event(type)))
<1> DEFINE e == Event(type)
           x == Record(db, r, e)
           y == ReduceRunEvent(v, r, e)
<1>1. /\ e \in RunEvent /\ e \in SentEvent /\ e.type = type /\ e.step = NoStep
  BY EventTyped DEF SentEvent, EventType, Event
<1> HIDE DEF e
<1>2. /\ db \in Since(db, r) /\ HasRow(db, r) /\ v \in View /\ v.steps \in Steps
      /\ v.steps = db.step[r] /\ (v.report <=> db.run[r].report)
  BY SinceSelf DEF Agree, ViewsOf, View
<1>3. /\ HasRow(x, r)
      /\ x.run[r].status = RowStatus(e, db.run[r].status)
      /\ x.run[r].report <=> v.report
      /\ x.step[r] = RecordSteps(v.steps, e)
  <2>1. type # "report.completed"
    BY DEF TerminalEvent
  <2> QED BY <1>1, <1>2, <2>1, RecordedRow
<1>4. RecordAll(r, <<e>>) = x
  BY RecordAllFew
<1>5. RowStatus(e, db.run[r].status) = StatusAfter(type)
  BY <1>1 DEF RowStatus, StatusAfter, TerminalEvent
<1> HIDE DEF x, y
<1>6. CASE type = "hitl.required"
  <2> DEFINE steps == Freeze(v.steps, "paused")
  <2>1. y = [v EXCEPT !.status = "waiting_input", !.interrupt = TRUE, !.steps = steps]
    <3>1. e \in SentEvent /\ e.type = "hitl.required"
      BY <1>1, <1>6
    <3>2. ReduceRunEvent(v, r, e) =
            [v EXCEPT !.status = "waiting_input", !.interrupt = TRUE,
                      !.steps = Freeze(v.steps, "paused")]
      BY <3>1, ReduceAsked
    <3> QED BY <3>2 DEF y
  <2>2. RecordSteps(v.steps, e) = steps
    BY <1>1, <1>2, <1>6, SettledAlike DEF RecordSteps
  <2> HIDE DEF steps
  <2>3. y.status = "waiting_input" /\ y.steps = steps /\ (y.report <=> v.report)
    BY <1>2, <2>1 DEF View
  <2>4. StatusAfter(type) = "waiting_input" /\ "waiting_input" \notin TERMINAL_STATUSES
    BY <1>6 DEF StatusAfter, TERMINAL_STATUSES
  <2>5. Agree(x, r, y)
    BY <1>3, <1>5, <2>2, <2>3, <2>4 DEF Agree
  <2> QED BY <1>4, <2>5 DEF e, y
<1>7. CASE type = "hitl.resolved"
  <2> DEFINE steps == Thaw(v.steps)
  <2>1. y = [v EXCEPT !.status = "running", !.interrupt = FALSE, !.steps = steps]
    <3>1. e \in SentEvent /\ e.type = "hitl.resolved"
      BY <1>1, <1>7
    <3>2. ReduceRunEvent(v, r, e) =
            [v EXCEPT !.status = "running", !.interrupt = FALSE, !.steps = Thaw(v.steps)]
      BY <3>1, ReduceAnswered
    <3> QED BY <3>2 DEF y
  <2>2. RecordSteps(v.steps, e) = steps
    BY <1>1, <1>2, <1>7, SettledAlike DEF RecordSteps
  <2> HIDE DEF steps
  <2>3. y.status = "running" /\ y.steps = steps /\ (y.report <=> v.report)
    BY <1>2, <2>1 DEF View
  <2>4. StatusAfter(type) = "running" /\ "running" \notin TERMINAL_STATUSES
    BY <1>7 DEF StatusAfter, TERMINAL_STATUSES
  <2>5. Agree(x, r, y)
    BY <1>3, <1>5, <2>2, <2>3, <2>4 DEF Agree
  <2> QED BY <1>4, <2>5 DEF e, y
<1>8. CASE type \in TerminalEvent
  <2> DEFINE now == StatusAfter(type)
  <2>1. /\ y.status = now /\ y.steps = LastSteps(v, now) /\ (y.report <=> v.report)
        /\ y.turns[r] = TurnOf(y)
    <3>1. /\ y \in Followed(r, now, turns)
          /\ y.steps = LastSteps(v, now) /\ y.report = v.report
          /\ y.turns[r] = TurnOf(y)
      BY <1>8, EndFollowed DEF y, e
    <3> QED BY <3>1 DEF Followed
  <2>2. RecordSteps(v.steps, e) = LastSteps(v, now)
    BY <1>1, <1>2, <1>8, SettledAlike DEF RecordSteps, LastSteps, StatusAfter, TerminalEvent
  <2> HIDE DEF now
  <2> QED BY <1>3, <1>4, <1>5, <2>1, <2>2 DEF Agree, now, e, y
<1> QED BY <1>6, <1>7, <1>8

------------------------------------------------------------------------------
(***************************************************************************)
(* What a step adds to the log of a run: nothing, the events of an item,   *)
(* one event that moves the run, or, when a store write failed, some       *)
(* events, of which the last may have ended the run, and run.failed.       *)
(* While no write has failed the tables recorded the same events.          *)
(***************************************************************************)
Adds(r, es) ==
    \/ es = <<>> /\ UNCHANGED status
    \/ status[r] = "running" /\ es \in Seq(WorkEvent) /\ UNCHANGED status
    \/ /\ status[r] \notin TERMINAL_STATUSES
       /\ \E type \in {"hitl.required", "hitl.resolved"} \cup TerminalEvent :
            /\ es = <<Event(type)>>
            /\ status' = [status EXCEPT ![r] = StatusAfter(type)]
    \/ /\ faults' > 0
       /\ status[r] = "running" /\ status' = [status EXCEPT ![r] = "failed"]
       /\ \E front \in Seq(SentEvent) :
            EndsLast(front) /\ es = front \o <<Event("run.failed")>>

\* The rows of the other runs are as they were.
OthersKept(r) ==
    \A q \in Run \ {r} : db'.step[q] = db.step[q] /\ db'.run[q] = db.run[q]

Logged(r) ==
    /\ Known(r)
    /\ \E es \in Seq(RunEvent) :
        /\ events' = [events EXCEPT ![r] = @ \o es]
        /\ faults' = 0 => db' = RecordAll(r, es)
        /\ Adds(r, es)
    /\ faults' \in Nat /\ faults' >= faults
    /\ OthersKept(r)

\* The parts of Logged make a logged step.
LEMMA LoggedIntro ==
    ASSUME NEW r \in Run, Known(r), NEW es \in Seq(RunEvent),
           events' = [events EXCEPT ![r] = @ \o es],
           faults' = 0 => db' = RecordAll(r, es), Adds(r, es),
           faults' \in Nat, faults' >= faults, OthersKept(r)
    PROVE  Logged(r)
BY Zenon DEF Logged

\* The events of items are of these kinds.
LEMMA TaskEventsWork ==
    ASSUME NEW r, NEW n \in StartNodes
    PROVE  TaskEvents(r, n) \in Seq(WorkEvent)
<1> DEFINE e == StepEvent("step.started", StartStep[n], NoOutcome)
<1>1. e \in WorkEvent
  BY StepTables, NoOutcomeTyped
     DEF StepEvent, WorkEvent, RunEvent, EventType, Step, NoStep
<1>2. <<e>> \in Seq(WorkEvent) /\ <<>> \in Seq(WorkEvent)
  BY <1>1
<1> HIDE DEF e
<1> QED BY <1>2 DEF TaskEvents, e

\* A step event is the event of an item.
LEMMA StepEventWork ==
    ASSUME NEW type \in {"step.started", "step.progress", "step.completed"},
           NEW s \in Step, NEW o \in GraphStatus
    PROVE  StepEvent(type, s, o) \in WorkEvent
BY DEF StepEvent, WorkEvent, RunEvent, EventType, Step, NoStep

\* What a stream update logs are events of work.
LEMMA UpdateEventsWork ==
    ASSUME NEW r, NEW n, NEW gs \in GraphStatus, NEW revised \in BOOLEAN
    PROVE  UpdateEvents(r, n, gs, revised) \in Seq(WorkEvent)
<1> DEFINE a == TitleEvents(n, revised)
           b == ProgressEvents(n, gs)
           c == CompletionEvents(r, n, gs)
           d == ReportEvents(r, n)
<1>1. a \in Seq(WorkEvent)
  <2> DEFINE u == Event("conversation.updated")
             v == Event("requirement.revised")
  <2>1. u \in WorkEvent /\ v \in WorkEvent
    BY DEF Event, WorkEvent, RunEvent, EventType, NoStep, NoOutcome, GraphStatus
  <2>2. <<u>> \in Seq(WorkEvent) /\ <<u, v>> \in Seq(WorkEvent) /\ <<>> \in Seq(WorkEvent)
    BY <2>1
  <2> HIDE DEF u, v
  <2> QED BY <2>2 DEF TitleEvents, u, v
<1>2. b \in Seq(WorkEvent)
  <2> DEFINE p == StepEvent("step.progress", "parallel_assessment", NoOutcome)
             q == StepEvent("step.progress", "build_dimensions", gs)
  <2>1. p \in WorkEvent /\ q \in WorkEvent
    BY NoOutcomeTyped, StepEventWork DEF Step
  <2>2. <<p>> \in Seq(WorkEvent) /\ <<q>> \in Seq(WorkEvent) /\ <<>> \in Seq(WorkEvent)
    BY <2>1
  <2> HIDE DEF p, q
  <2> QED BY <2>2 DEF ProgressEvents, p, q
<1>3. c \in Seq(WorkEvent)
  <2>1. CASE NewlyCompleted(r, n) = {}
    BY <2>1 DEF CompletionEvents
  <2>2. CASE NewlyCompleted(r, n) # {}
    <3> DEFINE s == CompletionStep[n]
               p == StepEvent("step.started", s, NoOutcome)
               q == StepEvent("step.completed", s, gs)
    <3>1. n \in CompletionNodes
      BY <2>2 DEF NewlyCompleted
    <3>2. p \in WorkEvent /\ q \in WorkEvent
      BY <3>1, StepTables, NoOutcomeTyped, StepEventWork
    <3> HIDE DEF p, q
    <3> DEFINE x == <<>> \o <<q>>
               y == <<p>> \o <<q>>
    <3>3. x \in Seq(WorkEvent) /\ y \in Seq(WorkEvent)
      BY <3>2
    <3>4. c = x \/ c = y
      BY <2>2 DEF CompletionEvents, p, q
    <3> HIDE DEF x, y, c
    <3> QED BY <3>3, <3>4
  <2> QED BY <2>1, <2>2
<1>4. d \in Seq(WorkEvent)
  <2> DEFINE u == Event("report.completed")
  <2>1. u \in WorkEvent
    BY DEF Event, WorkEvent, RunEvent, EventType, NoStep, NoOutcome, GraphStatus
  <2>2. <<u>> \in Seq(WorkEvent) /\ <<>> \in Seq(WorkEvent)
    BY <2>1
  <2> HIDE DEF u
  <2> QED BY <2>2 DEF ReportEvents, u
<1> HIDE DEF a, b, c, d
<1>5. a \o b \o c \o d \in Seq(WorkEvent)
  BY <1>1, <1>2, <1>3, <1>4
<1> QED BY <1>5 DEF UpdateEvents, a, b, c, d

\* A handler of one run leaves the rows of the others alone.
LEMMA HandlersKeepOthers ==
    ASSUME IInv, StoreInv, NEW r \in Run, TaskStep(r) \/ ResumeRun(r) \/ CancelRun(r)
    PROVE  OthersKept(r)
<1>1. Stored(r) \/ UNCHANGED db
  BY TaskStored, ResumeStored, CancelStored
<1> QED BY <1>1 DEF Stored, Since, OthersKept

\* A handler that emits one event, recorded or not.
LEMMA SingleLogged ==
    ASSUME IInv, faults \in Nat, NEW r \in Run, Known(r), status[r] \notin TERMINAL_STATUSES,
           NEW type \in {"hitl.required", "hitl.resolved"} \cup TerminalEvent,
           events' = [events EXCEPT ![r] = @ \o <<Event(type)>>],
           status' = [status EXCEPT ![r] = StatusAfter(type)],
           (db' = RecordAll(r, <<Event(type)>>) /\ UNCHANGED faults) \/ faults' = faults + 1,
           OthersKept(r)
    PROVE  Logged(r)
<1> DEFINE e == Event(type)
           es == <<e>>
<1>1. e \in RunEvent
  BY EventTyped DEF EventType
<1>2. es \in Seq(RunEvent)
  <2> HIDE DEF e
  <2> QED BY <1>1
<1>3. /\ events' = [events EXCEPT ![r] = @ \o es] /\ (faults' = 0 => db' = RecordAll(r, es))
      /\ faults' \in Nat /\ faults' >= faults
  OBVIOUS
<1>4. Adds(r, es)
  BY DEF Adds
<1> HIDE DEF es
<1> QED BY <1>2, <1>3, <1>4, LoggedIntro

\* The except branch: nothing failed to be recorded only if the item that
\* raised had shown nothing.
LEMMA FailureLogged ==
    ASSUME IInv, faults \in Nat, NEW r \in Run, task[r] = "running",
           NEW es \in Seq(SentEvent), EndsLast(es), NEW k \in 0..Len(es),
           FailsAfter(r, es, k), k < Len(es) \/ es = <<>>, OthersKept(r)
    PROVE  Logged(r)
<1> DEFINE left == IF k < Len(es) THEN 1 ELSE 0
           failed == Event("run.failed")
           front == SubSeq(es, 1, k + left)
           added == front \o <<failed>>
<1>1. failed \in RunEvent /\ failed \in SentEvent
  BY EventTyped DEF EventType, TerminalEvent, SentEvent, Event
<1>2. k + left \in 0..Len(es) /\ left \in {0, 1} /\ (left = 0 => es = <<>> /\ k = 0)
  OBVIOUS
<1>3. front \in Seq(SentEvent) /\ EndsLast(front)
  <2>1. \A i \in 1..(k + left) : es[i] \in SentEvent /\ i \in 1..Len(es)
    BY <1>2
  <2> HIDE DEF left
  <2>2. /\ front \in Seq(SentEvent) /\ Len(front) = k + left
        /\ \A i \in 1..(k + left) : front[i] = es[i]
    BY <1>2, <2>1, SubSeqProperties
  <2>3. Len(es) \in Nat /\ k + left \in Nat /\ k + left <= Len(es)
    BY <1>2
  <2> HIDE DEF front
  <2>4. ASSUME NEW i \in 1..Len(front), front[i].type \in TerminalEvent
        PROVE  i = Len(front) /\ front[i].type # "run.cancelled"
    <3>1. i \in 1..Len(es) /\ i <= k + left /\ front[i] = es[i]
      BY <2>1, <2>2, <2>4
    <3>2. i = Len(es) /\ es[i].type # "run.cancelled"
      BY <2>4, <3>1 DEF EndsLast
    <3> QED BY <2>2, <2>3, <3>1, <3>2
  <2> QED BY <2>2, <2>4 DEF EndsLast
<1>4. added \in Seq(RunEvent)
  <2>1. front \in Seq(RunEvent)
    <3> HIDE DEF front
    <3> QED BY <1>3 DEF SentEvent, WorkEvent
  <2> HIDE DEF front, failed
  <2> QED BY <1>1, <2>1
<1>5. PICK lost \in {0, 1} :
        /\ faults' = faults + left + lost
        /\ db' = RecordAll(r, SubSeq(es, 1, k) \o IF lost = 0 THEN <<failed>> ELSE <<>>)
  BY Zenon DEF FailsAfter
<1>6. /\ status' = [status EXCEPT ![r] = "failed"]
      /\ events' = [events EXCEPT ![r] = @ \o front \o <<failed>>]
  BY Zenon DEF FailsAfter
<1>7. events' = [events EXCEPT ![r] = @ \o added]
  <2> DEFINE log == events[r]
  <2>1. log \in Seq(RunEvent) /\ front \in Seq(RunEvent) /\ <<failed>> \in Seq(RunEvent)
    <3>1. log \in Seq(RunEvent)
      BY RunTyped
    <3> HIDE DEF front, failed
    <3> QED BY <1>1, <1>3, <3>1 DEF SentEvent, WorkEvent
  <2> DEFINE one == <<failed>>
  <2> HIDE DEF front, failed, log, one
  <2>2. log \o front \o one = log \o (front \o one)
    BY <2>1 DEF one
  <2> QED BY <1>6, <2>2 DEF log, one
<1>8. Known(r) /\ status[r] = "running" /\ status[r] \notin TERMINAL_STATUSES
  BY TaskRuns DEF TERMINAL_STATUSES
<1>9. CASE left = 0 /\ lost = 0
  <2>1. SubSeq(es, 1, k) = <<>> /\ front = <<>>
    BY <1>2, <1>9
  <2>2. <<>> \o <<failed>> = <<failed>>
    <3> HIDE DEF failed
    <3> QED OBVIOUS
  <2>3. db' = RecordAll(r, <<failed>>) /\ faults' = faults
    <3>1. (IF lost = 0 THEN <<failed>> ELSE <<>>) = <<failed>> /\ faults + left + lost = faults
      BY <1>9
    <3>2. SubSeq(es, 1, k) \o (IF lost = 0 THEN <<failed>> ELSE <<>>) = <<failed>>
      BY <2>1, <2>2, <3>1, Zenon
    <3> QED BY <1>5, <3>1, <3>2, Zenon
  <2>4. "run.failed" \in TerminalEvent /\ StatusAfter("run.failed") = "failed"
    BY DEF TerminalEvent, StatusAfter
  <2>5. events' = [events EXCEPT ![r] = @ \o <<failed>>]
    BY <1>7, <2>1, <2>2
  <2> QED BY <1>6, <1>8, <2>3, <2>4, <2>5, SingleLogged
<1>10. CASE ~(left = 0 /\ lost = 0)
  <2>1. faults' \in Nat /\ faults' > 0 /\ faults' >= faults
    BY <1>2, <1>5, <1>10
  <2>2. Adds(r, added)
    <3> HIDE DEF front
    <3> QED BY <1>3, <1>6, <1>8, <2>1 DEF Adds
  <2> HIDE DEF added
  <2>3. faults' = 0 => db' = RecordAll(r, added)
    BY <2>1
  <2> QED BY <1>4, <1>7, <1>8, <2>1, <2>2, <2>3, LoggedIntro
<1> QED BY <1>9, <1>10

\* record() raised in the middle of the events of an item.
LEMMA BreaksLogged ==
    ASSUME IInv, faults \in Nat, NEW r \in Run, task[r] = "running",
           NEW es \in Seq(SentEvent), EndsLast(es), Breaks(r, es), OthersKept(r)
    PROVE  Logged(r)
<1>1. PICK k \in 1..Len(es) : FailsAfter(r, es, k - 1)
  BY DEF Breaks
<1>2. k - 1 \in 0..Len(es) /\ k - 1 < Len(es)
  BY <1>1
<1> QED BY <1>1, <1>2, FailureLogged

\* An item is shown, or breaks.
LEMMA ItemLogged ==
    ASSUME IInv, faults \in Nat, NEW r \in Run, task[r] = "running",
           NEW es \in Seq(WorkEvent),
           (Shows(r, es) /\ UNCHANGED status) \/ Breaks(r, es), OthersKept(r)
    PROVE  Logged(r)
<1>1. es \in Seq(SentEvent) /\ es \in Seq(RunEvent) /\ EndsLast(es)
  <2>1. \A i \in 1..Len(es) : es[i].type \notin TerminalEvent
    BY DEF WorkEvent, TerminalEvent
  <2> QED BY <2>1 DEF SentEvent, WorkEvent, EndsLast
<1>2. CASE Shows(r, es) /\ UNCHANGED status
  <2>1. Known(r) /\ status[r] = "running"
    BY TaskRuns
  <2>2. Adds(r, es)
    BY <1>2, <2>1 DEF Adds
  <2>3. /\ events' = [events EXCEPT ![r] = @ \o es] /\ db' = RecordAll(r, es)
        /\ faults' \in Nat /\ faults' >= faults
    BY <1>2 DEF Shows
  <2> QED BY <1>1, <2>1, <2>2, <2>3, LoggedIntro
<1>3. CASE Breaks(r, es)
  BY <1>1, <1>3, BreaksLogged
<1> QED BY <1>2, <1>3

\* What the manager does for a run, but for creating it, is logged so.
LEMMA TaskLogged ==
    ASSUME IInv, StoreInv, faults \in Nat, NEW r \in Run, TaskStep(r)
    PROVE  Logged(r)
<1>1. OthersKept(r)
  BY HandlersKeepOthers
<1>2. CASE StartNode(r)
  <2> DEFINE n == graph[r].at[1]
             es == TaskEvents(r, n)
  <2>1. task[r] = "running" /\ n \in StartNodes
    BY <1>2, RunTyped DEF StartNode, Reads, PlaceOK
  <2>2. es \in Seq(WorkEvent)
    BY <2>1, TaskEventsWork
  <2>3. (Shows(r, es) /\ UNCHANGED status) \/ Breaks(r, es)
    BY <1>2, Zenon DEF StartNode
  <2> HIDE DEF n, es
  <2> QED BY <1>1, <2>1, <2>2, <2>3, ItemLogged
<1>3. CASE UpdateNode(r)
  <2>1. PICK e \in Edges, revised \in BOOLEAN :
            \/ Shows(r, UpdateEvents(r, e[1], e[2], revised)) /\ UNCHANGED status
            \/ Breaks(r, UpdateEvents(r, e[1], e[2], revised))
    BY <1>3, Zenon DEF UpdateNode
  <2> DEFINE es == UpdateEvents(r, e[1], e[2], revised)
  <2>2. es \in Seq(WorkEvent)
    BY EdgesTyped, UpdateEventsWork
  <2>3. task[r] = "running"
    BY <1>3 DEF UpdateNode, Reads
  <2> HIDE DEF es
  <2> QED BY <1>1, <2>1, <2>2, <2>3, ItemLogged DEF es
<1>4. CASE Ask(r)
  <2> DEFINE e == Event("hitl.required")
             es == <<e>>
  <2>1. /\ task[r] = "running"
        /\ \/ Shows(r, es) /\ status' = [status EXCEPT ![r] = "waiting_input"]
           \/ Breaks(r, es)
    BY <1>4, Zenon DEF Ask, Reads
  <2>2. Known(r) /\ status[r] \notin TERMINAL_STATUSES
    BY <2>1, TaskRuns DEF TERMINAL_STATUSES
  <2>3. CASE Shows(r, es) /\ status' = [status EXCEPT ![r] = "waiting_input"]
    <3>1. StatusAfter("hitl.required") = "waiting_input"
      BY DEF StatusAfter
    <3> QED BY <1>1, <2>2, <2>3, <3>1, SingleLogged DEF Shows
  <2>4. CASE Breaks(r, es)
    <3>1. e \in SentEvent
      BY EventTyped DEF EventType, SentEvent, Event
    <3> HIDE DEF e
    <3>2. es \in Seq(SentEvent)
      BY <3>1
    <3>3. EndsLast(es)
      <4>1. e \in RunEvent /\ e.type # "run.cancelled"
        BY EventTyped DEF EventType, e
      <4> QED BY <4>1, SingleEndsLast
    <3> HIDE DEF es
    <3> QED BY <1>1, <2>1, <2>4, <3>2, <3>3, BreaksLogged
  <2> QED BY <2>1, <2>3, <2>4
<1>5. CASE StreamEnds(r)
  <2> DEFINE final == IF shown[r].graphStatus \in FAILED_GRAPH_STATUSES
                      THEN "failed" ELSE "completed"
             type == IF final = "failed" THEN "run.failed" ELSE "run.completed"
             e == Event(type)
             es == <<e>>
  <2>1. /\ task[r] = "running"
        /\ \/ Shows(r, es) /\ status' = [status EXCEPT ![r] = final]
           \/ Breaks(r, es)
    BY <1>5, Zenon DEF StreamEnds
  <2>2. type \in TerminalEvent \ {"run.cancelled"} /\ final = StatusAfter(type)
    BY DEF TerminalEvent, StatusAfter
  <2> HIDE DEF final, type
  <2>3. Known(r) /\ status[r] \notin TERMINAL_STATUSES
    BY <2>1, TaskRuns DEF TERMINAL_STATUSES
  <2>4. CASE Shows(r, es) /\ status' = [status EXCEPT ![r] = final]
    BY <1>1, <2>2, <2>3, <2>4, SingleLogged DEF Shows
  <2>5. CASE Breaks(r, es)
    <3>1. e \in SentEvent
      BY <2>2, EventTyped DEF EventType, SentEvent, Event
    <3> HIDE DEF e
    <3>2. es \in Seq(SentEvent)
      BY <3>1
    <3>3. EndsLast(es)
      <4>1. e \in RunEvent /\ e.type # "run.cancelled"
        BY <2>2, EventTyped DEF EventType, e
      <4> QED BY <4>1, SingleEndsLast
    <3> HIDE DEF es
    <3> QED BY <1>1, <2>1, <2>5, <3>2, <3>3, BreaksLogged
  <2> QED BY <2>1, <2>4, <2>5
<1>6. CASE GraphRaises(r)
  <2> DEFINE es == <<>>
  <2>1. task[r] = "running" /\ FailsAfter(r, es, 0)
    BY <1>6 DEF GraphRaises
  <2>2. es \in Seq(SentEvent) /\ 0 \in 0..Len(es) /\ es = <<>> /\ EndsLast(es)
    BY DEF EndsLast
  <2> HIDE DEF es
  <2> QED BY <1>1, <2>1, <2>2, FailureLogged
<1>7. CASE Unwind(r)
  <2> DEFINE es == <<>>
             log == events[r]
  <2>1. Known(r)
    BY <1>7 DEF Unwind, IInv, RunsOK
  <2>2. log \in Seq(RunEvent) /\ es \in Seq(RunEvent) /\ es = <<>>
    BY RunTyped
  <2>3. log \o es = log
    BY <2>2
  <2>4. /\ UNCHANGED <<status, events, db, faults>>
        /\ events = [events EXCEPT ![r] = events[r]]
    BY <1>7, RunTyped DEF Unwind
  <2> HIDE DEF es
  <2>5. RecordAll(r, es) = db
    BY <2>2, RecordAllFew
  <2>6. events' = [events EXCEPT ![r] = @ \o es]
    BY <2>3, <2>4
  <2>7. Adds(r, es)
    BY <2>2, <2>4 DEF Adds
  <2>8. faults' \in Nat /\ faults' >= faults /\ (faults' = 0 => db' = RecordAll(r, es))
    BY <2>4, <2>5
  <2> QED BY <1>1, <2>1, <2>2, <2>6, <2>7, <2>8, LoggedIntro
<1> QED BY <1>2, <1>3, <1>4, <1>5, <1>6, <1>7 DEF TaskStep

\* The answer and the cancellation.
LEMMA ClientLogged ==
    ASSUME IInv, StoreInv, faults \in Nat, NEW r \in Run, ResumeRun(r) \/ CancelRun(r)
    PROVE  Logged(r)
<1>1. OthersKept(r)
  BY HandlersKeepOthers
<1>2. ASSUME NEW type \in {"hitl.resolved", "run.cancelled"},
             Shows(r, <<Event(type)>>) \/
                (/\ faults' = faults + 1 /\ UNCHANGED db
                 /\ events' = [events EXCEPT ![r] = Append(@, Event(type))])
      PROVE  /\ events' = [events EXCEPT ![r] = @ \o <<Event(type)>>]
             /\ (db' = RecordAll(r, <<Event(type)>>) /\ UNCHANGED faults) \/ faults' = faults + 1
  <2> DEFINE log == events[r]
             e == Event(type)
  <2>1. log \in Seq(RunEvent)
    BY RunTyped
  <2> HIDE DEF e, log
  <2>2. Append(log, e) = log \o <<e>>
    BY <2>1
  <2> QED BY <1>2, <2>2 DEF Shows, log, e
<1>3. CASE ResumeRun(r)
  <2>1. /\ status[r] = "waiting_input" /\ status' = [status EXCEPT ![r] = "running"]
        /\ Shows(r, <<Event("hitl.resolved")>>) \/
                (/\ faults' = faults + 1 /\ UNCHANGED db
                 /\ events' = [events EXCEPT ![r] = Append(@, Event("hitl.resolved"))])
    BY <1>3, Zenon DEF ResumeRun, Answerable
  <2>2. /\ Known(r) /\ status[r] \notin TERMINAL_STATUSES
        /\ StatusAfter("hitl.resolved") = "running"
    BY <2>1 DEF Known, RunStatus, TERMINAL_STATUSES, StatusAfter
  <2> QED BY <1>1, <1>2, <2>1, <2>2, SingleLogged
<1>4. CASE CancelRun(r)
  <2>1. /\ status[r] \in RunStatus \ TERMINAL_STATUSES
        /\ status' = [status EXCEPT ![r] = "cancelled"]
        /\ Shows(r, <<Event("run.cancelled")>>) \/
                (/\ faults' = faults + 1 /\ UNCHANGED db
                 /\ events' = [events EXCEPT ![r] = Append(@, Event("run.cancelled"))])
    BY <1>4, Zenon DEF CancelRun, Cancellable
  <2>2. /\ Known(r) /\ status[r] \notin TERMINAL_STATUSES
        /\ StatusAfter("run.cancelled") = "cancelled" /\ "run.cancelled" \in TerminalEvent
    BY <2>1 DEF Known, TERMINAL_STATUSES, StatusAfter, TerminalEvent
  <2> QED BY <1>1, <1>2, <2>1, <2>2, SingleLogged
<1> QED BY <1>3, <1>4

------------------------------------------------------------------------------
(***************************************************************************)
(* The invariant: from whatever turns a page started, what it receives of  *)
(* the log of a run gives a view that follows the run or, when a store     *)
(* write has failed, shows a failed run as completed; and while none has   *)
(* failed, the view agrees with the tables.  A run not created yet has no  *)
(* step in them.                                                           *)
(***************************************************************************)
Displays(v, r, turns) ==
    \/ v \in Followed(r, status[r], turns)
    \/ v \in Followed(r, "completed", turns) /\ status[r] = "failed" /\ faults > 0

PageRun(r) ==
    \A turns \in [Run -> Turn] :
        /\ Displays(RunView(r, turns), r, turns)
        /\ faults = 0 => Agree(db, r, RunView(r, turns))

PageInv ==
    /\ faults \in Nat
    /\ \A r \in Run : status[r] = "absent" => db.step[r] = NoTurn.steps
    /\ \A r \in Run : Known(r) => PageRun(r)

\* What a logged step makes of the view of its run.
LEMMA LoggedView ==
    ASSUME IInv, StoreInv, PageInv, NEW r \in Run, Logged(r)
    PROVE  PageRun(r)'
<1>1. PICK es \in Seq(RunEvent) :
        /\ events' = [events EXCEPT ![r] = @ \o es]
        /\ faults' = 0 => db' = RecordAll(r, es)
        /\ Adds(r, es)
  BY Zenon DEF Logged
<1>2. /\ Known(r) /\ status[r] \in RunStatus /\ faults' \in Nat /\ faults' >= faults
      /\ faults \in Nat /\ PageRun(r)
      /\ status \in [Run -> RunStatus \cup {"absent", "lost"}]
      /\ events \in [Run -> Seq(RunEvent)]
  BY DEF Logged, Known, PageInv, IInv, FieldsTyped
<1>3. status[r] \notin TERMINAL_STATUSES => db \in Consistent /\ IsLatest(db, r)
  BY <1>2, ActiveRun
<1> SUFFICES ASSUME NEW turns \in [Run -> Turn]
             PROVE  /\ Displays(RunView(r, turns), r, turns)'
                    /\ faults' = 0 => Agree(db', r, RunView(r, turns)')
  BY DEF PageRun, Displays, Followed, ViewsOf, Agree
<1> DEFINE log == events[r]
           start == StartView(r, turns)
           v0 == ViewAfter(start, r, Received(log))
           v1 == ViewAfter(start, r, Received(log \o es))
<1>4. /\ Displays(v0, r, turns)
      /\ faults = 0 => Agree(db, r, v0)
  BY <1>2 DEF PageRun, RunView
<1>5. log \in Seq(RunEvent) /\ events'[r] = log \o es
  BY <1>1, <1>2
<1>6. RunView(r, turns)' = v1
  BY <1>5 DEF RunView, StartView, InitialView
<1>7. faults' = 0 => faults = 0
  BY <1>2
<1> SUFFICES /\ \/ v1 \in Followed(r, status'[r], turns)
                \/ v1 \in Followed(r, "completed", turns) /\ status'[r] = "failed" /\ faults' > 0
             /\ faults' = 0 => Agree(db', r, v1)
  BY <1>6 DEF Displays, Followed, ViewsOf
<1>8. status[r] \notin TERMINAL_STATUSES =>
        /\ v0 \in Followed(r, status[r], turns) /\ v0 \in ViewsOf(r, turns)
        /\ Open(log) /\ v0 = ViewAfter(start, r, log)
  <2> SUFFICES ASSUME status[r] \notin TERMINAL_STATUSES
               PROVE  /\ v0 \in Followed(r, status[r], turns) /\ v0 \in ViewsOf(r, turns)
                      /\ Open(log) /\ v0 = ViewAfter(start, r, log)
    OBVIOUS
  <2>1. v0 \in Followed(r, status[r], turns) /\ v0 \in ViewsOf(r, turns)
    <3> HIDE DEF v0
    <3> QED BY <1>4 DEF Displays, Followed, TERMINAL_STATUSES
  <2>2. LogOK(status[r], log)
    BY <1>2, RunTyped DEF RunOK
  <2>3. Open(log)
    BY <1>5, <2>2, EndingOf DEF Open
  <2>4. Received(log) = log
    BY <2>3, ReceivedOpen
  <2> QED BY <2>1, <2>3, <2>4
<1> HIDE DEF log, start, v0, v1
<1>9. CASE es = <<>> /\ UNCHANGED status
  <2>1. v1 = v0
    <3>1. log \o es = log
      BY <1>5, <1>9
    <3> QED BY <3>1 DEF v0, v1
  <2>2. RecordAll(r, es) = db
    BY <1>9, RecordAllFew
  <2>3. faults > 0 => faults' > 0
    BY <1>2
  <2> QED BY <1>1, <1>4, <1>7, <1>9, <2>1, <2>2, <2>3 DEF Displays
<1>10. CASE status[r] = "running" /\ es \in Seq(WorkEvent) /\ UNCHANGED status
  <2>1. /\ v0 \in Followed(r, "running", turns) /\ "running" \notin TERMINAL_STATUSES
        /\ Open(log) /\ v0 = ViewAfter(start, r, log)
    BY <1>8, <1>10 DEF TERMINAL_STATUSES
  <2>2. v1 = ViewAfter(start, r, log \o es)
    <3>1. es \in Seq(RunEvent) /\ Open(es)
      BY <1>10 DEF WorkEvent, Open, TerminalEvent
    <3>2. Open(log \o es)
      BY <1>5, <2>1, <3>1, OpenConcat
    <3> QED BY <3>2, ReceivedOpen DEF v1
  <2>3. v1 \in Followed(r, "running", turns)
    <3> DEFINE D == Followed(r, "running", turns)
    <3>1. \A v \in D : \A i \in 1..Len(es) : ReduceRunEvent(v, r, es[i]) \in D
      <4>1. \A i \in 1..Len(es) : es[i] \in WorkEvent
        BY <1>10
      <4> QED BY <4>1, WorkFollowed
    <3> HIDE DEF D
    <3> QED BY <1>5, <2>1, <2>2, <3>1, ViewAfterKeeps DEF D
  <2>4. ASSUME faults' = 0 PROVE Agree(db', r, v1)
    <3>1. Agree(db, r, v0) /\ db \in Consistent /\ IsLatest(db, r) /\ db' = RecordAll(r, es)
      BY <1>1, <1>3, <1>4, <1>7, <1>10, <2>1, <2>4
    <3> QED BY <1>5, <1>10, <2>1, <2>2, <3>1, WorkAllAgrees
  <2> QED BY <1>10, <2>3, <2>4
<1>11. ASSUME status[r] \notin TERMINAL_STATUSES,
              NEW type \in {"hitl.required", "hitl.resolved"} \cup TerminalEvent,
              es = <<Event(type)>>, status' = [status EXCEPT ![r] = StatusAfter(type)]
       PROVE  v1 \in Followed(r, status'[r], turns) /\ (faults' = 0 => Agree(db', r, v1))
  <2> DEFINE e == Event(type)
  <2>1. e \in RunEvent
    BY EventTyped DEF EventType
  <2>2. v1 = ReduceRunEvent(v0, r, e)
    <3> HIDE DEF e
    <3>1. Received(log \o <<e>>) = log \o <<e>>
      BY <1>5, <1>8, <1>11, <2>1, ReceivedSingle
    <3>2. v1 = ViewAfter(start, r, log \o <<e>>)
      BY <1>11, <3>1 DEF v1, e
    <3> QED BY <1>5, <1>8, <1>11, <2>1, <3>2, ViewAfterAppend
  <2>3. status'[r] = StatusAfter(type)
    BY <1>2, <1>11
  <2>4. ReduceRunEvent(v0, r, e) \in Followed(r, StatusAfter(type), turns)
    <3>1. CASE type = "hitl.required"
      BY <1>8, <1>11, <3>1, AskedFollowed DEF StatusAfter
    <3>2. CASE type = "hitl.resolved"
      BY <1>8, <1>11, <3>2, AnsweredFollowed DEF StatusAfter
    <3>3. CASE type \in TerminalEvent
      BY <1>8, <1>11, <3>3, EndFollowed
    <3> QED BY <3>1, <3>2, <3>3
  <2>5. ASSUME faults' = 0 PROVE Agree(db', r, v1)
    <3>1. Agree(db, r, v0) /\ db \in Consistent /\ IsLatest(db, r) /\ db' = RecordAll(r, <<e>>)
      BY <1>1, <1>3, <1>4, <1>7, <1>11, <2>5
    <3>2. Agree(RecordAll(r, <<e>>), r, ReduceRunEvent(v0, r, e))
      BY <1>8, <1>11, <3>1, SingleAgrees
    <3> QED BY <2>2, <3>1, <3>2
  <2> QED BY <2>2, <2>3, <2>4, <2>5
<1>12. ASSUME faults' > 0, status[r] = "running", status' = [status EXCEPT ![r] = "failed"],
              NEW front \in Seq(SentEvent), EndsLast(front),
              es = front \o <<Event("run.failed")>>
       PROVE  /\ \/ v1 \in Followed(r, status'[r], turns)
                 \/ /\ v1 \in Followed(r, "completed", turns)
                    /\ status'[r] = "failed" /\ faults' > 0
              /\ faults' = 0 => Agree(db', r, v1)
  <2> DEFINE failed == Event("run.failed")
  <2>1. /\ failed \in RunEvent /\ failed \in SentEvent /\ failed.type = "run.failed"
        /\ "run.failed" \in TerminalEvent
    BY EventTyped DEF EventType, TerminalEvent, SentEvent, Event
  <2>2. status'[r] = "failed" /\ v0 \in ViewsOf(r, turns) /\ Open(log)
        /\ v0 = ViewAfter(start, r, log)
    BY <1>2, <1>8, <1>12 DEF TERMINAL_STATUSES
  <2> HIDE DEF failed
  <2>3. log \o es = log \o front \o <<failed>>
    <3> DEFINE one == <<failed>>
    <3>1. front \in Seq(RunEvent) /\ one \in Seq(RunEvent)
      BY <2>1 DEF SentEvent, WorkEvent
    <3> HIDE DEF one
    <3>2. log \o (front \o one) = (log \o front) \o one
      BY <1>5, <3>1
    <3> QED BY <1>12, <3>2 DEF one, failed
  <2>4. PICK before \in Seq(SentEvent), e \in SentEvent :
            /\ e.type \in TerminalEvent \ {"run.cancelled"}
            /\ Received(log \o es) = log \o before \o <<e>>
    <3>1. CASE Received(log \o es) = log \o front \o <<failed>>
      <4>1. failed.type \in TerminalEvent \ {"run.cancelled"}
        BY <2>1
      <4> QED BY <2>1, <3>1, <4>1
    <3>2. CASE Received(log \o es) # log \o front \o <<failed>>
      <4>1. \/ Received(log \o front \o <<failed>>) = log \o front \o <<failed>>
            \/ \E before \in Seq(SentEvent), e \in SentEvent :
                /\ e.type \in TerminalEvent \ {"run.cancelled"}
                /\ Received(log \o front \o <<failed>>) = log \o before \o <<e>>
        BY <1>5, <1>12, <2>1, <2>2, ReceivedFailed
      <4> QED BY <2>3, <3>2, <4>1
    <3> QED BY <3>1, <3>2
  <2> DEFINE v == ViewAfter(start, r, log \o before)
  <2>5. before \in Seq(RunEvent) /\ \A i \in 1..Len(before) : before[i] \in SentEvent
    BY DEF SentEvent, WorkEvent
  <2>6. v \in ViewsOf(r, turns)
    <3> DEFINE D == ViewsOf(r, turns)
    <3>1. \A x \in D : \A i \in 1..Len(before) : ReduceRunEvent(x, r, before[i]) \in D
      BY <2>5, ReduceTyped
    <3> HIDE DEF D
    <3> QED BY <1>5, <2>2, <2>5, <3>1, ViewAfterKeeps DEF D
  <2>7. v1 = ReduceRunEvent(v, r, e)
    <3> DEFINE l == log \o before
    <3>1. l \in Seq(RunEvent) /\ e \in RunEvent
      BY <1>5, <2>5 DEF SentEvent, WorkEvent
    <3> HIDE DEF l
    <3>2. ViewAfter(start, r, l \o <<e>>) = ReduceRunEvent(ViewAfter(start, r, l), r, e)
      BY <3>1, ViewAfterAppend
    <3> QED BY <2>4, <3>2 DEF v1, l
  <2> HIDE DEF v
  <2>8. ReduceRunEvent(v, r, e) \in Followed(r, StatusAfter(e.type), turns)
    BY <2>4, <2>6, LastFollowed
  <2>9. StatusAfter(e.type) \in {"failed", "completed"}
    BY <2>4 DEF StatusAfter, TerminalEvent
  <2> QED BY <1>12, <2>2, <2>7, <2>8, <2>9
<1> QED BY <1>1, <1>9, <1>10, <1>11, <1>12 DEF Adds

\* A run whose log and rows stay is shown as before.
LEMMA SameView ==
    ASSUME PageInv, NEW q \in Run, PageRun(q), faults' = 0 => faults = 0,
           faults > 0 => faults' > 0,
           status'[q] = status[q], events'[q] = events[q],
           db'.step[q] = db.step[q], db'.run[q] = db.run[q]
    PROVE  PageRun(q)'
<1> SUFFICES ASSUME NEW turns \in [Run -> Turn]
             PROVE  /\ Displays(RunView(q, turns), q, turns)'
                    /\ faults' = 0 => Agree(db', q, RunView(q, turns)')
  BY DEF PageRun, Displays, Followed, ViewsOf, Agree
<1>1. RunView(q, turns)' = RunView(q, turns)
  BY DEF RunView, StartView, InitialView
<1>2. /\ Displays(RunView(q, turns), q, turns)
      /\ faults = 0 => Agree(db, q, RunView(q, turns))
  BY DEF PageRun
<1>3. Agree(db, q, RunView(q, turns)) => Agree(db', q, RunView(q, turns))
  BY DEF Agree, HasRow
<1> QED BY <1>1, <1>2, <1>3 DEF Displays, Followed, ViewsOf

\* A step that only adds to logs, and records what it adds, keeps PageInv.
LEMMA LoggedPage ==
    ASSUME IInv, StoreInv, PageInv, NEW r \in Run, Logged(r)
    PROVE  PageInv'
<1>1. PageRun(r)'
  BY LoggedView
<1>2. /\ faults' \in Nat /\ Known(r)
      /\ faults' = 0 => faults = 0
      /\ faults > 0 => faults' > 0
      /\ \A q \in Run \ {r} : db'.step[q] = db.step[q] /\ db'.run[q] = db.run[q]
  BY DEF Logged, OthersKept, PageInv
<1>3. /\ \A q \in Run \ {r} : status'[q] = status[q] /\ events'[q] = events[q]
      /\ status'[r] # "absent"
  <2>1. \A q \in Run \ {r} : events'[q] = events[q]
    <3>1. PICK es : events' = [events EXCEPT ![r] = @ \o es]
      BY DEF Logged
    <3> QED BY <3>1 DEF IInv, FieldsTyped
  <2>2. \/ UNCHANGED status
        \/ \E type \in {"hitl.required", "hitl.resolved"} \cup TerminalEvent :
             status' = [status EXCEPT ![r] = StatusAfter(type)]
        \/ status' = [status EXCEPT ![r] = "failed"]
    <3>1. PICK es : Adds(r, es)
      BY DEF Logged
    <3> QED BY <3>1, Zenon DEF Adds
  <2>3. ASSUME NEW v, v # "absent", status' = [status EXCEPT ![r] = v]
        PROVE  (\A q \in Run \ {r} : status'[q] = status[q]) /\ status'[r] # "absent"
    BY <2>3 DEF IInv, FieldsTyped
  <2>4. \A type \in {"hitl.required", "hitl.resolved"} \cup TerminalEvent :
            StatusAfter(type) # "absent"
    BY DEF StatusAfter, TerminalEvent
  <2>5. status[r] # "absent"
    BY <1>2 DEF Known, RunStatus, TERMINAL_STATUSES
  <2> QED BY <2>1, <2>2, <2>3, <2>4, <2>5
<1>4. ASSUME NEW q \in Run, q # r, Known(q)' PROVE PageRun(q)'
  <2>1. Known(q)
    BY <1>3, <1>4 DEF Known
  <2>2. PageRun(q)
    BY <2>1 DEF PageInv
  <2> QED BY <1>2, <1>3, <1>4, <2>2, SameView
<1>5. ASSUME NEW q \in Run, status'[q] = "absent" PROVE db'.step[q] = NoTurn.steps
  BY <1>2, <1>3, <1>5 DEF PageInv
<1> QED BY <1>1, <1>2, <1>4, <1>5 DEF PageInv

\* A new run is shown as running, without steps; its row says the same.
LEMMA CreatePage ==
    ASSUME IInv, StoreInv, PageInv, NEW r \in Run, NEW c \in Conversation, CreateRun(r, c)
    PROVE  PageInv'
<1> DEFINE e == Event("run.started")
<1>1. /\ status[r] = "absent" /\ status' = [status EXCEPT ![r] = "running"]
      /\ events' = [events EXCEPT ![r] = <<e>>]
      /\ \/ db' = RecordStarted(r, c) /\ UNCHANGED faults
         \/ faults' = faults + 1 /\ UNCHANGED db
  BY Zenon DEF CreateRun
<1> HIDE DEF e
<1>2. /\ status'[r] = "running" /\ events'[r] = <<e>>
      /\ \A q \in Run \ {r} : status'[q] = status[q] /\ events'[q] = events[q]
  BY <1>1 DEF IInv, FieldsTyped
<1>3. /\ faults' \in Nat /\ (faults' = 0 => faults = 0 /\ db' = RecordStarted(r, c))
      /\ faults > 0 => faults' > 0
  BY <1>1 DEF PageInv
<1>4. db \in Consistent /\ ~HasRow(db, r) /\ db.step[r] = NoTurn.steps
  BY <1>1 DEF StoreInv, StoredOK, PageInv
<1>5. /\ db'.step = db.step /\ \A q \in Run \ {r} : db'.run[q] = db.run[q]
      /\ db' = RecordStarted(r, c) =>
            HasRow(db', r) /\ db'.run[r].status = "running" /\ ~db'.run[r].report
  <2>1. CASE UNCHANGED db
    <3>1. db' # RecordStarted(r, c)
      <4>1. HasRow(RecordStarted(r, c), r)
        BY <1>4, StartedKeeps
      <4> QED BY <1>4, <2>1, <4>1
    <3> QED BY <2>1, <3>1
  <2>2. CASE db' = RecordStarted(r, c)
    <3>1. /\ HasRow(db', r) /\ db'.run[r].status = "running"
          /\ \A q \in Run \ {r} : db'.run[q] = db.run[q]
      BY <1>4, <2>2, StartedKeeps
    <3>2. ~db'.run[r].report
      <4> DEFINE row == [status |-> "running", conv |-> c, turn |-> next_turn_no(c),
                         report |-> FALSE]
      <4>1. db'.run = [db.run EXCEPT ![r] = row]
        BY <2>2 DEF RecordStarted
      <4>2. ~row.report
        OBVIOUS
      <4>3. db.run \in [Run -> RunRow]
        BY <1>4 DEF Consistent, Tables
      <4> HIDE DEF row
      <4> QED BY <4>1, <4>2, <4>3
    <3>3. db'.step = db.step
      BY <2>2 DEF RecordStarted
    <3> QED BY <3>1, <3>2, <3>3
  <2> QED BY <1>1, <2>1, <2>2
<1>6. PageRun(r)'
  <2> SUFFICES ASSUME NEW turns \in [Run -> Turn]
               PROVE  /\ Displays(RunView(r, turns), r, turns)'
                      /\ faults' = 0 => Agree(db', r, RunView(r, turns)')
    BY DEF PageRun, Displays, Followed, ViewsOf, Agree
  <2> DEFINE v == ViewAfter(StartView(r, turns), r, <<e>>)
  <2>1. RunView(r, turns)' = v
    <3>1. Open(<<e>>)
      BY EventTyped DEF Open, e, Event, TerminalEvent
    <3>2. Received(<<e>>) = <<e>>
      BY <3>1, ReceivedOpen
    <3> QED BY <1>2, <3>2 DEF RunView, StartView, InitialView
  <2>2. v \in Followed(r, "running", turns) /\ v.steps = NoTurn.steps /\ ~v.report
    BY StartFollowed DEF e
  <2> HIDE DEF v
  <2>3. v.status = "running" /\ "running" \notin TERMINAL_STATUSES
    BY <2>2 DEF Followed, TERMINAL_STATUSES
  <2>4. faults' = 0 => Agree(db', r, v)
    BY <1>3, <1>4, <1>5, <2>2, <2>3 DEF Agree
  <2>5. Displays(RunView(r, turns), r, turns)'
    BY <1>2, <2>1, <2>2 DEF Displays, Followed, ViewsOf
  <2> QED BY <2>1, <2>4, <2>5
<1>7. ASSUME NEW q \in Run, q # r, Known(q)' PROVE PageRun(q)'
  <2>1. Known(q)
    BY <1>2, <1>7 DEF Known
  <2>2. PageRun(q)
    BY <2>1 DEF PageInv
  <2> QED BY <1>2, <1>3, <1>5, <1>7, <2>2, SameView
<1>8. ASSUME NEW q \in Run, status'[q] = "absent" PROVE db'.step[q] = NoTurn.steps
  BY <1>2, <1>5, <1>8 DEF PageInv
<1> QED BY <1>3, <1>6, <1>7, <1>8 DEF PageInv

\* A restart forgets the runs.
LEMMA RestartPage == ASSUME IInv, PageInv, Restart PROVE PageInv'
<1>1. \A r \in Run : ~Known(r)' /\ (status'[r] = "absent" => status[r] = "absent")
  BY DEF Restart, Known, RunStatus, TERMINAL_STATUSES, IInv, FieldsTyped
<1>2. db' = db /\ faults' = faults
  BY DEF Restart
<1> QED BY <1>1, <1>2 DEF PageInv

\* At first no run is known.
LEMMA InitPage == Init => PageInv
<1> SUFFICES ASSUME Init PROVE PageInv
  OBVIOUS
<1>1. faults \in Nat /\ \A r \in Run : ~Known(r)
  BY DEF Init, Known, RunStatus, TERMINAL_STATUSES
<1>2. \A r \in Run : db.step[r] = NoTurn.steps
  BY DEF Init, NoTurn
<1> QED BY <1>1, <1>2 DEF PageInv

\* Every step keeps the views and the tables so.
LEMMA NextPage == IInv /\ StoreInv /\ PageInv /\ [Next]_vars => PageInv'
<1> SUFFICES ASSUME IInv, StoreInv, PageInv, [Next]_vars PROVE PageInv'
  OBVIOUS
<1>1. CASE UNCHANGED vars
  <2>1. UNCHANGED <<status, events, db, faults>>
    BY <1>1 DEF vars, memory
  <2>2. \A r \in Run : Known(r)' <=> Known(r)
    BY <2>1 DEF Known
  <2>3. ASSUME NEW r \in Run, PageRun(r) PROVE PageRun(r)'
    BY <2>1, <2>3, SameView
  <2> QED BY <2>1, <2>2, <2>3 DEF PageInv
<1>2. ASSUME NEW r \in Run, TaskStep(r) PROVE PageInv'
  <2>1. Logged(r)
    BY <1>2, TaskLogged DEF PageInv
  <2> QED BY <2>1, LoggedPage
<1>3. ASSUME NEW r \in Run, ClientStep(r) PROVE PageInv'
  <2>1. CASE ResumeRun(r) \/ CancelRun(r)
    <3>1. Logged(r)
      BY <2>1, ClientLogged DEF PageInv
    <3> QED BY <3>1, LoggedPage
  <2>2. CASE \E c \in Conversation : CreateRun(r, c)
    BY <2>2, CreatePage
  <2> QED BY <1>3, <2>1, <2>2 DEF ClientStep
<1>4. CASE Restart
  BY <1>4, RestartPage
<1> QED BY <1>1, <1>2, <1>3, <1>4 DEF Next

(***************************************************************************)
(* In every behaviour, what a page receives of the log of a run shows the  *)
(* run as it is, but for a failed run whose run.completed was sent before  *)
(* the store refused it; and while no store write has failed the tables    *)
(* say the same of the run as the page.                                    *)
(***************************************************************************)
THEOREM PageInvariance == Spec => []PageInv
BY Invariance, StoreInvariance, InitPage, NextPage, PTL DEF Spec

------------------------------------------------------------------------------
\* Following the runs of a conversation.

\* The views after the first runs of rs, one after the other.
Follows(f, view, rs, m) ==
    f = [n \in 0..m |-> IF n = 0 THEN view ELSE FollowRun(f[n - 1], rs[n])]

\* There always are such views.
LEMMA FollowsExist ==
    ASSUME NEW view, NEW rs, NEW m \in Nat PROVE \E f : Follows(f, view, rs, m)
<1> DEFINE S == {n \in Nat : \E f : Follows(f, view, rs, n)}
<1>1. 0 \in S
  <2> DEFINE f == [n \in 0..0 |-> view]
  <2>1. f = [n \in 0..0 |-> IF n = 0 THEN view ELSE FollowRun(f[n - 1], rs[n])]
    OBVIOUS
  <2> QED BY <2>1, Zenon DEF Follows
<1>2. ASSUME NEW n \in Nat, n \in S PROVE n + 1 \in S
  <2>1. PICK f : Follows(f, view, rs, n)
    BY <1>2
  <2> DEFINE g == [i \in 0..(n + 1) |->
                     IF i = n + 1 THEN FollowRun(f[n], rs[n + 1]) ELSE f[i]]
  <2>2. \A i \in 0..n : f[i] = IF i = 0 THEN view ELSE FollowRun(f[i - 1], rs[i])
    BY <2>1 DEF Follows
  <2>3. \A i \in 0..(n + 1) : g[i] = IF i = 0 THEN view ELSE FollowRun(g[i - 1], rs[i])
    <3> SUFFICES ASSUME NEW i \in 0..(n + 1)
                 PROVE  g[i] = IF i = 0 THEN view ELSE FollowRun(g[i - 1], rs[i])
      OBVIOUS
    <3>1. CASE i = n + 1
      <4>1. i # 0 /\ i - 1 = n /\ n \in 0..(n + 1) /\ n # n + 1
        BY <3>1
      <4> QED BY <3>1, <4>1
    <3>2. CASE i # n + 1
      <4>1. i \in 0..n /\ g[i] = f[i]
        BY <3>2
      <4>2. i # 0 => i - 1 \in 0..n /\ i - 1 # n + 1 /\ i - 1 \in 0..(n + 1)
        BY <4>1
      <4>3. i # 0 => g[i - 1] = f[i - 1]
        BY <4>2
      <4> QED BY <2>2, <4>1, <4>3
    <3> QED BY <3>1, <3>2, Zenon
  <2>4. g = [i \in 0..(n + 1) |-> g[i]]
    OBVIOUS
  <2> HIDE DEF g
  <2>5. Follows(g, view, rs, n + 1)
    BY <2>3, <2>4 DEF Follows
  <2> QED BY <2>5
<1> QED
  <2> HIDE DEF S
  <2>1. Nat \subseteq S
    BY <1>1, <1>2, SetInduction
  <2> QED BY <2>1 DEF S

\* FollowRuns is the last of them.
LEMMA FollowRunsFollows ==
    ASSUME NEW view, NEW rs, Len(rs) \in Nat
    PROVE  \E f : Follows(f, view, rs, Len(rs)) /\ FollowRuns(view, rs) = f[Len(rs)]
<1> DEFINE m == Len(rs)
           P(f) == f = [n \in 0..m |-> IF n = 0 THEN view ELSE FollowRun(f[n - 1], rs[n])]
           g == CHOOSE f : P(f)
<1>1. \E f : P(f)
  <2>1. \E f : Follows(f, view, rs, Len(rs))
    BY FollowsExist
  <2> QED BY <2>1, Zenon DEF Follows
<1>2. P(g)
  BY <1>1, Zenon
<1>3. FollowRuns(view, rs) = g[m]
  BY Zenon DEF FollowRuns
<1> QED BY <1>2, <1>3, Zenon DEF Follows

\* The page that follows a run it can address shows the view of that run.
LEMMA FollowedView ==
    ASSUME NEW r \in Run, NEW view, Addressable(r)
    PROVE  FollowRun(view, r) = RunView(r, view.turns)
BY DEF FollowRun, RunView, StartView

\* Following a run keeps the turns typed.
LEMMA FollowTyped ==
    ASSUME PageInv, NEW r \in Run, Known(r), NEW view, view.turns \in [Run -> Turn]
    PROVE  FollowRun(view, r).turns \in [Run -> Turn]
<1> DEFINE turns == view.turns
<1>1. CASE Addressable(r)
  <2>1. RunView(r, turns) \in View
    BY DEF PageInv, PageRun, Displays, Followed, ViewsOf
  <2>2. FollowRun(view, r) = RunView(r, turns)
    BY <1>1, FollowedView
  <2> HIDE DEF turns
  <2> QED BY <2>1, <2>2 DEF View
<1>2. CASE ~Addressable(r)
  <2> DEFINE v == InitialView(turns)
  <2>1. FollowRun(view, r) = [v EXCEPT !.status = "failed"]
    BY <1>2 DEF FollowRun
  <2>2. v.turns = turns /\ v = [runId |-> v.runId, status |-> v.status, steps |-> v.steps,
                               interrupt |-> v.interrupt, report |-> v.report,
                               turns |-> v.turns]
    BY DEF InitialView
  <2> HIDE DEF v, turns
  <2>3. FollowRun(view, r).turns = turns
    BY <2>1, <2>2
  <2> QED BY <2>3 DEF turns
<1> QED BY <1>1, <1>2

\* The page of a conversation follows its runs from the history.
Opened(c) == OpenHistory(c, {r \in RowsOf(c) : ~Known(r)})

\* The history gives turns.
LEMMA OpenedTyped ==
    ASSUME StoreInv, NEW c, NEW rs \in SUBSET Run
    PROVE  /\ OpenHistory(c, rs).turns \in [Run -> Turn]
           /\ \A q \in rs : /\ OpenHistory(c, rs).turns[q] = HistoryTurn(q)
                            /\ ShownTurn(OpenHistory(c, rs), q) = HistoryTurn(q)
<1> DEFINE turns == [r \in Run |-> IF r \in rs THEN HistoryTurn(r) ELSE NoTurn]
           r == CHOOSE i \in rs : \A k \in rs : db.run[k].turn <= db.run[i].turn
           opened == [runId |-> r, status |-> turns[r].status, steps |-> turns[r].steps,
                      interrupt |-> FALSE, report |-> turns[r].report, turns |-> turns]
<1>1. turns \in [Run -> Turn]
  <2>1. \A q \in Run : HistoryTurn(q) \in Turn
    BY DEF StoreInv, Consistent, Tables, RunRow, HistoryTurn, Turn, Steps
  <2>2. NoTurn \in Turn
    BY NoOutcomeTyped DEF NoTurn, Turn, Steps, NoStepRow, StepRow
  <2> QED BY <2>1, <2>2
<1>2. OpenHistory(c, rs) = IF rs = {} THEN InitialView(turns) ELSE opened
  BY Zenon DEF OpenHistory
<1>3. CASE rs = {}
  <2>1. InitialView(turns).turns = turns
    BY DEF InitialView
  <2> HIDE DEF turns, opened
  <2> QED BY <1>1, <1>2, <1>3, <2>1
<1>4. CASE rs # {}
  <2>1. opened.turns = turns /\ opened.runId = r
    BY Zenon
  <2>2. /\ opened.status = turns[r].status /\ opened.steps = turns[r].steps
        /\ opened.report = turns[r].report
    BY Zenon
  <2>3. \A q \in rs : turns[q] = HistoryTurn(q)
    OBVIOUS
  <2> HIDE DEF turns, r, opened
  <2>4. ASSUME NEW q \in rs PROVE ShownTurn(opened, q) = HistoryTurn(q)
    <3>1. CASE q = r
      <4>1. ShownTurn(opened, q) = [status |-> turns[r].status, steps |-> turns[r].steps,
                                   report |-> turns[r].report]
        BY <2>1, <2>2, <3>1 DEF ShownTurn
      <4>2. turns[r] = HistoryTurn(r)
        BY <2>3, <3>1
      <4> QED BY <3>1, <4>1, <4>2 DEF HistoryTurn
    <3>2. CASE q # r
      BY <2>1, <2>3, <3>2 DEF ShownTurn
    <3> QED BY <3>1, <3>2
  <2> QED BY <1>1, <1>2, <1>4, <2>1, <2>3, <2>4
<1> QED BY <1>3, <1>4

\* The views of the page, from the history to the newest run.
LEMMA PageViews ==
    ASSUME IInv, StoreInv, PageInv, NEW c \in Conversation,
           NEW rs, rs = convRuns[c]
    PROVE  \E f :
            /\ f[0] = Opened(c) /\ PageOf(c) = f[Len(rs)]
            /\ \A n \in Nat : n + 1 <= Len(rs) => f[n + 1] = FollowRun(f[n], rs[n + 1])
            /\ \A n \in Nat : n <= Len(rs) => f[n].turns \in [Run -> Turn]
<1> DEFINE m == Len(rs)
<1>1. m \in Nat /\ rs \in Seq(Run) /\ \A i \in 1..m : rs[i] \in Run /\ Known(rs[i])
  BY DEF IInv, FieldsTyped, Registered
<1>2. PICK f : Follows(f, Opened(c), rs, m) /\ FollowRuns(Opened(c), rs) = f[m]
  BY <1>1, FollowRunsFollows
<1> HIDE DEF m
<1>3. \A n \in 0..m : f[n] = IF n = 0 THEN Opened(c) ELSE FollowRun(f[n - 1], rs[n])
  BY <1>2 DEF Follows
<1>4. f[0] = Opened(c) /\ \A n \in Nat : n + 1 <= m => f[n + 1] = FollowRun(f[n], rs[n + 1])
  <2>1. f[0] = Opened(c)
    BY <1>1, <1>3
  <2>2. ASSUME NEW n \in Nat, n + 1 <= m PROVE f[n + 1] = FollowRun(f[n], rs[n + 1])
    <3>1. n + 1 \in 0..m /\ n + 1 # 0 /\ n + 1 - 1 = n
      BY <1>1, <2>2
    <3> QED BY <1>3, <3>1
  <2> QED BY <2>1, <2>2
<1> DEFINE S == {n \in Nat : n <= m => f[n].turns \in [Run -> Turn]}
<1>5. 0 \in S
  <2>1. Opened(c).turns \in [Run -> Turn]
    BY OpenedTyped DEF Opened, RowsOf
  <2> QED BY <1>4, <2>1
<1>6. ASSUME NEW n \in Nat, n \in S PROVE n + 1 \in S
  <2>1. SUFFICES ASSUME n + 1 <= m PROVE f[n + 1].turns \in [Run -> Turn]
    OBVIOUS
  <2>2. n + 1 \in 1..m /\ n <= m
    BY <1>1, <2>1
  <2>3. /\ rs[n + 1] \in Run /\ Known(rs[n + 1]) /\ f[n].turns \in [Run -> Turn]
        /\ f[n + 1] = FollowRun(f[n], rs[n + 1])
    BY <1>1, <1>4, <1>6, <2>1, <2>2
  <2> QED BY <2>3, FollowTyped
<1>7. Nat \subseteq S
  <2> HIDE DEF S
  <2> QED BY <1>5, <1>6, SetInduction
<1>8. PageOf(c) = f[m]
  BY <1>2 DEF PageOf, Opened
<1>9. \A n \in Nat : n <= m => f[n].turns \in [Run -> Turn]
  BY <1>7
<1> HIDE DEF S
<1> QED BY <1>4, <1>8, <1>9 DEF m

\* The page shows the newest run as that run is.
LEMMA PageFollows == IInv /\ StoreInv /\ PageInv => PageFollowsRun
<1> SUFFICES ASSUME IInv, StoreInv, PageInv, NEW c \in Conversation, convRuns[c] # <<>>,
                    Addressable(Last(convRuns[c]))
             PROVE  LET r == Last(convRuns[c])
                        view == PageOf(c)
                        shows(states) == \E s \in Step : view.steps[s].state \in states
                    IN  /\ view.interrupt <=> Answerable(r)
                        /\ ComposerLocked(view) <=> ~Admits(c)
                        /\ \/ view.status = status[r]
                           \/ view.status = "completed" /\ status[r] = "failed" /\ faults > 0
                        /\ view.status = "waiting_input" => ~shows({"running"})
                        /\ view.status \in {"cancelled", "failed"} =>
                                ~shows({"running", "paused"})
  BY DEF PageFollowsRun
<1> DEFINE rs == convRuns[c]
           r == Last(rs)
           n == Len(rs) - 1
<1>1. /\ rs \in Seq(Run) /\ n \in Nat /\ n + 1 = Len(rs) /\ n <= Len(rs)
      /\ r = rs[n + 1] /\ n + 1 \in 1..Len(rs)
  BY DEF IInv, FieldsTyped, Last
<1>2. r \in Run /\ Known(r)
  BY <1>1 DEF IInv, Registered
<1>3. PICK f : /\ PageOf(c) = f[Len(rs)] /\ f[n + 1] = FollowRun(f[n], rs[n + 1])
               /\ f[n].turns \in [Run -> Turn]
  BY <1>1, PageViews
<1> DEFINE turns == f[n].turns
           view == PageOf(c)
<1>4. view = RunView(r, turns)
  <2>1. Addressable(r)
    OBVIOUS
  <2> HIDE DEF r, rs, n
  <2> QED BY <1>1, <1>2, <1>3, <2>1, FollowedView
<1>5. Displays(view, r, turns)
  BY <1>2, <1>3, <1>4 DEF PageInv, PageRun
<1>6. RunOK(status[r], events[r], pending[r], shown[r], task[r], graph[r])
  BY <1>2, RunTyped
<1>7. status[r] \in RunStatus /\ (status[r] = "waiting_input" => pending[r] # NoInterrupt)
  BY <1>6 DEF RunOK
<1>8. Admits(c) <=> status[r] \in TERMINAL_STATUSES
  BY DEF Admits
<1> HIDE DEF rs, r, view, turns
<1>9. /\ \/ view.status = status[r]
         \/ view.status = "completed" /\ status[r] = "failed" /\ faults > 0
      /\ view.interrupt <=> view.status = "waiting_input"
      /\ view.status = "waiting_input" => ~AnyStep(view.steps, {"running"})
      /\ view.status \in {"cancelled", "failed"} =>
            ~AnyStep(view.steps, {"running", "paused"})
  BY <1>5 DEF Displays, Followed
<1>10. view.interrupt <=> Answerable(r)
  BY <1>7, <1>9 DEF Answerable
<1>11. ComposerLocked(view) <=> ~Admits(c)
  BY <1>7, <1>8, <1>9 DEF ComposerLocked, RunStatus, TERMINAL_STATUSES
<1> QED BY <1>9, <1>10, <1>11, Zenon DEF AnyStep, rs, r, view

\* The page and the history show the same turns.
LEMMA PageAgrees == IInv /\ StoreInv /\ PageInv => PageAgreesWithHistory
<1> SUFFICES ASSUME IInv, StoreInv, PageInv, faults = 0, NEW c \in Conversation,
                    NEW q \in RowsOf(c)
             PROVE  ShownTurn(PageOf(c), q) = HistoryTurn(q)
  BY DEF PageAgreesWithHistory
<1> DEFINE rs == convRuns[c]
           m == Len(rs)
           lost == {r \in RowsOf(c) : ~Known(r)}
           Seen(n) == lost \cup {rs[i] : i \in 1..n}
<1>1. /\ m \in Nat /\ rs \in Seq(Run)
      /\ \A i \in 1..m : /\ rs[i] \in Run /\ Known(rs[i])
                         /\ i < m => status[rs[i]] \in TERMINAL_STATUSES
  BY DEF IInv, FieldsTyped, Registered
<1>2. PICK f :
        /\ f[0] = Opened(c) /\ PageOf(c) = f[m]
        /\ \A n \in Nat : n + 1 <= m => f[n + 1] = FollowRun(f[n], rs[n + 1])
        /\ \A n \in Nat : n <= m => f[n].turns \in [Run -> Turn]
  BY PageViews
<1>3. q \in Seen(m)
  <2>1. CASE ~Known(q)
    BY <2>1
  <2>2. CASE Known(q)
    <3>1. q \in Run /\ db.run[q].conv = c /\ c # NoConversation
      BY NoConversationAssumption DEF RowsOf
    <3>2. conv[q] = c
      BY <2>2, <3>1 DEF StoreInv, StoredOK, Consistent, RunShown
    <3> QED BY <2>2, <3>1, <3>2 DEF IInv, Registered
  <2> QED BY <2>1, <2>2
<1> DEFINE Same(n) == \A k \in Seen(n) :
                        /\ ShownTurn(f[n], k) = HistoryTurn(k)
                        /\ n < m => f[n].turns[k] = HistoryTurn(k)
           S == {n \in Nat : n <= m => Same(n)}
<1>4. 0 \in S
  <2>1. Seen(0) = lost /\ lost \in SUBSET Run
    BY DEF RowsOf
  <2>2. Opened(c) = OpenHistory(c, lost)
    BY DEF Opened
  <2> HIDE DEF lost, Seen
  <2>3. Same(0)
    BY <1>2, <2>1, <2>2, OpenedTyped
  <2> QED BY <2>3
<1>5. ASSUME NEW n \in Nat, n \in S PROVE n + 1 \in S
  <2>1. SUFFICES ASSUME n + 1 <= m PROVE Same(n + 1)
    OBVIOUS
  <2> DEFINE r == rs[n + 1]
             turns == f[n].turns
             v == RunView(r, turns)
  <2>2. /\ n + 1 \in 1..m /\ n < m /\ n <= m /\ r \in Run /\ Known(r)
        /\ n + 1 < m => status[r] \in TERMINAL_STATUSES
    <3> HIDE DEF m, rs
    <3>1. n + 1 \in 1..m /\ n < m /\ n <= m
      BY <1>1, <2>1
    <3> QED BY <1>1, <3>1
  <2>3. turns \in [Run -> Turn] /\ f[n + 1] = FollowRun(f[n], r) /\ Same(n)
    BY <1>2, <1>5, <2>1, <2>2
  <2> HIDE DEF r, turns, Same
  <2>4. v \in Followed(r, status[r], turns) /\ Agree(db, r, v)
    BY <2>2, <2>3 DEF PageInv, PageRun, Displays
  <2>5. Addressable(r)
    BY <2>4 DEF Agree, HasRow, Addressable
  <2>6. f[n + 1] = v
    BY <2>2, <2>3, <2>5, FollowedView DEF turns
  <2>7. v.runId = r /\ v.status = status[r] /\ \A k \in Run \ {r} : v.turns[k] = turns[k]
    BY <2>4 DEF Followed, ViewsOf
  <2>8. TurnOf(v) = HistoryTurn(r)
    <3>1. v.status = db.run[r].status /\ v.steps = db.step[r] /\ (v.report <=> db.run[r].report)
      BY <2>4 DEF Agree
    <3>2. v.report \in BOOLEAN /\ db.run[r].report \in BOOLEAN
      BY <2>2, <2>4 DEF Followed, ViewsOf, View, StoreInv, Consistent, Tables, RunRow
    <3>3. v.report = db.run[r].report
      BY <3>1, <3>2, Zenon
    <3> QED BY <3>1, <3>3, Zenon DEF TurnOf, HistoryTurn
  <2>9. /\ ShownTurn(v, r) = TurnOf(v)
        /\ n + 1 < m => v.turns[r] = TurnOf(v)
    BY <2>2, <2>4, <2>7 DEF ShownTurn, TurnOf, Agree
  <2>10. ASSUME NEW k \in Seen(n + 1)
         PROVE  ShownTurn(v, k) = HistoryTurn(k) /\ (n + 1 < m => v.turns[k] = HistoryTurn(k))
    <3>1. CASE k = r
      BY <2>8, <2>9, <3>1
    <3>2. CASE k # r
      <4>1. k \in Seen(n)
        BY <3>2 DEF r
      <4>2. k \in Run
        BY <1>1, <2>1, <2>10 DEF RowsOf
      <4>3. turns[k] = HistoryTurn(k)
        BY <2>2, <2>3, <4>1 DEF Same, turns
      <4>4. v.turns[k] = HistoryTurn(k) /\ ShownTurn(v, k) = v.turns[k]
        BY <2>7, <3>2, <4>2, <4>3 DEF ShownTurn
      <4> QED BY <4>4
    <3> QED BY <3>1, <3>2
  <2> QED BY <2>6, <2>10 DEF Same
<1>6. Nat \subseteq S
  <2> HIDE DEF S
  <2> QED BY <1>4, <1>5, SetInduction
<1>7. Same(m)
  <2> HIDE DEF Same
  <2> QED BY <1>1, <1>6
<1> QED BY <1>2, <1>3, <1>7

(***************************************************************************)
(* Whatever store writes fail, the page of a conversation, which closes    *)
(* its EventSource at the first event that ends the run, offers what the   *)
(* manager takes: the question while the run waits for its answer, the     *)
(* composer when create_run admits a turn, the status of the run (or       *)
(* completed, when it failed to record that), and no step at work in a run *)
(* it shows waiting, cancelled or failed.                                  *)
(***************************************************************************)
THEOREM PagesFollowRuns == Spec => []PageFollowsRun
BY Invariance, StoreInvariance, PageInvariance, PageFollows, PTL

(***************************************************************************)
(* While no store write has failed, each turn on the page of a             *)
(* conversation is what its history says of it, in any number of turns,    *)
(* questions, cancellations and restarts.                                  *)
(***************************************************************************)
THEOREM PagesAgreeWithHistory == Spec => []PageAgreesWithHistory
BY Invariance, StoreInvariance, PageInvariance, PageAgrees, PTL
=============================================================================
