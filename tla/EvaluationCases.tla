---------------------------- MODULE EvaluationCases ----------------------------
(***************************************************************************)
(* The evaluation center: calls of the modules of a run are captured as    *)
(* cases (evaluation_case), cases are annotated by the judge and confirmed *)
(* into the dataset, and dataset items are replayed (evaluation_api,       *)
(* evaluation_judge).                                                      *)
(*                                                                         *)
(* Calls run in parallel threads and take the number of their case under   *)
(* an advisory lock of the transaction.  Judge, confirm and replay are     *)
(* requests of their own; each reads, waits for a model or a person, and   *)
(* writes, while the others do the same.  PostgreSQL runs them READ        *)
(* COMMITTED: a statement sees what was committed before it.               *)
(***************************************************************************)
EXTENDS Integers, FiniteSets, FiniteSetsExt

CONSTANTS
    Calls,          \* calls of modules; a call has at most one case
    key,            \* run and module of a call: what numbers and locks are per
    Judges,         \* POST /judge requests
    Confirmers,     \* POST /cases/{id}/confirm requests
    Replays,        \* POST /replay requests
    Scores,         \* scores the judge model may give
    MaxBatch,       \* bound: ids in a judge or replay request
    None            \* no row, no value

ASSUME CallsAssumption == key \in [Calls -> {key[c] : c \in Calls}]
ASSUME ScoresAssumption == Scores \subseteq 0..4

Keys == {key[c] : c \in Calls}

\* What a module does: a result that fits its output schema, a result that
\* does not, a result that is no JSON object, or an exception.
Outcomes == {"fits", "misfit", "bare", "raised"}

\* The input of a module: the module may change it while it works.
Inputs == {"given", "changed"}

\* The rows of the three tables, and the answers of the judge.
CaseRow == [no : Nat, input : Inputs, output : Outcomes]
AnnotationRow ==
    [by : {"rule", "llm", "human"}, score : Scores \cup {0, None},
     verdict : {"failed", "needs_review", "pass", "unscored"},
     review : {"pending", "confirmed"}]
DatasetItem == [golden : Confirmers, input : Inputs]
Answers == {"annotated", "skipped", "error"}

ASSUME NoneAssumption ==
    None \notin Calls \cup Inputs \cup Answers \cup CaseRow \cup AnnotationRow \cup DatasetItem

VARIABLES
    call,           \* capture_call, one per call
    lock,           \* holder of pg_advisory_xact_lock per key
    case,           \* evaluation_cases: row of a call, or None
    annotation,     \* evaluation_annotations: row of a case, or None
    dataset,        \* evaluation_dataset_items: row of a case, or None
    judge,          \* the judge requests
    confirm,        \* the confirm requests
    replay          \* the replay requests

capture == <<call, lock, case>>
vars == <<call, lock, case, annotation, dataset, judge, confirm, replay>>

NewCall == [pc |-> "new", input |-> "given", snapshot |-> None, outcome |-> None,
            answer |-> None, last |-> 0, faulted |-> FALSE]

NewBatch == [pc |-> "new", left |-> {}, at |-> None, answers |-> [c \in Calls |-> None]]

NewConfirm == [pc |-> "new", at |-> None, found |-> FALSE, answer |-> 0]

Init ==
    /\ call = [c \in Calls |-> NewCall]
    /\ lock = [k \in Keys |-> None]
    /\ case = [c \in Calls |-> None]
    /\ annotation = [c \in Calls |-> None]
    /\ dataset = [c \in Calls |-> None]
    /\ judge = [j \in Judges |-> NewBatch]
    /\ confirm = [k \in Confirmers |-> NewConfirm]
    /\ replay = [r \in Replays |-> NewBatch]

-------------------------------------------------------------------------------
(* capture_call and SqlEvaluationCaseStore.record                          *)

\* Without a context, or with a run of no name, nothing is captured.
Uncaptured(c) ==
    /\ call[c].pc = "new"
    /\ \E outcome \in Outcomes :
           call' = [call EXCEPT ![c] =
               [@ EXCEPT !.pc = "returned", !.outcome = outcome, !.answer = outcome]]
    /\ UNCHANGED <<lock, case>>

\* deepcopy of the input, then the module itself.
CallsModule(c) ==
    /\ call[c].pc = "new"
    /\ \E outcome \in Outcomes, input \in Inputs :
           call' = [call EXCEPT ![c] =
               [@ EXCEPT !.pc = "draft", !.snapshot = call[c].input,
                         !.input = input, !.outcome = outcome]]
    /\ UNCHANGED <<lock, case>>

\* The end of capture_call: what the module did is what the caller gets.
Returned(c) ==
    [call[c] EXCEPT !.pc = "returned", !.answer = call[c].outcome, !.input = "given",
                    !.last = 0]

\* output_payload has to be an object: the draft of any other result cannot
\* be built, and that exception leaves capture_call instead of the result.
DraftFails(c) ==
    /\ call[c].pc = "draft" /\ call[c].outcome = "bare"
    /\ call' = [call EXCEPT ![c] = [@ EXCEPT !.pc = "returned", !.answer = "raised"]]
    /\ UNCHANGED <<lock, case>>

\* Mutant: numbers are taken without the lock.
TakesNoLock(c) ==
    /\ call[c].pc = "draft" /\ call[c].outcome # "bare"
    /\ call' = [call EXCEPT ![c].pc = "locked"]
    /\ UNCHANGED <<lock, case>>

\* pg_advisory_xact_lock waits for whoever records a call of the same key.
TakesLock(c) ==
    /\ call[c].pc = "draft" /\ call[c].outcome # "bare"
    /\ lock[key[c]] = None
    /\ lock' = [lock EXCEPT ![key[c]] = c]
    /\ call' = [call EXCEPT ![c].pc = "locked"]
    /\ UNCHANGED case

Numbers(k) == {case[c].no : c \in {d \in Calls : key[d] = k /\ case[d] # None}}

ReadsLast(c) ==
    /\ call[c].pc = "locked"
    /\ call' = [call EXCEPT ![c] =
           [@ EXCEPT !.pc = "numbered", !.last = Max(Numbers(key[c]) \cup {0})]]
    /\ UNCHANGED <<lock, case>>

\* The end of the transaction gives the lock back.
Unlocked(c) == IF lock[key[c]] = c THEN [lock EXCEPT ![key[c]] = None] ELSE lock

\* INSERT and COMMIT; uq_evaluation_case_invocation refuses a number that was
\* taken meanwhile, and safe_record drops the case.
Commits(c) ==
    LET no == call[c].last + 1
    IN  /\ call[c].pc = "numbered"
        /\ case' = IF no \in Numbers(key[c]) THEN case
                   ELSE [case EXCEPT ![c] =
                       [no |-> no, input |-> call[c].snapshot, output |-> call[c].outcome]]
        /\ lock' = Unlocked(c)
        /\ call' = [call EXCEPT ![c] = Returned(c)]

\* Mutant: the lock outlives a transaction that failed.
RecorderFailsLocked(c) ==
    /\ call[c].pc \in {"draft", "locked", "numbered"} /\ call[c].outcome # "bare"
    /\ call' = [call EXCEPT ![c] = [Returned(c) EXCEPT !.faulted = TRUE]]
    /\ UNCHANGED <<lock, case>>

\* The database fails under the recorder: rolled back, logged by safe_record.
RecorderFails(c) ==
    /\ call[c].pc \in {"draft", "locked", "numbered"} /\ call[c].outcome # "bare"
    /\ lock' = Unlocked(c)
    /\ call' = [call EXCEPT ![c] = [Returned(c) EXCEPT !.faulted = TRUE]]
    /\ UNCHANGED case

Records(c) ==
    \/ CallsModule(c) \/ DraftFails(c) \/ TakesLock(c) \/ ReadsLast(c) \/ Commits(c)

Capture(c) ==
    /\ Uncaptured(c) \/ Records(c) \/ RecorderFails(c)
    /\ UNCHANGED <<annotation, dataset, judge, confirm, replay>>

-------------------------------------------------------------------------------
(* batch_judge                                                             *)

\* judge_case: a failed call and a misfit are scored 0 without the model;
\* otherwise the model scores, and may be missing, fail, or break its schema.
AsksModel(output) == output = "fits"
JudgeScores(output) == IF AsksModel(output) THEN Scores ELSE {0}

Verdict(score) ==
    IF score = 0 THEN "failed" ELSE IF score >= 3 THEN "pass" ELSE "needs_review"

Annotated(c, score) ==
    [by |-> IF case[c].output = "raised" THEN "rule" ELSE "llm",
     score |-> score, verdict |-> Verdict(score), review |-> "pending"]

\* A human annotation has no score.
ByHuman == [by |-> "human", score |-> None, verdict |-> "unscored", review |-> "confirmed"]

\* A request of at most MaxBatch ids, any of which may be unknown.
Batches == UNION {kSubset(n, Calls) : n \in 1..MaxBatch}

JudgeStarts(j) ==
    /\ judge[j].pc = "new"
    /\ \E batch \in Batches :
           judge' = [judge EXCEPT ![j] = [@ EXCEPT !.pc = "next", !.left = batch]]
    /\ UNCHANGED annotation

Answer(batch, c, answer) ==
    [batch EXCEPT !.pc = IF batch.left = {c} THEN "done" ELSE "next",
                  !.left = @ \ {c}, !.at = None, !.answers[c] = answer]

\* The case and its annotation, if there is one; then the model is asked.
JudgeReads(j) ==
    /\ judge[j].pc = "next"
    /\ \E c \in judge[j].left :
           judge' = [judge EXCEPT ![j] =
               IF case[c] = None THEN Answer(@, c, "error")
               ELSE IF annotation[c] # None THEN Answer(@, c, "skipped")
               ELSE [@ EXCEPT !.pc = "judging", !.at = c]]
    /\ UNCHANGED annotation

JudgeFails(j) ==
    /\ AsksModel(case[judge[j].at].output)
    /\ judge' = [judge EXCEPT ![j] = Answer(@, judge[j].at, "error")]
    /\ UNCHANGED annotation

\* Mutant: the judge replaces an annotation made while the model answered.
JudgeReplaces(j) ==
    LET c == judge[j].at
    IN  /\ judge[j].pc = "judging"
        /\ \/ \E score \in JudgeScores(case[c].output) :
                  /\ judge' = [judge EXCEPT ![j] = Answer(@, c, "annotated")]
                  /\ annotation' = [annotation EXCEPT ![c] = Annotated(c, score)]
           \/ JudgeFails(j)

\* The annotation is inserted; its primary key is the case, so a second one
\* is refused and the answer is skipped.  Any other error leaves nothing.
JudgeWrites(j) ==
    LET c == judge[j].at
    IN  /\ judge[j].pc = "judging"
        /\ \/ \E score \in JudgeScores(case[c].output) :
                  IF annotation[c] = None
                  THEN /\ judge' = [judge EXCEPT ![j] = Answer(@, c, "annotated")]
                       /\ annotation' = [annotation EXCEPT ![c] = Annotated(c, score)]
                  ELSE /\ judge' = [judge EXCEPT ![j] = Answer(@, c, "skipped")]
                       /\ UNCHANGED annotation
           \/ JudgeFails(j)

Judge(j) ==
    /\ JudgeStarts(j) \/ JudgeReads(j) \/ JudgeWrites(j)
    /\ UNCHANGED <<call, lock, case, dataset, confirm, replay>>

-------------------------------------------------------------------------------
(* confirm_golden: the answer is the HTTP status                           *)

Ends(k, status) ==
    confirm' = [confirm EXCEPT ![k] = [@ EXCEPT !.pc = "done", !.answer = status]]

\* The case and its dataset item; the golden of the request may not fit the
\* output schema of the module.
ConfirmChecks(k) ==
    /\ confirm[k].pc = "new"
    /\ \E c \in Calls :
           \/ /\ case[c] # None /\ dataset[c] = None
              /\ confirm' = [confirm EXCEPT ![k] = [@ EXCEPT !.pc = "checked", !.at = c]]
           \/ /\ case[c] # None /\ dataset[c] = None
              /\ Ends(k, 422)
           \/ /\ case[c] # None /\ dataset[c] # None
              /\ Ends(k, 409)
           \/ /\ case[c] = None
              /\ Ends(k, 404)
    /\ UNCHANGED <<annotation, dataset>>

ConfirmReads(k) ==
    /\ confirm[k].pc = "checked"
    /\ confirm' = [confirm EXCEPT ![k] =
           [@ EXCEPT !.pc = "read", !.found = annotation[confirm[k].at] # None]]
    /\ UNCHANGED <<annotation, dataset>>

Item(k, c) == [golden |-> k, input |-> case[c].input]

Reviewed(k) ==
    [annotation EXCEPT ![confirm[k].at] =
        IF confirm[k].found THEN [@ EXCEPT !.review = "confirmed"] ELSE ByHuman]

\* Mutant: the item is committed before the annotation is.
ConfirmInTwo(k) ==
    LET c == confirm[k].at
    IN  /\ confirm[k].pc = "read"
        /\ IF dataset[c] # None
           THEN Ends(k, 409) /\ UNCHANGED <<annotation, dataset>>
           ELSE /\ dataset' = [dataset EXCEPT ![c] = Item(k, c)]
                /\ IF ~confirm[k].found /\ annotation[c] # None
                   THEN Ends(k, 409) /\ UNCHANGED annotation
                   ELSE Ends(k, 200) /\ annotation' = Reviewed(k)

\* One transaction: an annotation where none was found, otherwise its review
\* status, and the dataset item.  When a row it would insert exists by now,
\* both are rolled back.  The item is read again for the answer, after the
\* commit: when the database fails there, the answer is 500.
ConfirmCommits(k) ==
    LET c == confirm[k].at
        taken == dataset[c] # None \/ (~confirm[k].found /\ annotation[c] # None)
    IN  /\ confirm[k].pc = "read"
        /\ IF taken
           THEN Ends(k, 409) /\ UNCHANGED <<annotation, dataset>>
           ELSE /\ annotation' = Reviewed(k)
                /\ dataset' = [dataset EXCEPT ![c] = Item(k, c)]
                /\ Ends(k, 200) \/ Ends(k, 500)

\* The database fails before or in the commit: nothing is stored.
ConfirmFails(k) ==
    /\ confirm[k].pc # "done"
    /\ Ends(k, 500)
    /\ UNCHANGED <<annotation, dataset>>

Confirm(k) ==
    /\ ConfirmChecks(k) \/ ConfirmReads(k) \/ ConfirmCommits(k) \/ ConfirmFails(k)
    /\ UNCHANGED <<call, lock, case, judge, replay>>

-------------------------------------------------------------------------------
(* batch_replay                                                            *)

ReplayStarts(r) ==
    /\ replay[r].pc = "new"
    /\ \E batch \in Batches :
           replay' = [replay EXCEPT ![r] = [@ EXCEPT !.pc = "next", !.left = batch]]

\* The module runs on the input of the item and its output, which fits the
\* schema or raised, is judged against the golden.  A module that fails
\* counts as 0; a judge that fails gives no score.
Replayed == {[status |-> "module_failed", score |-> 0],
             [status |-> "judge_error", score |-> None]}
            \cup [status : {"scored"}, score : Scores]

ReplayOne(r) ==
    /\ replay[r].pc = "next"
    /\ \E c \in replay[r].left :
           \E answer \in IF dataset[c] = None THEN {[status |-> "error", score |-> None]}
                         ELSE Replayed :
               replay' = [replay EXCEPT ![r] = Answer(@, c, answer)]

Replay(r) ==
    /\ ReplayStarts(r) \/ ReplayOne(r)
    /\ UNCHANGED <<call, lock, case, annotation, dataset, judge, confirm>>

-------------------------------------------------------------------------------
Next ==
    \/ \E c \in Calls : Capture(c)
    \/ \E j \in Judges : Judge(j)
    \/ \E k \in Confirmers : Confirm(k)
    \/ \E r \in Replays : Replay(r)

Spec == Init /\ [][Next]_vars

-------------------------------------------------------------------------------
(***************************************************************************)
(* The cases of a module of a run are numbered from 1 without a gap or a   *)
(* double, however many branches record at once, and the only cases that   *)
(* are missing are those whose recorder failed: two branches never lose a  *)
(* case to each other's number.                                            *)
(***************************************************************************)
CasesNumbered ==
    /\ \A k \in Keys :
           LET recorded == {c \in Calls : key[c] = k /\ case[c] # None}
           IN  {case[c].no : c \in recorded} = 1..Cardinality(recorded)
    /\ \A c \in Calls :
           call[c].pc = "returned" /\ call[c].snapshot # None /\ ~call[c].faulted
               => case[c] # None \/ call[c].outcome = "bare"

(***************************************************************************)
(* A case has one annotation, and the answers tell whose it is: at most    *)
(* one request is told "annotated", then the annotation is the judge's;    *)
(* "skipped" means that there is one; an annotation a person made belongs  *)
(* to a confirmation that was answered 200, or 500, which leaves it open.  *)
(***************************************************************************)
Told(c, answer) == {j \in Judges : judge[j].answers[c] = answer}
Confirmed(c, answers) ==
    {k \in Confirmers : confirm[k].at = c /\ confirm[k].answer \in answers}

AnnotatedOnce ==
    \A c \in Calls :
        /\ Cardinality(Told(c, "annotated")) <= 1
        /\ Told(c, "annotated") # {}
               => annotation[c] # None /\ annotation[c].by \in {"rule", "llm"}
        /\ Told(c, "skipped") # {} => annotation[c] # None
        /\ annotation[c] # None /\ annotation[c].by = "human"
               => Confirmed(c, {200, 500}) # {}

(***************************************************************************)
(* A case is confirmed exactly when it is in the dataset, with the golden  *)
(* of the one request that was answered 200, or of one that was answered   *)
(* 500 while no other was accepted, and the input the module was given.  A *)
(* request that was refused has left nothing.                              *)
(***************************************************************************)
ConfirmedIsInDataset ==
    \A c \in Calls :
        /\ (annotation[c] # None /\ annotation[c].review = "confirmed")
               <=> dataset[c] # None
        /\ dataset[c] = None => Confirmed(c, {200}) = {}
        /\ dataset[c] # None => /\ Confirmed(c, {200}) \subseteq {dataset[c].golden}
                                /\ dataset[c].golden \in Confirmed(c, {200, 500})
                                /\ dataset[c].input = "given"

(***************************************************************************)
(* Recording never costs the caller anything: whoever holds the lock of a  *)
(* key is on its way to commit or roll back, also when it fails under the  *)
(* lock, so no branch waits for one that is gone; and every call comes     *)
(* back with what its module did, recorded or not, unless the result is no *)
(* JSON object.                                                            *)
(***************************************************************************)
CallsGoOn ==
    /\ \A k \in Keys : lock[k] # None =>
           /\ call[lock[k]].pc \in {"locked", "numbered"}
           /\ key[lock[k]] = k
    /\ \A c \in Calls : call[c].pc = "returned" /\ call[c].outcome # "bare"
           => call[c].answer = call[c].outcome
===============================================================================
