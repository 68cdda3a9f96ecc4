------------------------- MODULE EvaluationCases_proofs -------------------------
(***************************************************************************)
(* Proofs about EvaluationCases for any calls, keys, judges, confirmers    *)
(* and scores: the numbers of the cases, the lock they are taken under,    *)
(* and what annotations, confirmations and the dataset agree on.           *)
(***************************************************************************)
EXTENDS EvaluationCases, FiniteSetTheorems, TLAPS

Maybe(S) == S \cup {None}

-------------------------------------------------------------------------------
(* Capture.                                                                *)

CallRow == [pc : {"new", "draft", "locked", "numbered", "returned"}, input : Inputs,
            snapshot : {"given", None}, outcome : Maybe(Outcomes),
            answer : Maybe(Outcomes), last : Nat, faulted : BOOLEAN]

Recorded(k) == {c \in Calls : key[c] = k /\ case[c] # None}

\* Where a call is in capture_call: the input is copied before the module
\* runs, the row comes last, and under the lock the highest number stands.
CallOK(c) ==
    /\ call[c] \in CallRow
    /\ case[c] \in Maybe(CaseRow)
    /\ call[c].pc = "new" => call[c].snapshot = None /\ call[c].input = "given"
    /\ call[c].pc \in {"draft", "locked", "numbered"}
           => call[c].snapshot = "given" /\ call[c].outcome \in Outcomes
    /\ call[c].pc # "returned" => case[c] = None
    /\ call[c].pc \in {"locked", "numbered"} => lock[key[c]] = c
    /\ call[c].pc \in {"locked", "numbered"} => call[c].outcome # "bare"
    /\ call[c].pc = "numbered" => call[c].last = Cardinality(Recorded(key[c]))
    /\ case[c] # None => case[c].input = "given"
    /\ call[c].pc = "returned" /\ call[c].snapshot # None /\ ~call[c].faulted
           => case[c] # None \/ call[c].outcome = "bare"
    /\ call[c].pc = "returned" /\ call[c].outcome # "bare"
           => call[c].answer = call[c].outcome

\* The lock of a key is free or held by a call of the key that is under way,
\* and the cases of the key have the numbers from 1.
KeyOK(k) ==
    /\ lock[k] # None => /\ lock[k] \in Calls
                         /\ call[lock[k]].pc \in {"locked", "numbered"}
                         /\ key[lock[k]] = k
    /\ IsFiniteSet(Recorded(k))
    /\ Numbers(k) = 1..Cardinality(Recorded(k))

CaptureInv ==
    /\ call \in [Calls -> CallRow]
    /\ lock \in [Keys -> Maybe(Calls)]
    /\ case \in [Calls -> Maybe(CaseRow)]
    /\ \A c \in Calls : CallOK(c)
    /\ \A k \in Keys : KeyOK(k)

LEMMA KeyOfCall == ASSUME NEW c \in Calls PROVE key[c] \in Keys
BY DEF Keys

\* The highest of the numbers 1..n, 0 when there is none, is n.
LEMMA MaxNumber == ASSUME NEW n \in Nat PROVE Max((1..n) \cup {0}) = n
<1> DEFINE S == (1..n) \cup {0}
<1>1. n \in S /\ \A y \in S : n >= y
  OBVIOUS
<1>2. \A x \in S : (\A y \in S : x >= y) => x = n
  OBVIOUS
<1> QED BY <1>1, <1>2 DEF Max

\* A step of call c that writes no row keeps the invariant when it keeps its
\* own call and the lock of its key in order.
LEMMA StepKeeps ==
    ASSUME CaptureInv, NEW c \in Calls, NEW r \in CallRow,
           call' = [call EXCEPT ![c] = r], UNCHANGED case,
           \/ UNCHANGED lock
           \/ lock[key[c]] \in {None, c} /\ \E x \in {None, c} : lock' = [lock EXCEPT ![key[c]] = x],
           CallOK(c)',
           lock'[key[c]] = c => r.pc \in {"locked", "numbered"}
    PROVE  CaptureInv'
<1> DEFINE k == key[c]
<1>1. /\ call' \in [Calls -> CallRow] /\ case' \in [Calls -> Maybe(CaseRow)]
      /\ lock' \in [Keys -> Maybe(Calls)]
      /\ call'[c] = r /\ \A d \in Calls \ {c} : call'[d] = call[d]
      /\ \A l \in Keys \ {k} : lock'[l] = lock[l]
  BY KeyOfCall DEF CaptureInv, Maybe
<1>2. k \in Keys /\ \A d \in Calls : key[d] \in Keys
  BY KeyOfCall
<1>3. \A l : Recorded(l)' = Recorded(l) /\ Numbers(l)' = Numbers(l)
  BY DEF Recorded, Numbers
<1>4. lock'[k] = lock[k] \/ lock[k] \in {None, c}
  BY <1>1 DEF CaptureInv
<1>5. ASSUME NEW d \in Calls PROVE CallOK(d)'
  <2>1. CASE d # c
    <3>1. call'[d] = call[d] /\ case'[d] = case[d] /\ CallOK(d) /\ key[d] \in Keys
      BY <1>1, <1>2, <2>1 DEF CaptureInv
    <3>2. call[d].pc \in {"locked", "numbered"} => lock'[key[d]] = d
      <4>1. SUFFICES ASSUME call[d].pc \in {"locked", "numbered"} PROVE lock'[key[d]] = d
        OBVIOUS
      <4>2. lock[key[d]] = d /\ d # None
        BY <3>1, <4>1, NoneAssumption DEF CallOK
      <4>3. CASE key[d] # k
        BY <1>1, <3>1, <4>2, <4>3
      <4>4. CASE key[d] = k
        BY <1>4, <2>1, <4>2, <4>4
      <4> QED BY <4>3, <4>4
    <3> QED BY <1>3, <3>1, <3>2 DEF CallOK
  <2> QED BY <2>1
<1>6. ASSUME NEW l \in Keys PROVE KeyOK(l)'
  <2>1. KeyOK(l) /\ CallOK(c)
    BY DEF CaptureInv
  <2>2. lock'[l] # None => /\ lock'[l] \in Calls
                           /\ call'[lock'[l]].pc \in {"locked", "numbered"}
                           /\ key[lock'[l]] = l
    <3>1. CASE lock'[l] = c
      <4>1. key[c] = l
        <5>1. CASE l = k
          BY <5>1
        <5>2. CASE l # k
          BY <1>1, <2>1, <3>1, <5>2, NoneAssumption DEF KeyOK
        <5> QED BY <5>1, <5>2
      <4> QED BY <1>1, <3>1, <4>1
    <3>2. CASE lock'[l] # c
      <4>1. CASE lock'[l] = lock[l]
        BY <1>1, <2>1, <3>2, <4>1 DEF KeyOK
      <4>2. CASE lock'[l] # lock[l]
        <5>1. l = k /\ lock'[l] = None
          BY <1>1, <3>2, <4>2 DEF CaptureInv
        <5> QED BY <5>1
      <4> QED BY <4>1, <4>2
    <3> QED BY <3>1, <3>2
  <2> QED BY <1>3, <2>1, <2>2 DEF KeyOK
<1> QED BY <1>1, <1>5, <1>6 DEF CaptureInv
\* A call that is recorded or given up gives the lock back if it holds it.
LEMMA UnlockedFrees ==
    ASSUME CaptureInv, NEW c \in Calls
    PROVE  /\ Unlocked(c) \in [Keys -> Maybe(Calls)]
           /\ Unlocked(c)[key[c]] # c
           /\ \/ Unlocked(c) = lock
              \/ lock[key[c]] = c /\ Unlocked(c) = [lock EXCEPT ![key[c]] = None]
BY KeyOfCall, NoneAssumption DEF CaptureInv, Unlocked, Maybe

\* capture_call up to the INSERT, and every way it fails.
LEMMA BeforeRowKeeps ==
    ASSUME CaptureInv, NEW c \in Calls,
           \/ Uncaptured(c) \/ CallsModule(c) \/ DraftFails(c) \/ TakesLock(c)
           \/ ReadsLast(c) \/ RecorderFails(c)
    PROVE  CaptureInv'
<1> DEFINE k == key[c]
<1>1. /\ CallOK(c) /\ call[c] \in CallRow /\ k \in Keys /\ KeyOK(k)
      /\ call \in [Calls -> CallRow] /\ lock \in [Keys -> Maybe(Calls)]
      /\ None \notin Calls /\ None \notin Inputs
  BY KeyOfCall, NoneAssumption DEF CaptureInv
<1>2. lock[k] = c => call[c].pc \in {"locked", "numbered"}
  BY <1>1 DEF KeyOK
<1>3. CASE Uncaptured(c)
  <2>1. PICK outcome \in Outcomes :
            call' = [call EXCEPT ![c] =
                [@ EXCEPT !.pc = "returned", !.outcome = outcome, !.answer = outcome]]
    BY <1>3 DEF Uncaptured
  <2> DEFINE r == [call[c] EXCEPT !.pc = "returned", !.outcome = outcome, !.answer = outcome]
  <2>2. /\ r \in CallRow /\ call' = [call EXCEPT ![c] = r] /\ call'[c] = r
        /\ UNCHANGED <<lock, case>> /\ call[c].pc = "new"
    BY <1>1, <1>3, <2>1 DEF Uncaptured, CallRow, Maybe
  <2>3. CallOK(c)'
    BY <1>1, <2>2 DEF CallOK, CallRow
  <2>4. lock'[k] # c
    BY <1>2, <2>2
  <2> HIDE DEF r
  <2> QED BY <2>2, <2>3, <2>4, StepKeeps
<1>4. CASE CallsModule(c)
  <2>1. PICK outcome \in Outcomes, input \in Inputs :
            call' = [call EXCEPT ![c] =
               [@ EXCEPT !.pc = "draft", !.snapshot = call[c].input,
                         !.input = input, !.outcome = outcome]]
    BY <1>4 DEF CallsModule
  <2> DEFINE r == [call[c] EXCEPT !.pc = "draft", !.snapshot = call[c].input,
                                  !.input = input, !.outcome = outcome]
  <2>2. call[c].pc = "new" /\ call[c].input = "given" /\ case[c] = None
    BY <1>1, <1>4 DEF CallsModule, CallOK
  <2>3. /\ r \in CallRow /\ call' = [call EXCEPT ![c] = r] /\ call'[c] = r
        /\ UNCHANGED <<lock, case>>
    BY <1>1, <1>4, <2>1, <2>2 DEF CallsModule, CallRow, Maybe
  <2>4. r.pc = "draft" /\ r.snapshot = "given" /\ r.outcome \in Outcomes
    BY <1>1, <2>2 DEF CallRow
  <2>5. CallOK(c)'
    BY <1>1, <2>2, <2>3, <2>4 DEF CallOK
  <2>6. lock'[k] # c
    BY <1>2, <2>2, <2>3
  <2> HIDE DEF r
  <2> QED BY <2>3, <2>5, <2>6, StepKeeps
<1>5. CASE DraftFails(c)
  <2> DEFINE r == [call[c] EXCEPT !.pc = "returned", !.answer = "raised"]
  <2>1. /\ r \in CallRow /\ call' = [call EXCEPT ![c] = r] /\ call'[c] = r
        /\ UNCHANGED <<lock, case>> /\ call[c].pc = "draft" /\ call[c].outcome = "bare"
    BY <1>1, <1>5 DEF DraftFails, CallRow, Maybe, Outcomes
  <2>2. CallOK(c)'
    BY <1>1, <2>1 DEF CallOK, CallRow
  <2>3. lock'[k] # c
    BY <1>2, <2>1
  <2> HIDE DEF r
  <2> QED BY <2>1, <2>2, <2>3, StepKeeps
<1>6. CASE TakesLock(c)
  <2> DEFINE r == [call[c] EXCEPT !.pc = "locked"]
  <2>1. /\ r \in CallRow /\ call' = [call EXCEPT ![c] = r] /\ call'[c] = r
        /\ UNCHANGED case /\ call[c].pc = "draft" /\ call[c].outcome # "bare"
        /\ lock[k] = None /\ lock' = [lock EXCEPT ![k] = c] /\ lock'[k] = c
        /\ r.pc = "locked"
    BY <1>1, <1>6 DEF TakesLock, CallRow
  <2>2. CallOK(c)'
    BY <1>1, <2>1 DEF CallOK, CallRow
  <2> HIDE DEF r
  <2> QED BY <2>1, <2>2, StepKeeps
<1>7. CASE ReadsLast(c)
  <2> DEFINE n == Cardinality(Recorded(k))
             r == [call[c] EXCEPT !.pc = "numbered", !.last = n]
  <2>1. n \in Nat /\ Max(Numbers(k) \cup {0}) = n
    BY <1>1, FS_CardinalityType, MaxNumber DEF KeyOK
  <2>2. /\ r \in CallRow /\ call' = [call EXCEPT ![c] = r] /\ call'[c] = r
        /\ UNCHANGED <<lock, case>> /\ call[c].pc = "locked" /\ lock[k] = c
        /\ r.pc = "numbered" /\ r.last = n
    <3> HIDE DEF n
    <3> QED BY <1>1, <1>7, <2>1 DEF ReadsLast, CallRow, CallOK
  <2>3. n' = n
    BY <2>2 DEF Recorded
  <2>4. CallOK(c)'
    BY <1>1, <2>2, <2>3 DEF CallOK, CallRow
  <2> HIDE DEF r
  <2> QED BY <2>2, <2>4, StepKeeps
<1>8. CASE RecorderFails(c)
  <2> DEFINE r == [Returned(c) EXCEPT !.faulted = TRUE]
  <2>1. /\ r \in CallRow /\ call' = [call EXCEPT ![c] = r] /\ call'[c] = r
        /\ UNCHANGED case /\ call[c].pc \in {"draft", "locked", "numbered"}
        /\ r.pc = "returned" /\ r.faulted /\ r.answer = r.outcome
        /\ lock' = Unlocked(c)
    BY <1>1, <1>8 DEF RecorderFails, Returned, CallRow, Inputs
  <2>2. CallOK(c)'
    BY <1>1, <2>1 DEF CallOK
  <2>3. /\ lock'[k] # c
        /\ \/ UNCHANGED lock
           \/ lock[k] = c /\ lock' = [lock EXCEPT ![k] = None]
    BY <2>1, UnlockedFrees
  <2> HIDE DEF r
  <2> QED BY <2>1, <2>2, <2>3, StepKeeps
<1> QED BY <1>3, <1>4, <1>5, <1>6, <1>7, <1>8
\* The INSERT: the number that was read under the lock is still the highest
\* of the key, so the row takes the next one and none is refused.
LEMMA CommitsKeeps == ASSUME CaptureInv, NEW c \in Calls, Commits(c) PROVE CaptureInv'
<1> DEFINE k == key[c]
           n == Cardinality(Recorded(k))
           r == Returned(c)
           row == [no |-> n + 1, input |-> "given", output |-> call[c].outcome]
<1>1. /\ CallOK(c) /\ call[c] \in CallRow /\ k \in Keys /\ KeyOK(k)
      /\ call \in [Calls -> CallRow] /\ lock \in [Keys -> Maybe(Calls)]
      /\ case \in [Calls -> Maybe(CaseRow)]
      /\ \A d \in Calls : CallOK(d) /\ key[d] \in Keys
      /\ None \notin Calls /\ None \notin CaseRow
  BY KeyOfCall, NoneAssumption DEF CaptureInv
<1>2. /\ call[c].pc = "numbered" /\ case[c] = None /\ lock[k] = c
      /\ call[c].last = n /\ call[c].snapshot = "given" /\ call[c].outcome # "bare"
      /\ call[c].outcome \in Outcomes
  BY <1>1 DEF Commits, CallOK
<1>3. n \in Nat /\ IsFiniteSet(Recorded(k)) /\ Numbers(k) = 1..n
  BY <1>1, FS_CardinalityType DEF KeyOK
<1>4. row \in CaseRow /\ row # None /\ row.input = "given" /\ row.no = n + 1
  BY <1>1, <1>2, <1>3 DEF CaseRow, Inputs
<1>5. r \in CallRow /\ r.pc = "returned" /\ r.answer = r.outcome
  BY <1>1 DEF Returned, CallRow, Inputs
<1>6. /\ case' = [case EXCEPT ![c] = row]
      /\ call' = [call EXCEPT ![c] = r]
      /\ lock' = [lock EXCEPT ![k] = None]
  <2>1. call[c].last + 1 = n + 1 /\ n + 1 \notin Numbers(k)
    BY <1>2, <1>3
  <2> HIDE DEF n
  <2> QED BY <1>2, <2>1 DEF Commits, Unlocked
<1> HIDE DEF n, r, row
<1>7. /\ call' \in [Calls -> CallRow] /\ case' \in [Calls -> Maybe(CaseRow)]
      /\ lock' \in [Keys -> Maybe(Calls)]
      /\ call'[c] = r /\ case'[c] = row /\ lock'[k] = None
      /\ \A d \in Calls \ {c} : call'[d] = call[d] /\ case'[d] = case[d]
      /\ \A l \in Keys \ {k} : lock'[l] = lock[l]
  BY <1>1, <1>4, <1>5, <1>6 DEF Maybe
\* Only the cases of this key change: one more, with the next number.
<1>8. Recorded(k)' = Recorded(k) \cup {c} /\ c \notin Recorded(k)
  BY <1>2, <1>4, <1>7 DEF Recorded
<1>9. IsFiniteSet(Recorded(k)') /\ Cardinality(Recorded(k)') = n + 1
  BY <1>3, <1>8, FS_AddElement DEF n
<1>10. Numbers(k)' = 1..(n + 1)
  <2>1. Numbers(k)' = {case'[d].no : d \in Recorded(k)'}
    BY DEF Numbers, Recorded
  <2>2. Numbers(k) = {case[d].no : d \in Recorded(k)}
    BY DEF Numbers, Recorded
  <2>3. \A d \in Recorded(k) : case'[d] = case[d]
    BY <1>7, <1>8 DEF Recorded
  <2>4. Numbers(k)' = Numbers(k) \cup {n + 1}
    BY <1>4, <1>7, <1>8, <2>1, <2>2, <2>3
  <2> QED BY <1>3, <2>4
<1>11. \A l \in Keys \ {k} : Recorded(l)' = Recorded(l) /\ Numbers(l)' = Numbers(l)
  BY <1>7 DEF Recorded, Numbers
<1>12. ASSUME NEW d \in Calls PROVE CallOK(d)'
  <2>1. CASE d = c
    BY <1>4, <1>5, <1>7, <2>1 DEF CallOK, Maybe
  <2>2. CASE d # c
    <3>1. CallOK(d) /\ call'[d] = call[d] /\ case'[d] = case[d] /\ key[d] \in Keys
      BY <1>1, <1>7, <2>2
    <3>2. call[d].pc \in {"locked", "numbered"} => key[d] # k
      BY <1>2, <2>2, <3>1 DEF CallOK
    <3> QED BY <1>7, <1>11, <3>1, <3>2 DEF CallOK
  <2> QED BY <2>1, <2>2
<1>13. ASSUME NEW l \in Keys PROVE KeyOK(l)'
  <2>1. CASE l = k
    BY <1>7, <1>9, <1>10, <2>1 DEF KeyOK
  <2>2. CASE l # k
    <3>1. lock'[l] = lock[l] /\ KeyOK(l) /\ (lock[l] # None => lock[l] # c)
      BY <1>7, <2>2 DEF CaptureInv, KeyOK
    <3> QED BY <1>7, <1>11, <2>2, <3>1 DEF KeyOK
  <2> QED BY <2>1, <2>2
<1> QED BY <1>7, <1>12, <1>13 DEF CaptureInv

\* CaptureInv is inductive: the other requests write none of its state.
LEMMA CaptureKept == CaptureInv /\ [Next]_vars => CaptureInv'
<1> SUFFICES ASSUME CaptureInv, [Next]_vars PROVE CaptureInv'
  OBVIOUS
<1>1. CASE UNCHANGED capture
  <2>1. call' = call /\ lock' = lock /\ case' = case
    BY <1>1 DEF capture
  <2>2. \A k : Recorded(k)' = Recorded(k) /\ Numbers(k)' = Numbers(k)
    BY <2>1 DEF Recorded, Numbers
  <2>3. /\ \A c \in Calls : CallOK(c) => CallOK(c)'
        /\ \A k \in Keys : KeyOK(k) => KeyOK(k)'
    BY <2>1, <2>2 DEF CallOK, KeyOK
  <2> QED BY <2>1, <2>3 DEF CaptureInv
<1>2. ASSUME NEW c \in Calls, Capture(c) PROVE CaptureInv'
  BY <1>2, BeforeRowKeeps, CommitsKeeps DEF Capture, Records
<1> QED BY <1>1, <1>2 DEF Next, Judge, Confirm, Replay, vars, capture

LEMMA CaptureStarts == Init => CaptureInv
<1> SUFFICES ASSUME Init PROVE CaptureInv
  OBVIOUS
<1>1. NewCall \in CallRow
  BY DEF NewCall, CallRow, Inputs, Maybe
<1>2. /\ call \in [Calls -> CallRow] /\ lock \in [Keys -> Maybe(Calls)]
      /\ case \in [Calls -> Maybe(CaseRow)]
  BY <1>1 DEF Init, Maybe
<1>3. ASSUME NEW c \in Calls PROVE CallOK(c)
  BY <1>1 DEF Init, CallOK, NewCall, Maybe
<1>4. ASSUME NEW k \in Keys PROVE KeyOK(k)
  <2>1. Recorded(k) = {} /\ Numbers(k) = {}
    BY DEF Init, Recorded, Numbers
  <2> QED BY <2>1, FS_EmptySet DEF Init, KeyOK
<1> QED BY <1>2, <1>3, <1>4 DEF CaptureInv

(***************************************************************************)
(* The cases of a module of a run are numbered from 1 without a gap or a   *)
(* double, however many branches record at once, and only a case whose     *)
(* recorder failed is missing (SqlEvaluationCaseStore.record under         *)
(* pg_advisory_xact_lock, and safe_record).                                *)
(***************************************************************************)
THEOREM CasesAreNumbered == Spec => []CasesNumbered
<1>1. CaptureInv => CasesNumbered
  <2> SUFFICES ASSUME CaptureInv PROVE CasesNumbered
    OBVIOUS
  <2>1. ASSUME NEW k \in Keys
        PROVE  {case[c].no : c \in Recorded(k)} = 1..Cardinality(Recorded(k))
    <3>1. Numbers(k) = {case[c].no : c \in Recorded(k)}
      BY DEF Numbers, Recorded
    <3> QED BY <3>1 DEF CaptureInv, KeyOK
  <2>2. ASSUME NEW c \in Calls, call[c].pc = "returned", call[c].snapshot # None,
               ~call[c].faulted
        PROVE  case[c] # None \/ call[c].outcome = "bare"
    BY <2>2 DEF CaptureInv, CallOK
  <2> QED BY <2>1, <2>2 DEF CasesNumbered, Recorded
<1> QED BY <1>1, CaptureStarts, CaptureKept, PTL DEF Spec

(***************************************************************************)
(* Whoever holds the lock of a key is about to commit or roll back, and a  *)
(* call comes back with what its module did, recorded or not, unless the   *)
(* result is no JSON object (capture_call).                                *)
(***************************************************************************)
THEOREM RecordingCostsNothing == Spec => []CallsGoOn
<1>1. CaptureInv => CallsGoOn
  BY DEF CaptureInv, CallOK, KeyOK, CallsGoOn
<1> QED BY <1>1, CaptureStarts, CaptureKept, PTL DEF Spec
-------------------------------------------------------------------------------
(* Judge, confirm and the dataset.                                         *)

JudgeRow == [pc : {"new", "next", "judging", "done"}, left : SUBSET Calls,
             at : Maybe(Calls), answers : [Calls -> Maybe(Answers)]]

Statuses == {0, 200, 404, 409, 422, 500}
ConfirmRow == [pc : {"new", "checked", "read", "done"}, at : Maybe(Calls), found : BOOLEAN,
               answer : Statuses]

ReviewTyped ==
    /\ annotation \in [Calls -> Maybe(AnnotationRow)]
    /\ dataset \in [Calls -> Maybe(DatasetItem)]
    /\ judge \in [Judges -> JudgeRow]
    /\ confirm \in [Confirmers -> ConfirmRow]

JudgeOK(j) == judge[j].pc = "judging" => judge[j].at \in Calls

\* A confirmation that has not ended is of a case, and what it found of the
\* annotation is still there: annotations are never deleted.
ConfirmOK(k) ==
    /\ confirm[k].pc # "done" => confirm[k].answer \notin {200, 500}
    /\ confirm[k].pc \in {"checked", "read"}
           => confirm[k].at \in Calls /\ case[confirm[k].at] # None
    /\ confirm[k].pc = "read" /\ confirm[k].found => annotation[confirm[k].at] # None

Accepted(c) == Confirmed(c, {200})

\* What the judge says of a case is the case's annotation.
ToldOK(c) ==
    /\ \A i, j \in Told(c, "annotated") : i = j
    /\ Told(c, "annotated") # {}
           => annotation[c] # None /\ annotation[c].by \in {"rule", "llm"}
    /\ Told(c, "skipped") # {} => annotation[c] # None

\* What confirmations say of a case is in the dataset.
ItemOK(c) ==
    /\ annotation[c] # None /\ annotation[c].by = "human" => dataset[c] # None
    /\ (annotation[c] # None /\ annotation[c].review = "confirmed") <=> dataset[c] # None
    /\ dataset[c] = None => Accepted(c) = {}
    /\ dataset[c] # None => /\ Accepted(c) \subseteq {dataset[c].golden}
                            /\ dataset[c].golden \in Confirmed(c, {200, 500})
                            /\ dataset[c].input = "given"

ReviewInv ==
    /\ ReviewTyped
    /\ \A j \in Judges : JudgeOK(j)
    /\ \A k \in Confirmers : ConfirmOK(k)
    /\ \A c \in Calls : ToldOK(c) /\ ItemOK(c)

\* Capturing calls adds cases and takes none away.
LEMMA CasesStay == ASSUME CaptureInv, [Next]_vars, NEW c \in Calls, case[c] # None
                   PROVE  case'[c] = case[c]
<1>1. CASE UNCHANGED case
  BY <1>1
<1>2. ASSUME NEW d \in Calls, Commits(d) PROVE case'[c] = case[c]
  <2>1. case[d] = None /\ case \in [Calls -> Maybe(CaseRow)]
    BY <1>2 DEF Commits, CaptureInv, CallOK
  <2> QED BY <1>2, <2>1 DEF Commits
<1> QED BY <1>1, <1>2
        DEF Next, vars, Capture, Records, Uncaptured, CallsModule, DraftFails, TakesLock,
            ReadsLast, RecorderFails, Judge, Confirm, Replay

\* Steps of calls and replays write nothing a review reads but the cases.
LEMMA OthersKeepReview ==
    ASSUME CaptureInv, ReviewInv, [Next]_vars,
           UNCHANGED <<annotation, dataset, judge, confirm>>
    PROVE  ReviewInv'
<1>1. \A k \in Confirmers : ConfirmOK(k)'
  BY CasesStay DEF ReviewInv, ConfirmOK
<1>2. \A c \in Calls : Told(c, "annotated")' = Told(c, "annotated")
                     /\ Told(c, "skipped")' = Told(c, "skipped")
                     /\ Accepted(c)' = Accepted(c)
                     /\ Confirmed(c, {200, 500})' = Confirmed(c, {200, 500})
  BY DEF Told, Accepted, Confirmed
<1>3. \A c \in Calls : ToldOK(c)' /\ ItemOK(c)'
  BY <1>2 DEF ReviewInv, ToldOK, ItemOK
<1> QED BY <1>1, <1>3 DEF ReviewInv, ReviewTyped, JudgeOK

LEMMA NoneIsNoRow ==
    /\ None \notin Calls /\ None \notin Answers /\ None \notin AnnotationRow
    /\ None \notin DatasetItem
BY NoneAssumption

\* A row the judge writes.
LEMMA AnnotatedRow ==
    ASSUME NEW c \in Calls, NEW score \in JudgeScores(case[c].output)
    PROVE  /\ Annotated(c, score) \in AnnotationRow
           /\ Annotated(c, score).by \in {"rule", "llm"}
           /\ Annotated(c, score).review = "pending"
BY DEF Annotated, AnnotationRow, Verdict, JudgeScores

\* A step of request j that only answers or goes on keeps the review: it may
\* say "skipped" of a case that is annotated, and never "annotated".
LEMMA JudgeGoesOn ==
    ASSUME CaptureInv, ReviewInv, NEW j \in Judges, NEW r \in JudgeRow,
           judge' = [judge EXCEPT ![j] = r],
           UNCHANGED <<case, annotation, dataset, confirm>>,
           r.pc = "judging" => r.at \in Calls,
           \A c \in Calls :
               \/ r.answers[c] = judge[j].answers[c]
               \/ r.answers[c] = "error"
               \/ r.answers[c] = "skipped" /\ annotation[c] # None
    PROVE  ReviewInv'
<1>1. /\ judge \in [Judges -> JudgeRow] /\ judge' \in [Judges -> JudgeRow] /\ judge'[j] = r
      /\ \A i \in Judges \ {j} : judge'[i] = judge[i]
  BY DEF ReviewInv, ReviewTyped
<1>2. \A i \in Judges : JudgeOK(i)'
  BY <1>1 DEF ReviewInv, JudgeOK
<1>3. ASSUME NEW c \in Calls PROVE ToldOK(c)'
  <2>1. Told(c, "annotated")' \subseteq Told(c, "annotated")
    BY <1>1 DEF Told
  <2>2. annotation[c] # None \/ Told(c, "skipped")' \subseteq Told(c, "skipped")
    BY <1>1 DEF Told
  <2> QED BY <2>1, <2>2 DEF ReviewInv, ToldOK
<1>4. \A c \in Calls : /\ Accepted(c)' = Accepted(c)
                       /\ Confirmed(c, {200, 500})' = Confirmed(c, {200, 500})
  BY DEF Accepted, Confirmed
<1> QED BY <1>1, <1>2, <1>3, <1>4 DEF ReviewInv, ReviewTyped, ConfirmOK, ItemOK

\* A request answers for a case it still has to answer for.
LEMMA AnswerRow ==
    ASSUME NEW batch \in JudgeRow, NEW c \in Calls, NEW answer \in Answers
    PROVE  /\ Answer(batch, c, answer) \in JudgeRow
           /\ Answer(batch, c, answer).pc # "judging"
           /\ Answer(batch, c, answer).answers[c] = answer
           /\ \A d \in Calls \ {c} : Answer(batch, c, answer).answers[d] = batch.answers[d]
<1> DEFINE a == [batch.answers EXCEPT ![c] = answer]
           r == Answer(batch, c, answer)
<1>1. a \in [Calls -> Maybe(Answers)] /\ a[c] = answer
      /\ \A d \in Calls \ {c} : a[d] = batch.answers[d]
  BY DEF JudgeRow, Maybe
<1>2. r = [batch EXCEPT !.pc = IF batch.left = {c} THEN "done" ELSE "next",
                        !.left = batch.left \ {c}, !.at = None, !.answers = a]
  BY DEF Answer, JudgeRow
<1> HIDE DEF a
<1> QED BY <1>1, <1>2 DEF JudgeRow, Maybe

\* The judge writes an annotation only where there is none, so nobody was
\* told "annotated" of the case, nobody confirmed it, and it is no item.
LEMMA AnnotatesKeeps ==
    ASSUME CaptureInv, ReviewInv, NEW j \in Judges, NEW c \in Calls, annotation[c] = None,
           judge[j].pc = "judging",
           judge' = [judge EXCEPT ![j] = Answer(judge[j], c, "annotated")],
           NEW score \in JudgeScores(case[c].output),
           annotation' = [annotation EXCEPT ![c] = Annotated(c, score)],
           UNCHANGED <<case, dataset, confirm>>
    PROVE  ReviewInv'
<1> DEFINE r == Answer(judge[j], c, "annotated")
           row == Annotated(c, score)
<1>1. /\ judge[j] \in JudgeRow /\ judge \in [Judges -> JudgeRow]
      /\ annotation \in [Calls -> Maybe(AnnotationRow)] /\ "annotated" \in Answers
  BY DEF ReviewInv, ReviewTyped, Answers
<1>2. /\ r \in JudgeRow /\ r.pc # "judging" /\ r.answers[c] = "annotated"
      /\ \A d \in Calls \ {c} : r.answers[d] = judge[j].answers[d]
  BY <1>1, AnswerRow
<1>3. /\ row \in AnnotationRow /\ row.by \in {"rule", "llm"} /\ row.review = "pending"
      /\ row # None
  BY AnnotatedRow, NoneIsNoRow
<1> HIDE DEF r, row
<1>4. /\ judge' \in [Judges -> JudgeRow] /\ judge'[j] = r
      /\ \A i \in Judges \ {j} : judge'[i] = judge[i]
      /\ annotation' \in [Calls -> Maybe(AnnotationRow)] /\ annotation'[c] = row
      /\ \A d \in Calls \ {c} : annotation'[d] = annotation[d]
  BY <1>1, <1>2, <1>3 DEF r, row, Maybe
<1>5. \A i \in Judges : JudgeOK(i)'
  BY <1>2, <1>4 DEF ReviewInv, JudgeOK
<1>6. \A k \in Confirmers : ConfirmOK(k)'
  BY <1>3, <1>4 DEF ReviewInv, ConfirmOK
<1>7. ASSUME NEW d \in Calls PROVE ToldOK(d)'
  <2>1. CASE d = c
    <3>1. Told(c, "annotated") = {}
      BY DEF ReviewInv, ToldOK
    <3>2. Told(c, "annotated")' = {j}
      BY <1>2, <1>4, <3>1 DEF Told
    <3> QED BY <1>3, <1>4, <2>1, <3>2 DEF ToldOK
  <2>2. CASE d # c
    <3>1. /\ Told(d, "annotated")' = Told(d, "annotated")
          /\ Told(d, "skipped")' = Told(d, "skipped")
      BY <1>2, <1>4, <2>2 DEF Told
    <3> QED BY <1>4, <2>2, <3>1 DEF ReviewInv, ToldOK
  <2> QED BY <2>1, <2>2
<1>8. ASSUME NEW d \in Calls PROVE ItemOK(d)'
  <2>1. /\ Accepted(d)' = Accepted(d) /\ dataset'[d] = dataset[d] /\ ItemOK(d)
        /\ Confirmed(d, {200, 500})' = Confirmed(d, {200, 500})
    BY DEF Accepted, Confirmed, ReviewInv
  <2>2. CASE d = c
    <3>1. /\ annotation'[d].by # "human" /\ annotation'[d].review # "confirmed"
          /\ dataset[d] = None /\ Accepted(d) = {}
      BY <1>3, <1>4, <2>1, <2>2 DEF ItemOK
    <3> QED BY <2>1, <3>1 DEF ItemOK
  <2>3. CASE d # c
    BY <1>4, <2>1, <2>3 DEF ItemOK
  <2> QED BY <2>2, <2>3
<1> QED BY <1>4, <1>5, <1>6, <1>7, <1>8 DEF ReviewInv, ReviewTyped

\* batch_judge.
LEMMA JudgeKeeps == ASSUME CaptureInv, ReviewInv, NEW j \in Judges, Judge(j) PROVE ReviewInv'
<1> DEFINE c == judge[j].at
<1>1. /\ judge[j] \in JudgeRow /\ judge \in [Judges -> JudgeRow] /\ JudgeOK(j)
      /\ UNCHANGED <<case, dataset, confirm>>
      /\ "error" \in Answers /\ "skipped" \in Answers
  BY DEF ReviewInv, ReviewTyped, Judge, Answers
<1>2. CASE JudgeStarts(j)
  <2>1. PICK batch \in Batches :
            judge' = [judge EXCEPT ![j] = [@ EXCEPT !.pc = "next", !.left = batch]]
    BY <1>2 DEF JudgeStarts
  <2> DEFINE r == [judge[j] EXCEPT !.pc = "next", !.left = batch]
  <2>2. batch \in SUBSET Calls
    BY DEF Batches, kSubset
  <2>3. /\ r \in JudgeRow /\ judge' = [judge EXCEPT ![j] = r] /\ r.pc = "next"
        /\ r.answers = judge[j].answers /\ UNCHANGED annotation
    BY <1>1, <1>2, <2>1, <2>2 DEF JudgeStarts, JudgeRow
  <2> HIDE DEF r
  <2> QED BY <1>1, <2>3, JudgeGoesOn
<1>3. CASE JudgeReads(j)
  <2>1. PICK d \in judge[j].left :
            judge' = [judge EXCEPT ![j] =
               IF case[d] = None THEN Answer(@, d, "error")
               ELSE IF annotation[d] # None THEN Answer(@, d, "skipped")
               ELSE [@ EXCEPT !.pc = "judging", !.at = d]]
    BY <1>3 DEF JudgeReads
  <2>2. d \in Calls /\ UNCHANGED annotation
    BY <1>1, <1>3 DEF JudgeReads, JudgeRow
  <2>3. CASE case[d] = None
    <3> DEFINE r == Answer(judge[j], d, "error")
    <3>1. judge' = [judge EXCEPT ![j] = r]
      BY <2>1, <2>3
    <3>2. /\ r \in JudgeRow /\ r.pc # "judging" /\ r.answers[d] = "error"
          /\ \A e \in Calls \ {d} : r.answers[e] = judge[j].answers[e]
      BY <1>1, <2>2, AnswerRow
    <3>3. \A e \in Calls : \/ r.answers[e] = judge[j].answers[e]
                           \/ r.answers[e] = "error"
                           \/ r.answers[e] = "skipped" /\ annotation[e] # None
      BY <3>2
    <3> HIDE DEF r
    <3> QED BY <1>1, <2>2, <3>1, <3>2, <3>3, JudgeGoesOn
  <2>4. CASE case[d] # None /\ annotation[d] # None
    <3> DEFINE r == Answer(judge[j], d, "skipped")
    <3>1. judge' = [judge EXCEPT ![j] = r]
      BY <2>1, <2>4
    <3>2. /\ r \in JudgeRow /\ r.pc # "judging" /\ r.answers[d] = "skipped"
          /\ \A e \in Calls \ {d} : r.answers[e] = judge[j].answers[e]
      BY <1>1, <2>2, AnswerRow
    <3>3. \A e \in Calls : \/ r.answers[e] = judge[j].answers[e]
                           \/ r.answers[e] = "error"
                           \/ r.answers[e] = "skipped" /\ annotation[e] # None
      BY <2>4, <3>2
    <3> HIDE DEF r
    <3> QED BY <1>1, <2>2, <3>1, <3>2, <3>3, JudgeGoesOn
  <2>5. CASE case[d] # None /\ annotation[d] = None
    <3> DEFINE r == [judge[j] EXCEPT !.pc = "judging", !.at = d]
    <3>1. judge' = [judge EXCEPT ![j] = r]
      BY <2>1, <2>5
    <3>2. r \in JudgeRow /\ r.at = d /\ r.answers = judge[j].answers
      BY <1>1, <2>2 DEF JudgeRow, Maybe
    <3> HIDE DEF r
    <3> QED BY <1>1, <2>2, <3>1, <3>2, JudgeGoesOn
  <2> QED BY <2>3, <2>4, <2>5
<1>4. CASE JudgeWrites(j)
  <2>1. c \in Calls /\ judge[j].pc = "judging"
    BY <1>1, <1>4 DEF JudgeWrites, JudgeOK
  <2>2. ASSUME NEW answer \in {"error", "skipped"},
               judge' = [judge EXCEPT ![j] = Answer(@, c, answer)], UNCHANGED annotation,
               answer = "skipped" => annotation[c] # None
        PROVE  ReviewInv'
    <3> DEFINE r == Answer(judge[j], c, answer)
    <3>1. judge' = [judge EXCEPT ![j] = r]
      BY <2>2
    <3>2. /\ r \in JudgeRow /\ r.pc # "judging" /\ r.answers[c] = answer
          /\ \A e \in Calls \ {c} : r.answers[e] = judge[j].answers[e]
      BY <1>1, <2>1, AnswerRow
    <3>3. \A e \in Calls : \/ r.answers[e] = judge[j].answers[e]
                           \/ r.answers[e] = "error"
                           \/ r.answers[e] = "skipped" /\ annotation[e] # None
      BY <2>2, <3>2
    <3> HIDE DEF r
    <3> QED BY <1>1, <2>1, <2>2, <3>1, <3>2, <3>3, JudgeGoesOn
  <2>3. CASE JudgeFails(j)
    BY <2>2, <2>3 DEF JudgeFails
  <2>4. ASSUME NEW score \in JudgeScores(case[c].output), annotation[c] = None,
               judge' = [judge EXCEPT ![j] = Answer(@, c, "annotated")],
               annotation' = [annotation EXCEPT ![c] = Annotated(c, score)]
        PROVE  ReviewInv'
    <3>1. judge' = [judge EXCEPT ![j] = Answer(judge[j], c, "annotated")]
      BY <2>4
    <3> QED BY <1>1, <2>1, <2>4, <3>1, AnnotatesKeeps
  <2> QED BY <1>4, <2>2, <2>3, <2>4 DEF JudgeWrites
<1> QED BY <1>2, <1>3, <1>4 DEF Judge

\* A step of request k that is not accepted keeps the review.
LEMMA ConfirmGoesOn ==
    ASSUME CaptureInv, ReviewInv, NEW k \in Confirmers, NEW r \in ConfirmRow,
           confirm[k].answer \notin {200, 500}, r.answer # 200,
           r.pc # "done" => r.answer # 500,
           confirm' = [confirm EXCEPT ![k] = r],
           UNCHANGED <<case, annotation, dataset, judge>>,
           r.pc \in {"checked", "read"} => r.at \in Calls /\ case[r.at] # None,
           r.pc = "read" /\ r.found => annotation[r.at] # None
    PROVE  ReviewInv'
<1>1. /\ confirm \in [Confirmers -> ConfirmRow] /\ confirm' \in [Confirmers -> ConfirmRow]
      /\ confirm'[k] = r /\ \A i \in Confirmers \ {k} : confirm'[i] = confirm[i]
  BY DEF ReviewInv, ReviewTyped
<1>2. \A i \in Confirmers : ConfirmOK(i)'
  BY <1>1 DEF ReviewInv, ConfirmOK
<1>3. \A c \in Calls : /\ Accepted(c)' = Accepted(c)
                       /\ Confirmed(c, {200, 500}) \subseteq Confirmed(c, {200, 500})'
  <2> SUFFICES ASSUME NEW c \in Calls
               PROVE  /\ Accepted(c)' = Accepted(c)
                      /\ Confirmed(c, {200, 500}) \subseteq Confirmed(c, {200, 500})'
    OBVIOUS
  <2>1. \A i \in Confirmers : i = k \/ confirm'[i] = confirm[i]
    BY <1>1
  <2>2. Accepted(c)' = Accepted(c)
    <3>1. Accepted(c)' \subseteq Accepted(c)
      BY <1>1, <2>1 DEF Accepted, Confirmed
    <3>2. Accepted(c) \subseteq Accepted(c)'
      BY <2>1 DEF Accepted, Confirmed
    <3> QED BY <3>1, <3>2
  <2>3. k \notin Confirmed(c, {200, 500})
    BY DEF Confirmed
  <2>4. Confirmed(c, {200, 500}) \subseteq Confirmed(c, {200, 500})'
    BY <2>1, <2>3 DEF Confirmed
  <2> QED BY <2>2, <2>4
<1>4. \A c \in Calls : /\ Told(c, "annotated")' = Told(c, "annotated")
                       /\ Told(c, "skipped")' = Told(c, "skipped")
  BY DEF Told
<1>5. \A c \in Calls : ToldOK(c)' /\ ItemOK(c)'
  BY <1>3, <1>4 DEF ReviewInv, ToldOK, ItemOK
<1> QED BY <1>1, <1>2, <1>5 DEF ReviewInv, ReviewTyped, JudgeOK

\* The transaction of a confirmation that is accepted: the case was no item,
\* so nobody was accepted before; the annotation it found is reviewed, and
\* where it found none there is none.
LEMMA AcceptedKeeps ==
    ASSUME CaptureInv, ReviewInv, NEW k \in Confirmers, NEW c \in Calls,
           confirm[k].pc = "read", confirm[k].at = c, dataset[c] = None,
           confirm[k].found \/ annotation[c] = None,
           annotation' = Reviewed(k), dataset' = [dataset EXCEPT ![c] = Item(k, c)],
           NEW answer \in {200, 500}, Ends(k, answer), UNCHANGED <<case, judge>>
    PROVE  ReviewInv'
<1> DEFINE r == [confirm[k] EXCEPT !.pc = "done", !.answer = answer]
           row == IF confirm[k].found THEN [annotation[c] EXCEPT !.review = "confirmed"]
                  ELSE ByHuman
           item == Item(k, c)
<1>1. /\ confirm \in [Confirmers -> ConfirmRow] /\ confirm[k] \in ConfirmRow /\ ConfirmOK(k)
      /\ annotation \in [Calls -> Maybe(AnnotationRow)]
      /\ dataset \in [Calls -> Maybe(DatasetItem)]
      /\ case[c] # None /\ (confirm[k].found <=> annotation[c] # None)
      /\ ToldOK(c) /\ ItemOK(c)
  BY DEF ReviewInv, ReviewTyped, ConfirmOK, ConfirmRow
<1>2. /\ row \in AnnotationRow /\ row # None /\ row.review = "confirmed"
      /\ annotation[c] # None => row.by = annotation[c].by
  <2>1. CASE annotation[c] = None
    BY <1>1, <2>1, NoneIsNoRow DEF ByHuman, AnnotationRow
  <2>2. CASE annotation[c] # None
    <3>1. annotation[c] \in AnnotationRow /\ row = [annotation[c] EXCEPT !.review = "confirmed"]
      BY <1>1, <2>2 DEF Maybe
    <3> QED BY <3>1, NoneIsNoRow DEF AnnotationRow
  <2> QED BY <2>1, <2>2
<1>3. item \in DatasetItem /\ item.golden = k /\ item.input = "given" /\ item # None
  <2>1. case[c].input = "given"
    BY <1>1 DEF CaptureInv, CallOK
  <2> QED BY <2>1, NoneIsNoRow DEF Item, DatasetItem, Inputs
<1>4. r \in ConfirmRow /\ r.at = c /\ r.answer = answer /\ r.pc = "done"
  <2>1. confirm[k] \in ConfirmRow /\ confirm[k].at = c
    BY <1>1
  <2>2. answer \in Statuses
    BY DEF Statuses
  <2>3. r = [confirm[k] EXCEPT !.pc = "done", !.answer = answer]
    OBVIOUS
  <2> HIDE DEF r
  <2> QED BY <2>1, <2>2, <2>3 DEF ConfirmRow
<1>5. /\ annotation' = [annotation EXCEPT ![c] = row]
      /\ confirm' = [confirm EXCEPT ![k] = r]
  BY DEF Reviewed, Ends
<1>6. dataset' = [dataset EXCEPT ![c] = item]
  OBVIOUS
<1> HIDE DEF r, row, item
<1>7. /\ annotation' \in [Calls -> Maybe(AnnotationRow)] /\ annotation'[c] = row
      /\ dataset' \in [Calls -> Maybe(DatasetItem)] /\ dataset'[c] = item
      /\ confirm' \in [Confirmers -> ConfirmRow] /\ confirm'[k] = r
      /\ \A d \in Calls \ {c} : annotation'[d] = annotation[d] /\ dataset'[d] = dataset[d]
      /\ \A i \in Confirmers \ {k} : confirm'[i] = confirm[i]
  BY <1>1, <1>2, <1>3, <1>4, <1>5, <1>6 DEF Maybe
<1>8. \A d \in Calls : annotation[d] # None => annotation'[d] # None
  BY <1>2, <1>7
<1>9. ASSUME NEW i \in Confirmers PROVE ConfirmOK(i)'
  <2>1. CASE i = k
    BY <1>4, <1>7, <2>1 DEF ConfirmOK
  <2>2. CASE i # k
    BY <1>7, <1>8, <2>2 DEF ReviewInv, ConfirmOK
  <2> QED BY <2>1, <2>2
<1>10. ASSUME NEW d \in Calls PROVE ToldOK(d)'
  <2>1. /\ Told(d, "annotated")' = Told(d, "annotated")
        /\ Told(d, "skipped")' = Told(d, "skipped") /\ ToldOK(d)
    BY DEF Told, ReviewInv
  <2>2. annotation[d] # None => annotation'[d].by = annotation[d].by
    BY <1>2, <1>7
  <2> QED BY <1>8, <2>1, <2>2 DEF ToldOK
<1>11. ASSUME NEW d \in Calls PROVE ItemOK(d)'
  <2>1. CASE d = c
    <3>1. Accepted(c) = {}
      BY <1>1 DEF ItemOK
    <3>2. Accepted(c)' \subseteq {k} /\ k \in Confirmed(c, {200, 500})'
      BY <1>4, <1>7, <3>1 DEF Accepted, Confirmed
    <3>3. ItemOK(c)'
      BY <1>2, <1>3, <1>7, <3>2 DEF ItemOK
    <3> QED BY <2>1, <3>3
  <2>2. CASE d # c
    <3>1. /\ Accepted(d)' = Accepted(d) /\ ItemOK(d)
          /\ Confirmed(d, {200, 500})' = Confirmed(d, {200, 500})
      BY <1>4, <1>7, <2>2 DEF Accepted, Confirmed, ReviewInv
    <3> QED BY <1>7, <2>2, <3>1 DEF ItemOK
  <2> QED BY <2>1, <2>2
<1> QED BY <1>7, <1>9, <1>10, <1>11 DEF ReviewInv, ReviewTyped, JudgeOK

\* confirm_golden.
LEMMA ConfirmKeeps ==
    ASSUME CaptureInv, ReviewInv, NEW k \in Confirmers, Confirm(k) PROVE ReviewInv'
<1>1. /\ confirm[k] \in ConfirmRow /\ ConfirmOK(k) /\ UNCHANGED <<case, judge>>
  BY DEF ReviewInv, ReviewTyped, Confirm
<1>2. ASSUME NEW status \in Statuses \ {200}, Ends(k, status), confirm[k].pc # "done",
             UNCHANGED <<annotation, dataset>>
      PROVE  ReviewInv'
  <2> DEFINE r == [confirm[k] EXCEPT !.pc = "done", !.answer = status]
  <2>1. confirm[k].answer \notin {200, 500}
    BY <1>1, <1>2 DEF ConfirmOK
  <2>2. confirm' = [confirm EXCEPT ![k] = r]
    BY <1>2 DEF Ends
  <2>3. r \in ConfirmRow /\ r.pc = "done" /\ r.answer = status
    <3>1. confirm[k] \in ConfirmRow /\ status \in Statuses
      BY <1>1, <1>2
    <3> QED BY <3>1 DEF ConfirmRow
  <2>4. /\ r \in ConfirmRow /\ r.answer # 200 /\ r.pc = "done"
        /\ r.pc \in {"checked", "read"} => r.at \in Calls /\ case[r.at] # None
        /\ r.pc = "read" /\ r.found => annotation[r.at] # None
    BY <2>3 DEF Statuses
  <2>5. UNCHANGED <<case, annotation, dataset, judge>>
    BY <1>1, <1>2
  <2> HIDE DEF r
  <2> QED BY <2>1, <2>2, <2>4, <2>5, ConfirmGoesOn
<1>3. CASE ConfirmChecks(k)
  <2>1. confirm[k].pc = "new" /\ UNCHANGED <<annotation, dataset>>
    BY <1>3 DEF ConfirmChecks
  <2>2. ASSUME NEW c \in Calls, case[c] # None,
               confirm' = [confirm EXCEPT ![k] = [@ EXCEPT !.pc = "checked", !.at = c]]
        PROVE  ReviewInv'
    <3> DEFINE r == [confirm[k] EXCEPT !.pc = "checked", !.at = c]
    <3>1. /\ r \in ConfirmRow /\ confirm' = [confirm EXCEPT ![k] = r] /\ r.pc = "checked"
          /\ r.at = c /\ r.answer = confirm[k].answer
      BY <1>1, <2>1, <2>2 DEF ConfirmRow, Maybe
    <3> HIDE DEF r
    <3>2. /\ UNCHANGED <<case, annotation, dataset, judge>>
          /\ r.pc \in {"checked", "read"} => r.at \in Calls /\ case[r.at] # None
          /\ r.pc = "read" /\ r.found => annotation[r.at] # None
          /\ confirm[k].answer \notin {200, 500}
      BY <1>1, <2>1, <2>2, <3>1 DEF ConfirmOK
    <3> QED BY <3>1, <3>2, ConfirmGoesOn
  <2>3. ASSUME NEW status \in {404, 409, 422}, Ends(k, status) PROVE ReviewInv'
    BY <1>2, <2>1, <2>3 DEF Statuses
  <2>4. Ends(k, 404) \/ Ends(k, 409) \/ Ends(k, 422) => ReviewInv'
    BY <2>3
  <2> QED BY <1>3, <2>2, <2>4, Zenon DEF ConfirmChecks
<1>4. CASE ConfirmReads(k)
  <2> DEFINE found == annotation[confirm[k].at] # None
             r == [confirm[k] EXCEPT !.pc = "read", !.found = found]
  <2>1. /\ confirm' = [confirm EXCEPT ![k] = r] /\ confirm[k].pc = "checked"
        /\ UNCHANGED <<annotation, dataset>>
    BY <1>4 DEF ConfirmReads
  <2>2. found \in BOOLEAN
    OBVIOUS
  <2>3. /\ r \in ConfirmRow /\ r.pc = "read" /\ r.at = confirm[k].at /\ r.found = found
        /\ r.answer = confirm[k].answer
    <3> HIDE DEF found
    <3> QED BY <1>1, <2>2 DEF ConfirmRow
  <2>4. /\ confirm[k].at \in Calls /\ case[confirm[k].at] # None
        /\ confirm[k].answer \notin {200, 500}
    BY <1>1, <2>1 DEF ConfirmOK
  <2>5. r.found => annotation[r.at] # None
    BY <2>3
  <2>6. /\ UNCHANGED <<case, annotation, dataset, judge>>
        /\ r.pc \in {"checked", "read"} => r.at \in Calls /\ case[r.at] # None
        /\ r.pc = "read" /\ r.found => annotation[r.at] # None
    BY <1>1, <2>1, <2>3, <2>4, <2>5
  <2> HIDE DEF r, found
  <2> QED BY <2>1, <2>3, <2>4, <2>6, ConfirmGoesOn
<1>5. CASE ConfirmCommits(k)
  <2> DEFINE c == confirm[k].at
             taken == dataset[c] # None \/ (~confirm[k].found /\ annotation[c] # None)
  <2>1. confirm[k].pc = "read" /\ c \in Calls
    BY <1>1, <1>5 DEF ConfirmCommits, ConfirmOK
  <2>2. CASE taken
    BY <1>2, <1>5, <2>1, <2>2 DEF ConfirmCommits, Statuses
  <2>3. CASE ~taken
    BY <1>1, <1>5, <2>1, <2>3, AcceptedKeeps DEF ConfirmCommits
  <2> QED BY <2>2, <2>3
<1>6. CASE ConfirmFails(k)
  BY <1>2, <1>6 DEF ConfirmFails, Statuses
<1> QED BY <1>3, <1>4, <1>5, <1>6 DEF Confirm

\* ReviewInv is inductive.
LEMMA ReviewKept == CaptureInv /\ ReviewInv /\ [Next]_vars => ReviewInv'
<1> SUFFICES ASSUME CaptureInv, ReviewInv, [Next]_vars PROVE ReviewInv'
  OBVIOUS
<1>1. CASE UNCHANGED <<annotation, dataset, judge, confirm>>
  BY <1>1, OthersKeepReview
<1> QED BY <1>1, JudgeKeeps, ConfirmKeeps DEF Next, Capture, Replay, vars

LEMMA ReviewStarts == Init => ReviewInv
<1> SUFFICES ASSUME Init PROVE ReviewInv
  OBVIOUS
<1>1. NewBatch \in JudgeRow /\ NewConfirm \in ConfirmRow
  BY DEF NewBatch, JudgeRow, NewConfirm, ConfirmRow, Statuses, Maybe
<1>2. ReviewTyped
  BY <1>1 DEF Init, ReviewTyped, Maybe
<1>3. \A c \in Calls : /\ Told(c, "annotated") = {} /\ Told(c, "skipped") = {}
                       /\ Accepted(c) = {}
  BY NoneIsNoRow DEF Init, NewBatch, NewConfirm, Told, Accepted, Confirmed, Answers
<1>4. \A c \in Calls : ToldOK(c) /\ ItemOK(c)
  BY <1>3 DEF Init, ToldOK, ItemOK
<1> QED BY <1>2, <1>4 DEF Init, NewBatch, NewConfirm, ReviewInv, JudgeOK, ConfirmOK

(***************************************************************************)
(* A case has one annotation and the answers tell whose it is: at most one *)
(* request is told "annotated" and then the annotation is the judge's,     *)
(* "skipped" means that there is one, and an annotation a person made      *)
(* belongs to a confirmation that was answered 200 or 500 (batch_judge and *)
(* confirm_golden, whatever they interleave and where the database fails). *)
(***************************************************************************)
THEOREM CasesAnnotatedOnce == Spec => []AnnotatedOnce
<1>1. ReviewInv => AnnotatedOnce
  <2> SUFFICES ASSUME ReviewInv, NEW c \in Calls
               PROVE  /\ Cardinality(Told(c, "annotated")) <= 1
                      /\ Told(c, "annotated") # {}
                             => annotation[c] # None /\ annotation[c].by \in {"rule", "llm"}
                      /\ Told(c, "skipped") # {} => annotation[c] # None
                      /\ annotation[c] # None /\ annotation[c].by = "human"
                             => Confirmed(c, {200, 500}) # {}
    BY DEF AnnotatedOnce
  <2>1. ToldOK(c) /\ ItemOK(c)
    BY DEF ReviewInv
  <2>2. Cardinality(Told(c, "annotated")) <= 1
    <3>1. CASE Told(c, "annotated") = {}
      BY <3>1, FS_EmptySet
    <3>2. CASE Told(c, "annotated") # {}
      <4>1. PICK j : Told(c, "annotated") = {j}
        BY <2>1, <3>2 DEF ToldOK
      <4> QED BY <4>1, FS_Singleton
    <3> QED BY <3>1, <3>2
  <2> QED BY <2>1, <2>2 DEF ToldOK, ItemOK, Accepted
<1> QED BY <1>1, CaptureStarts, CaptureKept, ReviewStarts, ReviewKept, PTL DEF Spec

(***************************************************************************)
(* A case is confirmed exactly when it is in the dataset, with the golden  *)
(* of the one request that was answered 200, or of one that was answered   *)
(* 500 while no other was accepted, and the input the module was given; a  *)
(* request that was refused has left nothing (confirm_golden).             *)
(***************************************************************************)
THEOREM ConfirmedIsItem == Spec => []ConfirmedIsInDataset
<1>1. ReviewInv => ConfirmedIsInDataset
  BY DEF ReviewInv, ItemOK, ConfirmedIsInDataset, Accepted
<1> QED BY <1>1, CaptureStarts, CaptureKept, ReviewStarts, ReviewKept, PTL DEF Spec
===============================================================================
