------------------------ MODULE DocumentPipeline_proofs ------------------------
(***************************************************************************)
(* Proofs about DocumentPipeline for every set of documents and every      *)
(* bound: a search never sees two generations of a document, an index job  *)
(* that succeeds made its run searchable, no job is lost without a fault,  *)
(* and a deletion that meets no other work leaves nothing.  The last part  *)
(* is about the chunks of a run (Chunking), for any document and size.     *)
(***************************************************************************)
EXTENDS DocumentPipeline, Chunking, SequenceTheorems, TLAPS

JobRow == [kind : Kind, doc : Doc, status : JobStatus, rows : BOOLEAN]

\* Where the worker has seen the row of its job and still uses its document.
HoldsRow == {"chunk", "queueIndex", "reading", "clearing", "upserting"}

\* The rows are typed, and the worker's job is one of them where it matters.
JobsKnown ==
    /\ jobs \in Seq(JobRow)
    /\ worker = [at |-> worker.at, job |-> worker.job, run |-> worker.run]
    /\ worker.at \in HoldsRow => worker.job \in DOMAIN jobs

\* Between delete_version and the upsert the document has no vector: no other
\* actor stores any.
ClearedForUpsert ==
    /\ vectors = [d \in Doc |-> vectors[d]]
    /\ worker.at = "upserting" => vectors[WorkerDoc] = {}

IInv == JobsKnown /\ ClearedForUpsert /\ OneGeneration

------------------------------------------------------------------------------
\* What a step does to the rows of jobs.

\* Rows are added and keep their document.
Grown ==
    /\ jobs' \in Seq(JobRow)
    /\ DOMAIN jobs \subseteq DOMAIN jobs'
    /\ \A j \in DOMAIN jobs : jobs'[j].doc = jobs[j].doc

\* Unchanged rows.
LEMMA SameRows == ASSUME JobsKnown, UNCHANGED jobs PROVE Grown
BY DEF JobsKnown, Grown

\* A new row.
LEMMA NewRow ==
    ASSUME JobsKnown, NEW kind \in Kind, NEW d \in Doc, NEW status \in JobStatus,
           jobs' = Append(jobs, NewJob(kind, d, status))
    PROVE  Grown
<1>1. jobs \in Seq(JobRow)
  BY DEF JobsKnown
<1>2. NewJob(kind, d, status) \in JobRow
  BY DEF NewJob, JobRow
<1>3. /\ jobs' \in Seq(JobRow) /\ Len(jobs') = Len(jobs) + 1
      /\ \A i \in 1..Len(jobs) : jobs'[i] = jobs[i]
  BY <1>1, <1>2, AppendProperties
<1> QED BY <1>1, <1>3 DEF Grown

\* Rows that keep their type and their document one by one.
LEMMA ChangedRows ==
    ASSUME JobsKnown, DOMAIN jobs' = DOMAIN jobs, jobs' = [j \in DOMAIN jobs |-> jobs'[j]],
           \A j \in DOMAIN jobs : jobs'[j] \in JobRow /\ jobs'[j].doc = jobs[j].doc
    PROVE  Grown
<1>1. DOMAIN jobs = 1..Len(jobs) /\ Len(jobs) \in Nat
  BY DEF JobsKnown
<1>2. jobs' \in [1..Len(jobs) -> JobRow]
  BY <1>1
<1>3. jobs' \in Seq(JobRow)
  BY <1>1, <1>2
<1> QED BY <1>3 DEF Grown

\* A row that gets another status.
LEMMA StatusSet ==
    ASSUME JobsKnown, NEW j, NEW status \in JobStatus, SetJob(j, status)
    PROVE  Grown
<1>1. \A i \in DOMAIN jobs : jobs[i] \in JobRow
  BY DEF JobsKnown
<1>2. \A i \in DOMAIN jobs : jobs'[i] \in JobRow /\ jobs'[i].doc = jobs[i].doc
  BY <1>1 DEF SetJob, JobRow
<1>3. DOMAIN jobs' = DOMAIN jobs /\ jobs' = [i \in DOMAIN jobs |-> jobs'[i]]
  BY DEF SetJob, JobsKnown
<1> QED BY <1>2, <1>3, ChangedRows

\* The end of parse_version.
LEMMA ParsesRows ==
    ASSUME JobsKnown, NEW j, NEW status \in EndedStatus, NEW put \in BOOLEAN,
           Parses(j, status, put)
    PROVE  Grown
<1>1. CASE ~Exists(j)
  BY <1>1, SameRows DEF Parses
<1>2. CASE Exists(j)
  <2>1. jobs' = [jobs EXCEPT ![j].status = status, ![j].rows = put]
    BY <1>2 DEF Parses
  <2>2. \A i \in DOMAIN jobs : jobs[i] \in JobRow
    BY DEF JobsKnown
  <2>3. \A i \in DOMAIN jobs : jobs'[i] \in JobRow /\ jobs'[i].doc = jobs[i].doc
    BY <2>1, <2>2 DEF JobRow, JobStatus
  <2>4. DOMAIN jobs' = DOMAIN jobs /\ jobs' = [i \in DOMAIN jobs |-> jobs'[i]]
    BY <2>1 DEF JobsKnown
  <2> QED BY <2>3, <2>4, ChangedRows
<1> QED BY <1>1, <1>2

\* The delete statements: a deleted row stays in the model as a tombstone.
LEMMA DeletedRows == ASSUME JobsKnown, NEW d \in Doc, DeleteRows(d) PROVE Grown
<1>1. CASE UNCHANGED jobs
  BY <1>1, SameRows
<1>2. CASE jobs' = [j \in DOMAIN jobs |->
                      IF jobs[j].doc = d
                      THEN [jobs[j] EXCEPT !.status = "deleted", !.rows = FALSE]
                      ELSE jobs[j]]
  <2>1. \A i \in DOMAIN jobs : jobs[i] \in JobRow
    BY DEF JobsKnown
  <2>2. \A i \in DOMAIN jobs : jobs'[i] \in JobRow /\ jobs'[i].doc = jobs[i].doc
    BY <1>2, <2>1 DEF JobRow, JobStatus
  <2>3. DOMAIN jobs' = DOMAIN jobs /\ jobs' = [i \in DOMAIN jobs |-> jobs'[i]]
    BY <1>2
  <2> QED BY <2>2, <2>3, ChangedRows
<1> QED BY <1>1, <1>2 DEF DeleteRows

\* No step takes a row away or gives it another document.
LEMMA JobsGrow == ASSUME IInv, [Next]_vars PROVE Grown
<1> USE DEF IInv
<1>1. CASE UNCHANGED vars
  BY <1>1, SameRows DEF vars
<1>2. ASSUME NEW d \in Doc, Upload(d) PROVE Grown
  BY <1>2, SameRows, NewRow DEF Upload, Inserts, Kind, JobStatus
<1>3. ASSUME NEW d \in Doc, ParseInline(d) PROVE Grown
  BY <1>3, NewRow DEF ParseInline, Kind, JobStatus, EndedStatus
<1>4. ASSUME NEW d \in Doc, NEW kind \in Kind, QueueJob(kind, d) PROVE Grown
  BY <1>4, NewRow DEF QueueJob, Inserts, JobStatus
<1>5. ASSUME NEW j, FinishInline(j) PROVE Grown
  BY <1>5, ParsesRows DEF FinishInline
<1>6. CASE StartParse
  BY <1>6, SameRows, StatusSet DEF StartParse, JobStatus
<1>7. CASE FinishParse
  BY <1>7, ParsesRows DEF FinishParse
<1>8. CASE QueueIndex
  <2>1. CASE UNCHANGED jobs
    BY <2>1, SameRows
  <2>2. CASE jobs' = Append(jobs, NewJob("index", WorkerDoc, "pending"))
    <3>1. worker.job \in DOMAIN jobs
      BY <1>8 DEF QueueIndex, Works, JobsKnown, HoldsRow
    <3>2. jobs[worker.job] \in JobRow
      BY <3>1 DEF JobsKnown
    <3>3. WorkerDoc \in Doc
      BY <3>2 DEF WorkerDoc, JobRow
    <3> QED BY <2>2, <3>3, NewRow DEF Kind, JobStatus
  <2> QED BY <1>8, <2>1, <2>2 DEF QueueIndex
<1>9. CASE StartIndex
  BY <1>9, SameRows, StatusSet DEF StartIndex, JobStatus
<1>10. CASE FinishIndex
  BY <1>10, SameRows, StatusSet DEF FinishIndex, JobStatus, EndedStatus
<1>11. ASSUME NEW d \in Doc, DeleteRows(d) PROVE Grown
  BY <1>11, DeletedRows
<1>12. ASSUME NEW d \in Doc,
              ChunkRequest(d) \/ BeginDelete(d) \/ DeleteVectors(d) \/ DeleteObjects(d)
                  \/ DeleteAborts(d)
       PROVE  Grown
  BY <1>12, SameRows
  DEF ChunkRequest, BeginDelete, DeleteVectors, DeleteObjects, DeleteAborts
<1>13. ASSUME NEW j, PushJob(j) PROVE Grown
  BY <1>13, SameRows DEF PushJob
<1>14. CASE Pop \/ Chunk \/ PushIndex \/ ReadChunks \/ Clear \/ Upsert \/ WorkerStarts
            \/ ApiCrash \/ WorkerCrash
  BY <1>14, SameRows
  DEF Pop, Chunk, PushIndex, ReadChunks, Clear, Upsert, WorkerStarts, ApiCrash, WorkerCrash
<1> QED
  BY <1>1, <1>2, <1>3, <1>4, <1>5, <1>6, <1>7, <1>8, <1>9, <1>10, <1>11, <1>12, <1>13, <1>14
  DEF Next, DeleteStep, ApiStep, WorkerStep

------------------------------------------------------------------------------
\* Where the worker stands.

\* The worker keeps its shape, and what it holds is a row of the tables.
LEMMA JobsKnownKept == ASSUME IInv, [Next]_vars PROVE JobsKnown'
<1> USE DEF IInv
<1>1. Grown
  BY JobsGrow
<1>2. worker = [at |-> worker.at, job |-> worker.job, run |-> worker.run]
      /\ (worker.at \in HoldsRow => worker.job \in DOMAIN jobs)
  BY DEF JobsKnown
<1> SUFFICES /\ worker' = [at |-> worker'.at, job |-> worker'.job, run |-> worker'.run]
             /\ worker'.at \in HoldsRow => worker'.job \in DOMAIN jobs'
  BY <1>1 DEF JobsKnown, Grown
<1>3. CASE UNCHANGED worker
  BY <1>1, <1>2, <1>3 DEF Grown
<1>4. CASE Pop
  BY <1>4 DEF Pop, Idle, HoldsRow, Kind
<1>5. CASE StartParse
  BY <1>2, <1>5 DEF StartParse, Goes, Dead, HoldsRow
<1>6. CASE FinishParse
  BY <1>1, <1>2, <1>6 DEF FinishParse, Exists, Idle, Dead, HoldsRow, Grown
<1>7. CASE Chunk
  BY <1>1, <1>2, <1>7 DEF Chunk, Works, Dead, HoldsRow, Grown
<1>8. CASE QueueIndex
  <2>1. CASE worker' = Dead
    BY <2>1 DEF Dead, HoldsRow
  <2>2. CASE worker' = [worker EXCEPT !.at = "pushIndex", !.job = Len(jobs')]
    <3>1. worker' = [at |-> "pushIndex", job |-> Len(jobs'), run |-> worker.run]
      BY <1>2, <2>2
    <3> QED BY <3>1 DEF HoldsRow
  <2> QED BY <1>8, <2>1, <2>2 DEF QueueIndex
<1>9. CASE StartIndex
  BY <1>1, <1>2, <1>9 DEF StartIndex, Exists, Goes, Dead, HoldsRow, Grown
<1>10. CASE ReadChunks
  BY <1>1, <1>2, <1>10 DEF ReadChunks, Works, HoldsRow, Grown
<1>11. CASE Clear \/ Upsert
  BY <1>1, <1>2, <1>11 DEF Clear, Upsert, Works, Goes, HoldsRow, Grown
<1>12. CASE PushIndex \/ FinishIndex \/ WorkerStarts \/ WorkerCrash
  BY <1>12 DEF PushIndex, FinishIndex, WorkerStarts, WorkerCrash, Idle, Dead, HoldsRow
<1>13. ASSUME NEW d \in Doc,
              \/ Upload(d) \/ ParseInline(d) \/ ChunkRequest(d) \/ BeginDelete(d)
              \/ DeleteVectors(d) \/ DeleteObjects(d) \/ DeleteRows(d) \/ DeleteAborts(d)
              \/ \E kind \in Kind : QueueJob(kind, d)
       PROVE  UNCHANGED worker
  BY <1>13 DEF Upload, ParseInline, ChunkRequest, BeginDelete, DeleteVectors,
               DeleteObjects, DeleteRows, DeleteAborts, QueueJob
<1>14. CASE ApiStep \/ ApiCrash \/ UNCHANGED vars
  BY <1>3, <1>14 DEF ApiStep, PushJob, FinishInline, ApiCrash, vars
<1> QED
  BY <1>3, <1>4, <1>5, <1>6, <1>7, <1>8, <1>9, <1>10, <1>11, <1>12, <1>13, <1>14
  DEF Next, DeleteStep, WorkerStep

------------------------------------------------------------------------------
\* What Milvus holds.

\* The only steps that touch a document's vectors.
VectorStep == (\E d \in Doc : DeleteVectors(d)) \/ Clear \/ Upsert

\* Every other step leaves the vectors alone, and none brings the worker to its
\* upsert or past it, or moves it while it is there, but to leave it.
LEMMA OtherSteps ==
    ASSUME IInv, [Next]_vars, ~VectorStep
    PROVE  /\ UNCHANGED vectors
           /\ worker'.at \in {"upserting", "indexed"} => UNCHANGED worker
<1> USE DEF IInv
<1>1. worker = [at |-> worker.at, job |-> worker.job, run |-> worker.run]
  BY DEF JobsKnown
<1>2. ASSUME NEW d \in Doc,
             \/ Upload(d) \/ ParseInline(d) \/ ChunkRequest(d) \/ BeginDelete(d)
             \/ DeleteObjects(d) \/ DeleteRows(d) \/ DeleteAborts(d)
             \/ \E kind \in Kind : QueueJob(kind, d)
      PROVE  UNCHANGED <<vectors, worker>>
  BY <1>2 DEF Upload, ParseInline, ChunkRequest, BeginDelete, DeleteObjects, DeleteRows,
              DeleteAborts, QueueJob
<1>3. CASE ApiStep \/ ApiCrash \/ UNCHANGED vars
  BY <1>3 DEF ApiStep, PushJob, FinishInline, ApiCrash, vars
<1>4. CASE Pop \/ PushIndex \/ FinishIndex
  <2>1. UNCHANGED vectors
    BY <1>4 DEF Pop, PushIndex, FinishIndex
  <2>2. worker'.at \in {"parse", "index", "idle", "dead"}
    <3>1. CASE Pop
      <4>1. PICK kind \in Kind :
              worker' = [Idle EXCEPT !.at = kind, !.job = Head(queue[kind])]
        BY <3>1 DEF Pop
      <4> QED BY <4>1 DEF Idle, Kind
    <3>2. CASE PushIndex \/ FinishIndex
      BY <3>2 DEF PushIndex, FinishIndex, Idle, Dead
    <3> QED BY <1>4, <3>1, <3>2
  <2> QED BY <2>1, <2>2
<1>5. CASE StartParse
  BY <1>1, <1>5 DEF StartParse, Goes, Dead, stores
<1>6. CASE FinishParse
  BY <1>1, <1>6 DEF FinishParse, Idle, Dead
<1>7. CASE Chunk
  BY <1>1, <1>7 DEF Chunk, Dead, stores
<1>8. CASE QueueIndex
  <2>1. worker' = Dead \/ worker'.at = "pushIndex"
    BY <1>1, <1>8 DEF QueueIndex
  <2> QED BY <1>8, <2>1 DEF QueueIndex, Dead
<1>9. CASE StartIndex
  BY <1>1, <1>9 DEF StartIndex, Goes, Dead, stores
<1>10. CASE ReadChunks
  <2>1. worker'.at \in {"failing", "clearing"}
    BY <1>1, <1>10 DEF ReadChunks
  <2> QED BY <1>10, <2>1 DEF ReadChunks
<1>11. CASE WorkerStarts \/ WorkerCrash
  BY <1>11 DEF WorkerStarts, WorkerCrash, Idle, Dead, stores
<1> QED
  BY <1>2, <1>3, <1>4, <1>5, <1>6, <1>7, <1>8, <1>9, <1>10, <1>11
  DEF Next, DeleteStep, WorkerStep, VectorStep

\* delete_version by a worker, and the deletion's: no vector of one document is left.
LEMMA ClearSteps ==
    ASSUME IInv, Clear \/ \E d \in Doc : DeleteVectors(d), JobsKnown', Grown
    PROVE  (ClearedForUpsert /\ OneGeneration)'
<1> USE DEF IInv
<1>1. vectors = [d \in Doc |-> vectors[d]]
  BY DEF ClearedForUpsert
<1>2. CASE Clear
  <2>1. worker.at = "clearing" /\ worker.job \in DOMAIN jobs
    BY <1>2 DEF Clear, Works, JobsKnown, HoldsRow
  <2>2. WorkerDoc' = WorkerDoc /\ WorkerDoc \in Doc
    <3>1. worker'.job = worker.job
      BY <1>2 DEF Clear, Goes, JobsKnown
    <3>2. jobs[worker.job] \in JobRow
      BY <2>1 DEF JobsKnown
    <3> QED BY <1>2, <3>1, <3>2 DEF Clear, WorkerDoc, JobRow
  <2>3. CASE vectors' = [vectors EXCEPT ![WorkerDoc] = {}]
    BY <1>1, <2>2, <2>3 DEF ClearedForUpsert, OneGeneration
  <2>4. CASE UNCHANGED vectors /\ Goes("failing")
    <3>1. worker'.at = "failing"
      BY <2>4 DEF Goes, JobsKnown
    <3> QED BY <2>4, <3>1 DEF ClearedForUpsert, OneGeneration
  <2> QED BY <1>2, <2>3, <2>4 DEF Clear
<1>3. ASSUME NEW d \in Doc, DeleteVectors(d)
      PROVE  (ClearedForUpsert /\ OneGeneration)'
  <2>1. vectors' = [vectors EXCEPT ![d] = {}] /\ UNCHANGED <<jobs, worker>>
    BY <1>3 DEF DeleteVectors
  <2>2. ASSUME worker.at = "upserting" PROVE jobs[worker.job] \in JobRow
    BY <2>2 DEF JobsKnown, HoldsRow
  <2>3. worker.at = "upserting" => WorkerDoc \in Doc
    BY <2>2 DEF JobRow, WorkerDoc
  <2>4. ClearedForUpsert'
    BY <1>1, <2>1, <2>3 DEF ClearedForUpsert, WorkerDoc
  <2> QED BY <1>1, <2>1, <2>4 DEF OneGeneration
<1> QED BY <1>2, <1>3

\* The upsert finds no vector of its document.
LEMMA UpsertStep ==
    ASSUME IInv, Upsert
    PROVE  (ClearedForUpsert /\ OneGeneration)'
<1> USE DEF IInv
<1>1. vectors = [d \in Doc |-> vectors[d]] /\ vectors[WorkerDoc] = {}
  BY DEF Upsert, Works, ClearedForUpsert
<1>2. worker'.at # "upserting"
  BY DEF Upsert, Goes, JobsKnown
<1>3. vectors' = [vectors EXCEPT ![WorkerDoc] = {worker.run}] \/ UNCHANGED vectors
  BY <1>1 DEF Upsert
<1> QED BY <1>1, <1>2, <1>3 DEF ClearedForUpsert, OneGeneration

------------------------------------------------------------------------------
\* The invariant.

\* Before anything happened.
LEMMA InitOK == Init => IInv
<1> SUFFICES ASSUME Init PROVE IInv
  OBVIOUS
<1>1. jobs \in Seq(JobRow)
  BY DEF Init
<1>2. JobsKnown
  BY <1>1 DEF Init, Idle, JobsKnown, HoldsRow
<1> QED BY <1>2 DEF Init, Idle, IInv, ClearedForUpsert, OneGeneration

\* Every step keeps it.
LEMMA NextOK == IInv /\ [Next]_vars => IInv'
<1> SUFFICES ASSUME IInv, [Next]_vars PROVE IInv'
  OBVIOUS
<1>1. JobsKnown' /\ Grown
  BY JobsKnownKept, JobsGrow
<1>2. CASE ~VectorStep
  <2>1. UNCHANGED vectors /\ (worker'.at = "upserting" => UNCHANGED worker)
    BY <1>2, OtherSteps
  <2>2. ASSUME worker'.at = "upserting" PROVE vectors'[WorkerDoc'] = {}
    <3>1. worker.job \in DOMAIN jobs
      BY <2>1, <2>2 DEF IInv, JobsKnown, HoldsRow
    <3>2. WorkerDoc' = WorkerDoc
      BY <1>1, <2>1, <2>2, <3>1 DEF Grown, WorkerDoc
    <3> QED BY <2>1, <2>2, <3>2 DEF IInv, ClearedForUpsert
  <2> QED BY <1>1, <2>1, <2>2 DEF IInv, ClearedForUpsert, OneGeneration
<1>3. CASE VectorStep
  BY <1>1, <1>3, ClearSteps, UpsertStep DEF VectorStep, IInv
<1> QED BY <1>2, <1>3

(***************************************************************************)
(* A search never sees vectors of two chunking runs of a document, however *)
(* many index jobs are queued, whichever of them fail or die half way, and *)
(* whatever is deleted meanwhile.                                          *)
(***************************************************************************)
THEOREM SearchSeesOneGeneration == Spec => []OneGeneration
<1>1. Spec => []IInv
  BY InitOK, NextOK, PTL DEF Spec
<1>2. IInv => OneGeneration
  BY DEF IInv
<1> QED BY <1>1, <1>2, PTL

------------------------------------------------------------------------------
(***************************************************************************)
(* Who has a job: a request that will push it, a thread of the backend     *)
(* that parses it, a list or the worker; nobody else has it as well.       *)
(***************************************************************************)
AreRows(table, S, kinds, statuses) ==
    \A j \in S : j \in DOMAIN table /\ table[j].kind \in kinds /\ table[j].status \in statuses

Waits == {"pending", "deleted"}
Runs == {"running", "deleted"}

Queued(kind) == ToSet(queue[kind])

Lists == Queued("parse") \cup Queued("index")

Holders == requests \cup inline \cup Lists

WorkerKind(place) ==
    IF place \in {"parse", "parsing", "unreadable", "chunk", "queueIndex"} THEN {"parse"} ELSE {"index"}

WorkerStatus(place) ==
    CASE place \in {"parse", "index", "pushIndex"} -> Waits
      [] place \in {"chunk", "queueIndex"} -> {"succeeded", "deleted"}
      [] OTHER -> Runs

Resting == {"idle", "dead"}

WorkerPlace == Resting \cup
    {"parse", "parsing", "unreadable", "chunk", "queueIndex", "pushIndex",
     "index", "reading", "clearing", "upserting", "indexed", "failing"}

Held ==
    /\ queue = [kind \in Kind |-> queue[kind]]
    /\ \A kind \in Kind : queue[kind] \in Seq(DOMAIN jobs) /\ IsInjective(queue[kind])
    /\ \A kind \in Kind : AreRows(jobs, Queued(kind), {kind}, Waits)
    /\ AreRows(jobs, requests, Kind, Waits)
    /\ AreRows(jobs, inline, {"parse"}, Runs)
    /\ requests \cap inline = {} /\ Lists \cap (requests \cup inline) = {}

WorkerHolds ==
    /\ worker.at \in WorkerPlace
    /\ worker.at \in Resting => worker.job = NoJob
    /\ worker.at \notin Resting =>
        /\ AreRows(jobs, {worker.job}, WorkerKind(worker.at), WorkerStatus(worker.at))
        /\ worker.job \notin Holders

\* The rows of a document that is not stored are deleted.
RowsOfStored ==
    /\ doc = [d \in Doc |-> doc[d]]
    /\ \A j \in DOMAIN jobs : ~Stored(jobs[j].doc) => jobs[j].status = "deleted"

\* Without a fault, whoever has a job that is not over gets to it.
NothingLost ==
    /\ faults \in Nat
    /\ faults = 0 => \A j \in DOMAIN jobs :
        jobs[j].status \in {"pending", "running"} => j \in Holders \/ j = worker.job

HInv == Held /\ WorkerHolds /\ RowsOfStored /\ NothingLost

------------------------------------------------------------------------------
\* Lists.

\* A job put at the end of a list that does not have it.
LEMMA ListPushed ==
    ASSUME NEW S, NEW s \in Seq(S), IsInjective(s), NEW x \in S, x \notin ToSet(s)
    PROVE  /\ Append(s, x) \in Seq(S) /\ IsInjective(Append(s, x))
           /\ ToSet(Append(s, x)) = ToSet(s) \cup {x}
<1> DEFINE n == Len(s)
           t == Append(s, x)
<1>1. /\ n \in Nat /\ t \in Seq(S) /\ Len(t) = n + 1 /\ DOMAIN t = 1..(n + 1) /\ DOMAIN s = 1..n
      /\ t[n + 1] = x /\ \A i \in 1..n : t[i] = s[i]
  BY AppendProperties
<1>2. \A i \in 1..n : s[i] # x
  BY <1>1 DEF ToSet
<1> HIDE DEF t, n
<1>3. IsInjective(t)
  BY <1>1, <1>2 DEF IsInjective
<1>4. ToSet(t) = ToSet(s) \cup {x}
  BY <1>1 DEF ToSet
<1> QED BY <1>1, <1>3, <1>4 DEF t

\* The first job taken from a list.
LEMMA ListPopped ==
    ASSUME NEW S, NEW s \in Seq(S), IsInjective(s), s # <<>>
    PROVE  /\ Tail(s) \in Seq(S) /\ IsInjective(Tail(s)) /\ Head(s) \in ToSet(s)
           /\ ToSet(Tail(s)) = ToSet(s) \ {Head(s)}
<1> DEFINE n == Len(s)
           t == Tail(s)
<1>1. /\ n \in Nat /\ n > 0 /\ t \in Seq(S) /\ Len(t) = n - 1 /\ DOMAIN t = 1..(n - 1) /\ DOMAIN s = 1..n
      /\ Head(s) = s[1] /\ \A i \in 1..(n - 1) : t[i] = s[i + 1]
  BY HeadTailProperties, EmptySeq
<1> HIDE DEF t, n
<1>2. IsInjective(t)
  <2>1. ASSUME NEW a \in 1..(n - 1), NEW b \in 1..(n - 1), t[a] = t[b] PROVE a = b
    <3>1. a + 1 \in 1..n /\ b + 1 \in 1..n /\ s[a + 1] = s[b + 1]
      BY <1>1, <2>1
    <3>2. a + 1 = b + 1
      BY <1>1, <3>1 DEF IsInjective
    <3> QED BY <3>2
  <2> QED BY <1>1, <2>1 DEF IsInjective
<1>3. ToSet(t) = ToSet(s) \ {Head(s)}
  <2>1. ASSUME NEW y \in ToSet(s), y # Head(s) PROVE y \in ToSet(t)
    <3>1. PICK i \in 1..n : y = s[i]
      BY <1>1, <2>1 DEF ToSet
    <3>2. i - 1 \in 1..(n - 1) /\ t[i - 1] = s[i - 1 + 1] /\ i - 1 + 1 = i
      BY <1>1, <2>1, <3>1
    <3> QED BY <1>1, <3>1, <3>2 DEF ToSet
  <2>2. ASSUME NEW y \in ToSet(t) PROVE y \in ToSet(s) /\ y # Head(s)
    <3>1. PICK i \in 1..(n - 1) : y = t[i]
      BY <1>1, <2>2 DEF ToSet
    <3>2. i + 1 \in 1..n /\ i + 1 # 1 /\ y = s[i + 1] /\ 1 \in 1..n
      BY <1>1, <3>1
    <3> QED BY <1>1, <3>2 DEF ToSet, IsInjective
  <2> QED BY <2>1, <2>2
<1>4. Head(s) \in ToSet(s)
  BY <1>1 DEF ToSet
<1> QED BY <1>1, <1>2, <1>3, <1>4 DEF t

------------------------------------------------------------------------------
\* What a step does to the statuses of the rows.

\* Rows keep their kind and their document, and all but those of X their
\* status, unless they are deleted.
Moved(X) ==
    /\ JobsKnown /\ DOMAIN jobs \subseteq DOMAIN jobs' /\ jobs' \in Seq(JobRow)
    /\ \A j \in DOMAIN jobs :
        /\ jobs'[j].kind = jobs[j].kind /\ jobs'[j].doc = jobs[j].doc
        /\ j \notin X => jobs'[j].status \in {jobs[j].status, "deleted"}

\* Unchanged rows.
LEMMA RowsSame == ASSUME JobsKnown, UNCHANGED jobs PROVE Moved({})
BY DEF JobsKnown, Moved

\* The insert of a row.
LEMMA RowAdded ==
    ASSUME JobsKnown, NEW kind \in Kind, NEW d \in Doc, NEW status \in JobStatus,
           jobs' = Append(jobs, NewJob(kind, d, status))
    PROVE  /\ Moved({}) /\ Len(jobs') \notin DOMAIN jobs /\ Len(jobs') # NoJob
           /\ DOMAIN jobs' = DOMAIN jobs \cup {Len(jobs')}
           /\ jobs'[Len(jobs')].kind = kind /\ jobs'[Len(jobs')].doc = d
           /\ jobs'[Len(jobs')].status = status
           /\ \A j \in DOMAIN jobs : jobs'[j] = jobs[j]
<1> DEFINE n == Len(jobs)
           row == NewJob(kind, d, status)
<1>1. jobs \in Seq(JobRow) /\ row \in JobRow /\ n \in Nat /\ DOMAIN jobs = 1..n
  BY DEF JobsKnown, NewJob, JobRow
<1>2. row.kind = kind /\ row.doc = d /\ row.status = status
  BY DEF NewJob
<1> HIDE DEF row
<1>3. /\ jobs' \in Seq(JobRow) /\ Len(jobs') = n + 1 /\ jobs'[n + 1] = row
      /\ \A j \in 1..n : jobs'[j] = jobs[j] /\ DOMAIN jobs' = 1..(n + 1)
  BY <1>1, AppendProperties DEF row
<1>4. DOMAIN jobs' = 1..(n + 1)
  BY <1>3
<1> HIDE DEF n
<1>5. Moved({})
  BY <1>1, <1>3, <1>4 DEF Moved
<1> QED BY <1>1, <1>2, <1>3, <1>4, <1>5 DEF NoJob

\* The update of the status of a row.
LEMMA RowSet ==
    ASSUME JobsKnown, NEW j \in DOMAIN jobs, NEW status \in JobStatus, SetJob(j, status)
    PROVE  /\ Moved({j}) /\ DOMAIN jobs' = DOMAIN jobs
           /\ jobs'[j].status = status
           /\ \A i \in DOMAIN jobs : i # j => jobs'[i] = jobs[i]
<1>1. Grown /\ \A i \in DOMAIN jobs : jobs[i] \in JobRow
  BY StatusSet DEF JobsKnown
<1>2. /\ DOMAIN jobs' = DOMAIN jobs /\ jobs'[j].status = status
      /\ jobs'[j].kind = jobs[j].kind
      /\ \A i \in DOMAIN jobs : i # j => jobs'[i] = jobs[i]
  BY <1>1 DEF SetJob, JobRow
<1> QED BY <1>1, <1>2 DEF Moved, Grown

\* The commit of parse_version.
LEMMA RowParsed ==
    ASSUME JobsKnown, NEW j, NEW status \in EndedStatus, NEW put \in BOOLEAN,
           Parses(j, status, put)
    PROVE  /\ Moved({j}) /\ DOMAIN jobs' = DOMAIN jobs
           /\ Exists(j) => jobs'[j].status = status
           /\ ~Exists(j) => UNCHANGED jobs
           /\ \A i \in DOMAIN jobs : i # j => jobs'[i] = jobs[i]
<1>1. Grown /\ \A i \in DOMAIN jobs : jobs[i] \in JobRow
  BY ParsesRows DEF JobsKnown
<1>2. CASE ~Exists(j)
  BY <1>1, <1>2 DEF Parses, Moved, Grown
<1>3. CASE Exists(j)
  <2>1. jobs' = [jobs EXCEPT ![j].status = status, ![j].rows = put] /\ j \in DOMAIN jobs
    BY <1>3 DEF Parses, Exists
  <2>2. /\ DOMAIN jobs' = DOMAIN jobs /\ jobs'[j].status = status
        /\ jobs'[j].kind = jobs[j].kind
        /\ \A i \in DOMAIN jobs : i # j => jobs'[i] = jobs[i]
    BY <1>1, <2>1 DEF JobRow
  <2> QED BY <1>1, <1>3, <2>1, <2>2 DEF Moved, Grown
<1> QED BY <1>2, <1>3

\* The delete statements.
LEMMA RowsDeleted ==
    ASSUME JobsKnown, NEW d \in Doc, DeleteRows(d)
    PROVE  /\ Moved({}) /\ DOMAIN jobs' = DOMAIN jobs
           /\ \/ UNCHANGED <<jobs, doc>>
              \/ /\ doc' = [doc EXCEPT ![d] = "deleted"]
                 /\ \A j \in DOMAIN jobs :
                     IF jobs[j].doc = d THEN jobs'[j].status = "deleted" ELSE jobs'[j] = jobs[j]
<1>1. Grown /\ \A i \in DOMAIN jobs : jobs[i] \in JobRow
  BY DeletedRows DEF JobsKnown
<1>2. CASE UNCHANGED <<jobs, doc>>
  BY <1>1, <1>2 DEF Moved, Grown
<1>3. CASE /\ doc' = [doc EXCEPT ![d] = "deleted"]
           /\ jobs' = [j \in DOMAIN jobs |->
                        IF jobs[j].doc = d
                        THEN [jobs[j] EXCEPT !.status = "deleted", !.rows = FALSE]
                        ELSE jobs[j]]
  <2>1. /\ DOMAIN jobs' = DOMAIN jobs
        /\ \A j \in DOMAIN jobs :
             /\ IF jobs[j].doc = d THEN jobs'[j].status = "deleted" ELSE jobs'[j] = jobs[j]
             /\ jobs'[j].kind = jobs[j].kind
    BY <1>1, <1>3 DEF JobRow
  <2> QED BY <1>1, <1>3, <2>1 DEF Moved, Grown
<1> QED BY <1>2, <1>3 DEF DeleteRows

\* Rows that do not change status stay what they are for whoever has them.
LEMMA RowsStay ==
    ASSUME NEW X, Moved(X), NEW S, S \cap X = {}, NEW kinds, NEW statuses, "deleted" \in statuses,
           AreRows(jobs, S, kinds, statuses)
    PROVE  AreRows(jobs', S, kinds, statuses)
BY DEF Moved, AreRows

------------------------------------------------------------------------------
\* Steps by what they do to those who have a job.

\* A sequence over a set is one over every larger set.
LEMMA SeqWider == ASSUME NEW S, NEW T, S \subseteq T, NEW s \in Seq(S) PROVE s \in Seq(T)
OBVIOUS

\* Nobody but the worker gets or gives a job.
LEMMA HeldMoved ==
    ASSUME Held, NEW X, Moved(X), Holders \cap X = {}, UNCHANGED <<queue, requests, inline>>
    PROVE  Held'
<1>1. \A kind \in Kind : queue[kind] \in Seq(DOMAIN jobs')
  BY SeqWider DEF Held, Moved
<1>2. \A kind \in Kind : Queued(kind) \cap X = {}
  BY DEF Holders, Lists, Kind
<1>3. requests \cap X = {} /\ inline \cap X = {}
  BY DEF Holders
<1>4. "deleted" \in Waits /\ "deleted" \in Runs /\ \A kind \in Kind : "deleted" \in Waits
  BY DEF Waits, Runs
<1>5. \A kind \in Kind : AreRows(jobs', Queued(kind), {kind}, Waits)
  <2> TAKE kind \in Kind
  <2>1. AreRows(jobs, Queued(kind), {kind}, Waits)
    BY DEF Held
  <2> QED BY <1>2, <1>4, <2>1, RowsStay
<1>6. AreRows(jobs', requests, Kind, Waits) /\ AreRows(jobs', inline, {"parse"}, Runs)
  <2>1. AreRows(jobs, requests, Kind, Waits) /\ AreRows(jobs, inline, {"parse"}, Runs)
    BY DEF Held
  <2> QED BY <1>3, <1>4, <2>1, RowsStay
<1> QED BY <1>1, <1>5, <1>6 DEF Held, Lists, Queued

\* The worker stays where it is, and nobody gets its job.
LEMMA WorkerKept ==
    ASSUME WorkerHolds, NEW X, Moved(X), worker.job \notin X, UNCHANGED worker,
           Holders' \cap DOMAIN jobs \subseteq Holders
    PROVE  WorkerHolds'
<1>1. "deleted" \in WorkerStatus(worker.at)
  BY DEF WorkerStatus, Waits, Runs
<1>2. ASSUME worker.at \notin Resting
      PROVE  /\ AreRows(jobs', {worker.job}, WorkerKind(worker.at), WorkerStatus(worker.at))
             /\ worker.job \notin Holders'
  <2>1. AreRows(jobs, {worker.job}, WorkerKind(worker.at), WorkerStatus(worker.at))
        /\ worker.job \notin Holders
    BY <1>2 DEF WorkerHolds
  <2>2. worker.job \in DOMAIN jobs
    BY <2>1 DEF AreRows
  <2>3. {worker.job} \cap X = {}
    OBVIOUS
  <2> QED BY <1>1, <2>1, <2>2, <2>3, RowsStay
<1> QED BY <1>2 DEF WorkerHolds

\* The document stays, and so does every row that is not deleted.
LEMMA StoredRowsKept ==
    ASSUME RowsOfStored, NEW X, Moved(X), UNCHANGED doc,
           \A j \in DOMAIN jobs' : j \in X \/ j \notin DOMAIN jobs =>
               Stored(jobs'[j].doc) \/ jobs'[j].status = "deleted"
    PROVE  RowsOfStored'
BY DEF RowsOfStored, Moved, Stored

\* Every job that is not over is still with somebody.
LEMMA NothingLostKept ==
    ASSUME NothingLost, NEW X, Moved(X), faults' \in Nat, faults' = 0 => faults = 0,
           \A j \in DOMAIN jobs' : jobs'[j].status \in {"pending", "running"} =>
               \/ j \in Holders' \/ j = worker'.job
               \/ j \in DOMAIN jobs \ (X \cup Holders \cup {worker.job})
    PROVE  NothingLost'
BY DEF NothingLost, Moved

\* A request that has no job.
LEMMA OtherRequest ==
    ASSUME HInv, Moved({}), DOMAIN jobs' = DOMAIN jobs, RowsOfStored',
           UNCHANGED <<queue, requests, inline, worker>>,
           faults' \in Nat, faults' = 0 => faults = 0
    PROVE  HInv'
<1>1. Holders' = Holders
  BY DEF Holders, Lists, Queued
<1>2. Held'
  BY HeldMoved DEF HInv
<1>3. WorkerHolds'
  BY <1>1, WorkerKept DEF HInv
<1>4. NothingLost'
  BY <1>1, NothingLostKept DEF HInv
<1> QED BY <1>2, <1>3, <1>4 DEF HInv

\* A request inserts a job and keeps it, to push it or to run it, or inserts
\* one that is over.
LEMMA RequestInserts ==
    ASSUME HInv, JobsKnown, NEW kind \in Kind, NEW d \in Doc, NEW status \in JobStatus,
           jobs' = Append(jobs, NewJob(kind, d, status)),
           \/ status = "pending" /\ requests' = requests \cup {Len(jobs')} /\ inline' = inline
           \/ status = "running" /\ kind = "parse" /\ requests' = requests
              /\ inline' = inline \cup {Len(jobs')}
           \/ status = "failed" /\ UNCHANGED <<requests, inline>>,
           doc' = doc \/ doc' = [doc EXCEPT ![d] = "stored"], doc'[d] = "stored",
           UNCHANGED <<queue, worker, faults>>
    PROVE  HInv'
<1> DEFINE n == Len(jobs')
<1>1. /\ Moved({}) /\ n \notin DOMAIN jobs /\ DOMAIN jobs' = DOMAIN jobs \cup {n}
      /\ jobs'[n].kind = kind /\ jobs'[n].doc = d /\ jobs'[n].status = status
      /\ \A j \in DOMAIN jobs : jobs'[j] = jobs[j]
  BY RowAdded
<1> HIDE DEF n
<1>2. "deleted" \in Waits /\ "deleted" \in Runs /\ "pending" \in Waits /\ "running" \in Runs
  BY DEF Waits, Runs
<1>3. /\ \A k \in Kind : AreRows(jobs', Queued(k), {k}, Waits)
      /\ AreRows(jobs', requests, Kind, Waits) /\ AreRows(jobs', inline, {"parse"}, Runs)
  BY <1>1 DEF HInv, Held, AreRows
<1>4. n \notin Holders
  BY <1>1 DEF HInv, Held, AreRows, Holders, Lists, Kind
<1>5. requests' \subseteq requests \cup {n} /\ inline' \subseteq inline \cup {n}
      /\ (n \in requests' => status = "pending" /\ n \notin inline')
      /\ (n \in inline' => status = "running" /\ kind = "parse")
  BY <1>4 DEF n, Holders
<1>6. AreRows(jobs', requests', Kind, Waits) /\ AreRows(jobs', inline', {"parse"}, Runs)
  BY <1>1, <1>2, <1>3, <1>5 DEF AreRows
<1>7. requests' \cap inline' = {} /\ Lists' \cap (requests' \cup inline') = {}
  BY <1>4, <1>5 DEF HInv, Held, Lists, Queued, Holders
<1>8. \A k \in Kind : queue[k] \in Seq(DOMAIN jobs')
  BY <1>1, SeqWider DEF HInv, Held
<1>9. Held'
  BY <1>3, <1>6, <1>7, <1>8 DEF HInv, Held, Queued
<1>10. Holders' \cap DOMAIN jobs \subseteq Holders /\ Holders \subseteq Holders'
  BY <1>1, <1>5 DEF Holders, Lists, Queued
<1>11. WorkerHolds'
  BY <1>1, <1>10, WorkerKept DEF HInv
<1>12. RowsOfStored'
  <2>1. /\ doc = [e \in Doc |-> doc[e]]
        /\ \A j \in DOMAIN jobs : doc[jobs[j].doc] # "stored" => jobs[j].status = "deleted"
    BY DEF HInv, RowsOfStored, Stored
  <2>2. doc' = [e \in Doc |-> doc'[e]]
    BY <2>1
  <2>3. \A e \in Doc : doc[e] = "stored" => doc'[e] = "stored"
    BY <2>1
  <2>4. \A j \in DOMAIN jobs : jobs[j].doc \in Doc
    <3>1. \A j \in DOMAIN jobs : jobs[j] \in JobRow
      BY DEF JobsKnown
    <3> QED BY <3>1 DEF JobRow
  <2> QED BY <1>1, <2>1, <2>2, <2>3, <2>4 DEF RowsOfStored, Stored
<1>13. status \in {"pending", "running"} => n \in Holders'
  BY DEF n, Holders
<1>14. NothingLost'
  <2>1. faults' \in Nat /\ (faults' = 0 => faults = 0)
    BY DEF HInv, NothingLost
  <2>2. \A j \in DOMAIN jobs' : jobs'[j].status \in {"pending", "running"} =>
           j \in Holders' \/ j = worker'.job
               \/ j \in DOMAIN jobs \ ({} \cup Holders \cup {worker.job})
    BY <1>1, <1>10, <1>13
  <2> QED BY <1>1, <2>1, <2>2, NothingLostKept DEF HInv
<1> QED BY <1>9, <1>11, <1>12, <1>14 DEF HInv

\* rpush of a request's job.
LEMMA PushHeld == ASSUME HInv, JobsKnown, NEW j, PushJob(j) PROVE HInv'
<1>0. PICK kind \in Kind : kind = jobs[j].kind
  BY DEF PushJob, HInv, Held, AreRows
<1>1. /\ j \in requests /\ queue' = [queue EXCEPT ![kind] = Append(@, j)]
      /\ requests' = requests \ {j} /\ UNCHANGED <<doc, jobs, inline, worker, faults>>
  BY <1>0 DEF PushJob, bounds
<1>2. /\ j \in DOMAIN jobs /\ jobs[j].kind = kind /\ jobs[j].status \in Waits
      /\ j \notin inline /\ j \notin Lists
  BY <1>0, <1>1 DEF HInv, Held, AreRows
<1>3. /\ queue = [k \in Kind |-> queue[k]]
      /\ \A k \in Kind : queue[k] \in Seq(DOMAIN jobs) /\ IsInjective(queue[k])
      /\ \A k \in Kind : AreRows(jobs, Queued(k), {k}, Waits)
  BY DEF HInv, Held
<1>4. j \notin Queued(kind)
  BY <1>2 DEF Lists, Kind
<1>5. /\ Append(queue[kind], j) \in Seq(DOMAIN jobs) /\ IsInjective(Append(queue[kind], j))
      /\ ToSet(Append(queue[kind], j)) = Queued(kind) \cup {j}
  BY <1>2, <1>3, <1>4, ListPushed DEF Queued
<1>6. /\ queue' = [k \in Kind |-> queue'[k]] /\ queue'[kind] = Append(queue[kind], j)
      /\ \A k \in Kind : k # kind => queue'[k] = queue[k]
  BY <1>1, <1>2, <1>3
<1>7. Queued(kind)' = Queued(kind) \cup {j} /\ \A k \in Kind : k # kind => Queued(k)' = Queued(k)
  BY <1>5, <1>6 DEF Queued
<1>8. Lists' = Lists \cup {j}
  BY <1>2, <1>7 DEF Lists, Kind
<1>9. Holders' = Holders
  BY <1>1, <1>8 DEF Holders
<1>10. \A k \in Kind : queue'[k] \in Seq(DOMAIN jobs') /\ IsInjective(queue'[k])
  BY <1>1, <1>3, <1>5, <1>6
<1>11. ASSUME NEW k \in Kind PROVE AreRows(jobs', Queued(k)', {k}, Waits)
  <2>1. AreRows(jobs, Queued(k), {k}, Waits) /\ jobs' = jobs
    BY <1>1, <1>3
  <2>2. Queued(k)' = Queued(k) \/ (k = kind /\ Queued(k)' = Queued(k) \cup {j})
    BY <1>7
  <2>3. ASSUME NEW i \in Queued(k)'
        PROVE  i \in DOMAIN jobs /\ jobs[i].kind \in {k} /\ jobs[i].status \in Waits
    <3>1. CASE i \in Queued(k)
      BY <2>1, <3>1 DEF AreRows
    <3>2. CASE k = kind /\ i = j
      BY <1>2, <3>2
    <3> QED BY <2>2, <2>3, <3>1, <3>2
  <2> QED BY <2>1, <2>3 DEF AreRows
<1>12. Held'
  BY <1>1, <1>2, <1>6, <1>8, <1>10, <1>11 DEF HInv, Held, AreRows
<1>13. Moved({})
  BY <1>1, RowsSame
<1>14. WorkerHolds'
  BY <1>1, <1>9, <1>13, WorkerKept DEF HInv
<1>15. RowsOfStored' /\ NothingLost'
  BY <1>1, <1>9 DEF HInv, RowsOfStored, NothingLost, Stored
<1> QED BY <1>12, <1>14, <1>15 DEF HInv

\* parse_version ends in a thread of the backend.
LEMMA InlineEnds == ASSUME HInv, JobsKnown, NEW j, FinishInline(j) PROVE HInv'
<1>1. /\ j \in inline /\ inline' = inline \ {j}
      /\ UNCHANGED <<doc, queue, requests, worker, faults>>
  BY DEF FinishInline, bounds
<1>2. PICK status \in EndedStatus, put \in BOOLEAN : Parses(j, status, put)
  BY DEF FinishInline
<1>3. /\ Moved({j}) /\ DOMAIN jobs' = DOMAIN jobs
      /\ Exists(j) => jobs'[j].status = status
      /\ ~Exists(j) => UNCHANGED jobs
      /\ \A i \in DOMAIN jobs : i # j => jobs'[i] = jobs[i]
  BY <1>2, RowParsed
<1>4. j \in DOMAIN jobs /\ j \notin requests /\ j \notin Lists /\ j # worker.job
  <2>1. j \in DOMAIN jobs /\ j \notin requests /\ j \notin Lists
    BY <1>1 DEF HInv, Held, AreRows
  <2>2. j # worker.job
    <3>1. worker.at \in Resting => j # worker.job
      BY <2>1 DEF HInv, WorkerHolds, NoJob, JobsKnown
    <3> QED BY <1>1, <3>1 DEF HInv, WorkerHolds, Holders
  <2> QED BY <2>1, <2>2
<1>5. Lists' = Lists /\ \A k \in Kind : Queued(k)' = Queued(k)
  BY <1>1 DEF Lists, Queued
<1>6. /\ \A k \in Kind : AreRows(jobs', Queued(k), {k}, Waits)
      /\ AreRows(jobs', requests, Kind, Waits) /\ AreRows(jobs', inline', {"parse"}, Runs)
  <2>1. /\ \A k \in Kind : AreRows(jobs, Queued(k), {k}, Waits)
        /\ AreRows(jobs, requests, Kind, Waits) /\ AreRows(jobs, inline', {"parse"}, Runs)
    BY <1>1 DEF HInv, Held, AreRows
  <2>2. j \notin inline' /\ \A k \in Kind : j \notin Queued(k)
    BY <1>1, <1>4 DEF Lists, Kind
  <2> QED BY <1>3, <1>4, <2>1, <2>2 DEF AreRows
<1>7. Held'
  BY <1>1, <1>3, <1>5, <1>6 DEF HInv, Held
<1>8. Holders' = Holders \ {j}
  BY <1>1, <1>4, <1>5 DEF Holders
<1>9. WorkerHolds'
  BY <1>1, <1>3, <1>4, <1>8, WorkerKept DEF HInv
<1>10. RowsOfStored'
  <2>1. Exists(j) => Stored(jobs[j].doc)
    BY DEF HInv, RowsOfStored, Exists
  <2>2. ~Exists(j) => jobs'[j].status = "deleted"
    BY <1>3, <1>4 DEF Exists
  <2>3. jobs'[j].doc = jobs[j].doc
    BY <1>3, <1>4 DEF Moved
  <2> QED BY <1>1, <1>3, <2>1, <2>2, <2>3, StoredRowsKept DEF HInv
<1>11. NothingLost'
  <2>1. faults' \in Nat /\ (faults' = 0 => faults = 0)
    BY <1>1 DEF HInv, NothingLost
  <2>2. jobs'[j].status \notin {"pending", "running"}
    BY <1>3, <1>4 DEF Exists, EndedStatus
  <2>3. \A i \in DOMAIN jobs' : jobs'[i].status \in {"pending", "running"} =>
           i \in Holders' \/ i = worker'.job
               \/ i \in DOMAIN jobs \ ({j} \cup Holders \cup {worker.job})
    BY <1>1, <1>3, <1>8, <2>2
  <2> QED BY <1>3, <2>1, <2>3, NothingLostKept DEF HInv
<1> QED BY <1>7, <1>9, <1>10, <1>11 DEF HInv

\* The backend dies with what it held.
LEMMA ApiDies == ASSUME HInv, JobsKnown, ApiCrash PROVE HInv'
<1>1. /\ requests' = {} /\ inline' = {} /\ UNCHANGED <<doc, jobs, queue, worker>>
      /\ faults' = faults + 1
  BY DEF ApiCrash, Fault
<1>2. Held'
  BY <1>1 DEF HInv, Held, AreRows, Lists, Queued
<1>3. Moved({}) /\ Holders' \subseteq Holders
  BY <1>1, RowsSame DEF Holders, Lists, Queued
<1>4. WorkerHolds'
  BY <1>1, <1>3, WorkerKept DEF HInv
<1>5. RowsOfStored' /\ NothingLost'
  BY <1>1 DEF HInv, RowsOfStored, NothingLost, Stored
<1> QED BY <1>2, <1>4, <1>5 DEF HInv

\* blpop.
LEMMA PopHeld == ASSUME HInv, JobsKnown, Pop PROVE HInv'
<1>1. PICK kind \in Kind :
        /\ queue[kind] # <<>>
        /\ worker' = [Idle EXCEPT !.at = kind, !.job = Head(queue[kind])]
        /\ queue' = [queue EXCEPT ![kind] = Tail(@)]
  BY DEF Pop
<1>2. UNCHANGED <<doc, jobs, requests, inline, faults>> /\ worker.at = "idle"
  BY DEF Pop, stores, bounds, Works
<1> DEFINE j == Head(queue[kind])
<1>3. worker'.at = kind /\ worker'.job = j
  BY <1>1 DEF Idle
<1>4. /\ queue = [k \in Kind |-> queue[k]]
      /\ \A k \in Kind : queue[k] \in Seq(DOMAIN jobs) /\ IsInjective(queue[k])
      /\ \A k \in Kind : AreRows(jobs, Queued(k), {k}, Waits)
  BY DEF HInv, Held
<1>5. /\ Tail(queue[kind]) \in Seq(DOMAIN jobs) /\ IsInjective(Tail(queue[kind]))
      /\ j \in Queued(kind) /\ ToSet(Tail(queue[kind])) = Queued(kind) \ {j}
  BY <1>1, <1>4, ListPopped DEF Queued
<1> HIDE DEF j
<1>6. /\ queue' = [k \in Kind |-> queue'[k]] /\ queue'[kind] = Tail(queue[kind])
      /\ \A k \in Kind : k # kind => queue'[k] = queue[k]
  BY <1>1, <1>4
<1>7. ToSet(queue'[kind]) = Queued(kind) \ {j}
      /\ \A k \in Kind : k # kind => ToSet(queue'[k]) = Queued(k)
  BY <1>5, <1>6 DEF Queued
<1>8. j \in DOMAIN jobs /\ jobs[j].kind = kind /\ jobs[j].status \in Waits
  BY <1>4, <1>5 DEF AreRows
<1>9. \A k \in Kind : k # kind => j \notin Queued(k)
  BY <1>4, <1>8 DEF AreRows
<1>10. \A k \in Kind : ToSet(queue'[k]) = Queued(k) \ {j}
  BY <1>7, <1>9
<1>11. Lists' = Lists \ {j} /\ j \in Lists
  BY <1>5, <1>10 DEF Lists, Queued, Kind
<1>12. j \notin requests /\ j \notin inline
  BY <1>11 DEF HInv, Held
<1>13. Holders' = Holders \ {j}
  BY <1>2, <1>11, <1>12 DEF Holders
<1>14. \A k \in Kind : queue'[k] \in Seq(DOMAIN jobs') /\ IsInjective(queue'[k])
  BY <1>2, <1>4, <1>5, <1>6
<1>15. \A k \in Kind : AreRows(jobs', ToSet(queue'[k]), {k}, Waits)
  BY <1>2, <1>4, <1>10 DEF AreRows
<1>16. Held'
  BY <1>2, <1>6, <1>11, <1>14, <1>15 DEF HInv, Held, Queued
<1>17. WorkerHolds'
  BY <1>2, <1>3, <1>8, <1>13
  DEF WorkerHolds, AreRows, Kind, WorkerPlace, Resting, WorkerKind, WorkerStatus
<1>18. RowsOfStored'
  BY <1>2 DEF HInv, RowsOfStored, Stored
<1>19. NothingLost'
  <2>1. worker.job = NoJob /\ NoJob \notin DOMAIN jobs
    BY <1>2 DEF HInv, WorkerHolds, Resting, NoJob, JobsKnown
  <2> QED BY <1>2, <1>3, <1>13, <2>1 DEF HInv, NothingLost
<1> QED BY <1>16, <1>17, <1>18, <1>19 DEF HInv

\* The worker goes on with its job, or is done with a row that is over.
LEMMA WorkerWorks ==
    ASSUME HInv, JobsKnown, Moved({worker.job}), DOMAIN jobs' = DOMAIN jobs,
           UNCHANGED <<doc, queue, requests, inline, faults>>,
           worker.at \in WorkerPlace \ Resting,
           \/ /\ worker'.at \in WorkerPlace \ Resting /\ worker'.job = worker.job
              /\ WorkerKind(worker'.at) = WorkerKind(worker.at)
              /\ jobs'[worker.job].status \in WorkerStatus(worker'.at)
           \/ /\ worker' \in {Idle, Dead}
              /\ jobs'[worker.job].status \notin {"pending", "running"},
           Stored(WorkerDoc) \/ jobs'[worker.job].status = "deleted"
    PROVE  HInv'
<1> DEFINE j == worker.job
<1>1. /\ j \in DOMAIN jobs /\ jobs[j].kind \in WorkerKind(worker.at) /\ j \notin Holders
  BY DEF HInv, WorkerHolds, AreRows
<1>2. jobs'[j].kind = jobs[j].kind /\ jobs'[j].doc = jobs[j].doc
  BY <1>1 DEF Moved
<1>3. Holders' = Holders
  BY DEF Holders, Lists, Queued
<1>4. Held'
  BY <1>1, HeldMoved DEF HInv
<1>5. WorkerHolds'
  <2>1. CASE worker' \in {Idle, Dead}
    <3>1. worker'.at \in {"idle", "dead"} /\ worker'.job = NoJob
      BY <2>1 DEF Idle, Dead
    <3> QED BY <3>1 DEF WorkerHolds, WorkerPlace, Resting
  <2>2. CASE /\ worker'.at \in WorkerPlace \ Resting /\ worker'.job = j
             /\ WorkerKind(worker'.at) = WorkerKind(worker.at)
             /\ jobs'[j].status \in WorkerStatus(worker'.at)
    BY <1>1, <1>2, <1>3, <2>2 DEF WorkerHolds, AreRows
  <2> QED BY <2>1, <2>2
<1>6. RowsOfStored'
  BY <1>2, StoredRowsKept DEF HInv, WorkerDoc
<1>7. NothingLost'
  <2>1. faults' \in Nat /\ (faults' = 0 => faults = 0)
    BY DEF HInv, NothingLost
  <2>2. jobs'[j].status \in {"pending", "running"} => j = worker'.job
    OBVIOUS
  <2>3. \A i \in DOMAIN jobs' : jobs'[i].status \in {"pending", "running"} =>
           i \in Holders' \/ i = worker'.job
               \/ i \in DOMAIN jobs \ ({j} \cup Holders \cup {worker.job})
    BY <1>3, <2>2
  <2> QED BY <2>1, <2>3, NothingLostKept DEF HInv
<1> QED BY <1>4, <1>5, <1>6, <1>7 DEF HInv

\* What the worker has in hand, at one of the places where it has a job.
LEMMA InHand ==
    ASSUME HInv, worker.at \notin Resting
    PROVE  /\ worker.job \in DOMAIN jobs /\ jobs[worker.job].kind \in WorkerKind(worker.at)
           /\ jobs[worker.job].status \in WorkerStatus(worker.at)
           /\ jobs[worker.job].status # "deleted" => Stored(WorkerDoc)
BY DEF HInv, WorkerHolds, AreRows, RowsOfStored, WorkerDoc

\* The steps of the worker that leave the rows alone, or write the status of
\* the row of its job.
LEMMA ParseStarts == ASSUME HInv, JobsKnown, StartParse PROVE HInv'
<1>1. /\ worker.at = "parse" /\ UNCHANGED <<doc, queue, requests, inline, faults>>
  BY DEF StartParse, Works, stores, bounds
<1>2. /\ worker.job \in DOMAIN jobs /\ jobs[worker.job].status \in Waits
      /\ jobs[worker.job].status # "deleted" => Stored(WorkerDoc)
  BY <1>1, InHand DEF Resting, WorkerStatus
<1>3. CASE Stored(WorkerDoc)
  <2>1. SetJob(worker.job, "running")
        /\ (worker'.at \in {"parsing", "unreadable"}) /\ worker'.job = worker.job
    BY <1>3 DEF StartParse, Goes, JobsKnown
  <2>2. /\ Moved({worker.job}) /\ DOMAIN jobs' = DOMAIN jobs
        /\ jobs'[worker.job].status = "running"
    BY <1>2, <2>1, RowSet DEF JobStatus
  <2> QED
    BY <1>1, <1>3, <2>1, <2>2, WorkerWorks
    DEF WorkerPlace, Resting, WorkerKind, WorkerStatus, Runs
<1>4. CASE ~Stored(WorkerDoc)
  <2>1. UNCHANGED jobs /\ worker' = Dead
    BY <1>4 DEF StartParse
  <2>2. Moved({worker.job}) /\ jobs'[worker.job].status = "deleted"
    BY <1>2, <1>4, <2>1, RowsSame DEF Moved
  <2> QED BY <1>1, <2>1, <2>2, WorkerWorks DEF WorkerPlace, Resting
<1> QED BY <1>3, <1>4

\* The end of parse_version in the worker.
LEMMA ParseFinishes == ASSUME HInv, JobsKnown, FinishParse PROVE HInv'
<1>1. /\ worker.at \in {"parsing", "unreadable"}
      /\ UNCHANGED <<doc, queue, requests, inline, faults>>
  BY DEF FinishParse, Works, bounds
<1>2. /\ worker.job \in DOMAIN jobs
      /\ jobs[worker.job].status # "deleted" => Stored(WorkerDoc)
  BY <1>1, InHand DEF Resting
<1>3. PICK status \in EndedStatus, put \in BOOLEAN :
        /\ Parses(worker.job, status, put)
        /\ worker' = IF ~Exists(worker.job) THEN Dead
                     ELSE IF status = "succeeded" THEN [worker EXCEPT !.at = "chunk"]
                     ELSE Idle
  BY DEF FinishParse
<1>4. /\ Moved({worker.job}) /\ DOMAIN jobs' = DOMAIN jobs
      /\ Exists(worker.job) => jobs'[worker.job].status = status
      /\ ~Exists(worker.job) => UNCHANGED jobs
  <2>1. Parses(worker.job, status, put)
    BY <1>3
  <2> QED BY <2>1, RowParsed
<1>5. CASE ~Exists(worker.job)
  <2>1. worker' = Dead /\ jobs'[worker.job].status = "deleted"
    BY <1>2, <1>3, <1>4, <1>5 DEF Exists
  <2> QED BY <1>1, <1>4, <2>1, WorkerWorks DEF WorkerPlace, Resting
<1>6. CASE Exists(worker.job) /\ status = "succeeded"
  <2>1. worker'.at = "chunk" /\ worker'.job = worker.job
    BY <1>3, <1>6 DEF JobsKnown
  <2> QED
    BY <1>1, <1>2, <1>4, <1>6, <2>1, WorkerWorks
    DEF WorkerPlace, Resting, WorkerKind, WorkerStatus, Exists
<1>7. CASE Exists(worker.job) /\ status = "failed"
  BY <1>1, <1>2, <1>3, <1>4, <1>7, WorkerWorks DEF WorkerPlace, Resting, Exists
<1> QED BY <1>5, <1>6, <1>7 DEF EndedStatus

\* The steps of the worker that write no row.
LEMMA RestKept ==
    ASSUME HInv, JobsKnown, Chunk \/ ReadChunks \/ Clear \/ Upsert PROVE HInv'
<1>1. /\ worker.at \in {"chunk", "reading", "clearing", "upserting"}
      /\ UNCHANGED <<doc, jobs, queue, requests, inline, faults>>
  BY DEF Chunk, ReadChunks, Clear, Upsert, Works, stores, bounds
<1>2. /\ worker.job \in DOMAIN jobs /\ jobs[worker.job].status \in WorkerStatus(worker.at)
      /\ jobs[worker.job].status # "deleted" => Stored(WorkerDoc)
  BY <1>1, InHand DEF Resting
<1>3. Moved({worker.job})
  BY <1>1, RowsSame DEF Moved
<1>4. CASE Chunk
  <2>1. /\ worker' = Dead \/ (worker'.at = "queueIndex" /\ worker'.job = worker.job)
        /\ worker.at = "chunk"
    BY <1>4 DEF Chunk, JobsKnown, Works
  <2> QED
    BY <1>1, <1>2, <1>3, <1>4, <2>1, WorkerWorks
    DEF Chunk, Works, WorkerPlace, Resting, WorkerKind, WorkerStatus
<1>5. CASE ReadChunks \/ Clear \/ Upsert
  <2>1. /\ worker'.at \in {"clearing", "upserting", "indexed", "failing"}
        /\ worker'.job = worker.job /\ worker.at \in {"reading", "clearing", "upserting"}
    <3>1. CASE ReadChunks
      BY <3>1 DEF ReadChunks, Works, JobsKnown
    <3>2. CASE Clear \/ Upsert
      BY <3>2 DEF Clear, Upsert, Works, Goes, JobsKnown
    <3> QED BY <1>5, <3>1, <3>2
  <2> QED
    BY <1>1, <1>2, <1>3, <2>1, WorkerWorks
    DEF WorkerPlace, Resting, WorkerKind, WorkerStatus
<1> QED BY <1>4, <1>5

\* The two commits of run_index_job.
LEMMA IndexStartsAndEnds ==
    ASSUME HInv, JobsKnown, StartIndex \/ FinishIndex PROVE HInv'
<1>1. /\ worker.at \in {"index", "indexed", "failing"}
      /\ UNCHANGED <<doc, queue, requests, inline, faults>>
  BY DEF StartIndex, FinishIndex, Works, stores, bounds
<1>2. /\ worker.job \in DOMAIN jobs
      /\ jobs[worker.job].status # "deleted" => Stored(WorkerDoc)
  BY <1>1, InHand DEF Resting
<1>3. CASE ~Exists(worker.job)
  <2>1. UNCHANGED jobs /\ worker' = Dead /\ jobs[worker.job].status = "deleted"
    BY <1>2, <1>3 DEF StartIndex, FinishIndex, Exists
  <2>2. Moved({worker.job})
    BY <2>1, RowsSame DEF Moved
  <2> QED BY <1>1, <2>1, <2>2, WorkerWorks DEF WorkerPlace, Resting
<1>4. CASE Exists(worker.job) /\ StartIndex
  <2>1. SetJob(worker.job, "running") /\ worker'.at = "reading" /\ worker'.job = worker.job
        /\ worker.at = "index"
    BY <1>4 DEF StartIndex, Goes, JobsKnown, Works
  <2>2. /\ Moved({worker.job}) /\ DOMAIN jobs' = DOMAIN jobs
        /\ jobs'[worker.job].status = "running"
    BY <1>2, <2>1, RowSet DEF JobStatus
  <2> QED
    BY <1>1, <1>2, <1>4, <2>1, <2>2, WorkerWorks
    DEF WorkerPlace, Resting, WorkerKind, WorkerStatus, Runs, Exists
<1>5. CASE Exists(worker.job) /\ FinishIndex
  <2>1. PICK status \in EndedStatus : SetJob(worker.job, status) /\ worker' = Idle
    BY <1>5 DEF FinishIndex, EndedStatus
  <2>2. /\ Moved({worker.job}) /\ DOMAIN jobs' = DOMAIN jobs
        /\ jobs'[worker.job].status = status
    BY <1>2, <2>1, RowSet DEF JobStatus
  <2> QED
    BY <1>1, <1>2, <1>5, <2>1, <2>2, WorkerWorks
    DEF WorkerPlace, Resting, Exists, EndedStatus
<1> QED BY <1>3, <1>4, <1>5

\* queue_index_job of the worker: its new job is the one it has in hand.
LEMMA IndexQueued == ASSUME HInv, JobsKnown, QueueIndex PROVE HInv'
<1>1. /\ worker.at = "queueIndex" /\ UNCHANGED <<doc, queue, requests, inline, faults>>
  BY DEF QueueIndex, Works, stores, bounds
<1>2. /\ worker.job \in DOMAIN jobs /\ jobs[worker.job].status \in {"succeeded", "deleted"}
      /\ jobs[worker.job].status # "deleted" => Stored(WorkerDoc)
  BY <1>1, InHand DEF Resting, WorkerStatus
<1>3. CASE ~Stored(WorkerDoc)
  <2>1. UNCHANGED jobs /\ worker' = Dead
    BY <1>3 DEF QueueIndex
  <2>2. Moved({worker.job})
    BY <2>1, RowsSame DEF Moved
  <2> QED BY <1>1, <1>2, <1>3, <2>1, <2>2, WorkerWorks DEF WorkerPlace, Resting
<1>4. CASE Stored(WorkerDoc)
  <2> DEFINE n == Len(jobs')
  <2>1. /\ jobs' = Append(jobs, NewJob("index", WorkerDoc, "pending"))
        /\ worker'.at = "pushIndex" /\ worker'.job = n
    <3>1. /\ jobs' = Append(jobs, NewJob("index", WorkerDoc, "pending"))
          /\ worker' = [worker EXCEPT !.at = "pushIndex", !.job = Len(jobs')]
      BY <1>4 DEF QueueIndex
    <3>2. worker' = [at |-> "pushIndex", job |-> Len(jobs'), run |-> worker.run]
      BY <3>1 DEF JobsKnown
    <3> QED BY <3>1, <3>2
  <2>2. WorkerDoc \in Doc
    <3>1. jobs[worker.job] \in JobRow
      BY <1>2 DEF JobsKnown
    <3> QED BY <3>1 DEF WorkerDoc, JobRow
  <2>3. /\ Moved({}) /\ n \notin DOMAIN jobs /\ DOMAIN jobs' = DOMAIN jobs \cup {n}
        /\ jobs'[n].kind = "index" /\ jobs'[n].doc = WorkerDoc /\ jobs'[n].status = "pending"
        /\ \A j \in DOMAIN jobs : jobs'[j] = jobs[j]
    BY <2>1, <2>2, RowAdded DEF Kind, JobStatus
  <2> HIDE DEF n
  <2>4. Holders' = Holders /\ n \notin Holders
    <3>1. Holders' = Holders
      BY <1>1 DEF Holders, Lists, Queued
    <3>2. Holders \subseteq DOMAIN jobs
      BY DEF HInv, Held, AreRows, Holders, Lists, Kind
    <3> QED BY <2>3, <3>1, <3>2
  <2>5. Held'
    BY <1>1, <2>3, HeldMoved DEF HInv
  <2>6. WorkerHolds'
    BY <2>1, <2>3, <2>4
    DEF WorkerHolds, AreRows, WorkerPlace, Resting, WorkerKind, WorkerStatus, Waits
  <2>7. RowsOfStored'
    BY <1>1, <1>4, <2>3, StoredRowsKept DEF HInv
  <2>8. NothingLost'
    <3>1. faults' \in Nat /\ (faults' = 0 => faults = 0)
      BY <1>1 DEF HInv, NothingLost
    <3>2. \A i \in DOMAIN jobs' : jobs'[i].status \in {"pending", "running"} =>
             i \in Holders' \/ i = worker'.job
                 \/ i \in DOMAIN jobs \ ({} \cup Holders \cup {worker.job})
      BY <1>2, <2>1, <2>3, <2>4
    <3> QED BY <2>3, <3>1, <3>2, NothingLostKept DEF HInv
  <2> QED BY <2>5, <2>6, <2>7, <2>8 DEF HInv
<1> QED BY <1>3, <1>4

\* rpush of the worker's job.
LEMMA IndexPushed == ASSUME HInv, JobsKnown, PushIndex PROVE HInv'
<1> DEFINE j == worker.job
<1>1. /\ worker.at = "pushIndex" /\ worker' = Idle
      /\ queue' = [queue EXCEPT !["index"] = Append(@, j)]
      /\ UNCHANGED <<doc, jobs, requests, inline, faults>>
  BY DEF PushIndex, Works, stores, bounds
<1>2. /\ j \in DOMAIN jobs /\ jobs[j].kind = "index" /\ jobs[j].status \in Waits
      /\ j \notin Holders
  BY <1>1 DEF HInv, WorkerHolds, AreRows, Resting, WorkerKind, WorkerStatus
<1> HIDE DEF j
<1>3. /\ queue = [k \in Kind |-> queue[k]]
      /\ \A k \in Kind : queue[k] \in Seq(DOMAIN jobs) /\ IsInjective(queue[k])
      /\ \A k \in Kind : AreRows(jobs, Queued(k), {k}, Waits)
  BY DEF HInv, Held
<1>4. "index" \in Kind /\ j \notin Queued("index")
  BY <1>2 DEF Holders, Lists, Kind
<1>5. /\ Append(queue["index"], j) \in Seq(DOMAIN jobs) /\ IsInjective(Append(queue["index"], j))
      /\ ToSet(Append(queue["index"], j)) = Queued("index") \cup {j}
  BY <1>2, <1>3, <1>4, ListPushed DEF Queued
<1>6. /\ queue' = [k \in Kind |-> queue'[k]] /\ queue'["index"] = Append(queue["index"], j)
      /\ \A k \in Kind : k # "index" => queue'[k] = queue[k]
  BY <1>1, <1>3, <1>4
<1>7. /\ ToSet(queue'["index"]) = Queued("index") \cup {j}
      /\ \A k \in Kind : k # "index" => ToSet(queue'[k]) = Queued(k)
  BY <1>5, <1>6 DEF Queued
<1>8. Lists' = Lists \cup {j}
  BY <1>7 DEF Lists, Queued, Kind
<1>9. Holders' = Holders \cup {j}
  BY <1>1, <1>8 DEF Holders
<1>10. \A k \in Kind : queue'[k] \in Seq(DOMAIN jobs') /\ IsInjective(queue'[k])
  BY <1>1, <1>3, <1>5, <1>6
<1>11. \A k \in Kind : AreRows(jobs', ToSet(queue'[k]), {k}, Waits)
  BY <1>1, <1>2, <1>3, <1>7 DEF AreRows
<1>12. j \notin requests /\ j \notin inline
  BY <1>2 DEF Holders
<1>13. Held'
  BY <1>1, <1>6, <1>8, <1>10, <1>11, <1>12 DEF HInv, Held, Queued
<1>14. WorkerHolds'
  BY <1>1 DEF WorkerHolds, Idle, WorkerPlace, Resting
<1>15. RowsOfStored' /\ NothingLost'
  BY <1>1, <1>9 DEF HInv, RowsOfStored, NothingLost, Stored, j
<1> QED BY <1>13, <1>14, <1>15 DEF HInv

\* The worker dies, or is started again.
LEMMA WorkerDies == ASSUME HInv, JobsKnown, WorkerCrash \/ WorkerStarts PROVE HInv'
<1>1. UNCHANGED <<doc, jobs, queue, requests, inline>> /\ worker' \in {Idle, Dead}
  BY DEF WorkerCrash, WorkerStarts, stores
<1>2. faults' \in Nat /\ (faults' = 0 => faults = 0 /\ WorkerStarts)
  BY DEF WorkerCrash, WorkerStarts, stores, bounds, Fault, HInv, NothingLost
<1>3. Holders' = Holders /\ Moved({})
  BY <1>1, RowsSame DEF Holders, Lists, Queued
<1>4. Held'
  BY <1>1, <1>3, HeldMoved DEF HInv
<1>5. WorkerHolds'
  <2>1. worker'.at \in {"idle", "dead"} /\ worker'.job = NoJob
    BY <1>1 DEF Idle, Dead
  <2> QED BY <2>1 DEF WorkerHolds, WorkerPlace, Resting
<1>6. RowsOfStored'
  BY <1>1 DEF HInv, RowsOfStored, Stored
<1>7. NothingLost'
  <2>1. WorkerStarts => worker.job = NoJob /\ worker'.job = NoJob
    BY DEF WorkerStarts, Works, HInv, WorkerHolds, Resting, Idle
  <2> QED BY <1>1, <1>2, <1>3, <2>1 DEF HInv, NothingLost
<1> QED BY <1>4, <1>5, <1>6, <1>7 DEF HInv

\* A request that has no job, a deletion among them.
LEMMA RequestsElse ==
    ASSUME HInv, JobsKnown, NEW d \in Doc,
           \/ ChunkRequest(d) \/ BeginDelete(d) \/ DeleteVectors(d) \/ DeleteObjects(d)
           \/ DeleteRows(d) \/ DeleteAborts(d)
    PROVE  HInv'
<1>1. UNCHANGED <<queue, requests, inline, worker>>
  BY DEF ChunkRequest, BeginDelete, DeleteVectors, DeleteObjects, DeleteRows, DeleteAborts
<1>2. faults' \in Nat /\ (faults' = 0 => faults = 0)
  <2>1. faults' = faults \/ faults' = faults + 1
    BY DEF ChunkRequest, BeginDelete, DeleteVectors, DeleteObjects, DeleteRows, DeleteAborts,
           bounds, Asks, Fault
  <2> QED BY <2>1 DEF HInv, NothingLost
<1>3. CASE UNCHANGED <<jobs, doc>>
  <2>1. Moved({}) /\ RowsOfStored'
    BY <1>3, RowsSame DEF HInv, RowsOfStored, Stored
  <2> QED BY <1>1, <1>2, <1>3, <2>1, OtherRequest
<1>4. CASE DeleteRows(d) /\ ~UNCHANGED <<jobs, doc>>
  <2>1. /\ Moved({}) /\ DOMAIN jobs' = DOMAIN jobs
        /\ doc' = [doc EXCEPT ![d] = "deleted"]
        /\ \A j \in DOMAIN jobs :
             IF jobs[j].doc = d THEN jobs'[j].status = "deleted" ELSE jobs'[j] = jobs[j]
    BY <1>4, RowsDeleted
  <2>2. RowsOfStored'
    <3>1. doc = [e \in Doc |-> doc[e]]
          /\ \A j \in DOMAIN jobs : doc[jobs[j].doc] # "stored" => jobs[j].status = "deleted"
      BY DEF HInv, RowsOfStored, Stored
    <3>2. doc' = [e \in Doc |-> doc'[e]] /\ \A e \in Doc : e # d => doc'[e] = doc[e]
      BY <2>1, <3>1
    <3>3. \A j \in DOMAIN jobs : jobs[j].doc \in Doc
      <4>1. \A j \in DOMAIN jobs : jobs[j] \in JobRow
        BY DEF JobsKnown
      <4> QED BY <4>1 DEF JobRow
    <3> QED BY <2>1, <3>1, <3>2, <3>3 DEF RowsOfStored, Stored
  <2> QED BY <1>1, <1>2, <2>1, <2>2, OtherRequest
<1>5. DeleteRows(d) \/ UNCHANGED <<jobs, doc>>
  BY DEF ChunkRequest, BeginDelete, DeleteVectors, DeleteObjects, DeleteAborts
<1> QED BY <1>3, <1>4, <1>5

\* Requests that insert a job.
LEMMA RequestsInsert ==
    ASSUME HInv, JobsKnown, NEW d \in Doc,
           Upload(d) \/ ParseInline(d) \/ \E kind \in Kind : QueueJob(kind, d)
    PROVE  HInv'
<1>0. "parse" \in Kind /\ {"pending", "running", "failed"} \subseteq JobStatus
  BY DEF Kind, JobStatus, EndedStatus
<1>1. CASE Upload(d)
  <2>0. doc' = [doc EXCEPT ![d] = "stored"] /\ doc'[d] = "stored"
        /\ UNCHANGED <<queue, inline, worker>>
    BY <1>1 DEF Upload, HInv, RowsOfStored
  <2>1. CASE Asks /\ Inserts("parse", d)
    BY <1>0, <2>0, <2>1, RequestInserts DEF Inserts, Asks
  <2>2. CASE Fault /\ UNCHANGED <<jobs, requests>>
    <3>1. Moved({}) /\ faults' \in Nat /\ faults' # 0
      BY <2>2, RowsSame DEF Fault, HInv, NothingLost
    <3>2. RowsOfStored'
      <4>1. doc = [e \in Doc |-> doc[e]]
        BY DEF HInv, RowsOfStored
      <4>2. doc' = [e \in Doc |-> doc'[e]] /\ \A e \in Doc : Stored(e) => doc'[e] = "stored"
        BY <2>0, <4>1 DEF Stored
      <4>3. \A j \in DOMAIN jobs : jobs[j].doc \in Doc
        <5>1. \A j \in DOMAIN jobs : jobs[j] \in JobRow
          BY DEF JobsKnown
        <5> QED BY <5>1 DEF JobRow
      <4> QED BY <2>2, <4>2, <4>3 DEF HInv, RowsOfStored, Stored
    <3> QED BY <2>0, <2>2, <3>1, <3>2, OtherRequest
  <2> QED BY <1>1, <2>1, <2>2 DEF Upload
<1>2. CASE ParseInline(d)
  <2>0. doc' = doc /\ doc'[d] = "stored" /\ UNCHANGED <<queue, requests, worker, faults>>
    BY <1>2 DEF ParseInline, Stored, Asks
  <2>1. CASE d \in file
    BY <1>0, <1>2, <2>0, <2>1, RequestInserts DEF ParseInline
  <2>2. CASE d \notin file
    BY <1>0, <1>2, <2>0, <2>2, RequestInserts DEF ParseInline
  <2> QED BY <2>1, <2>2
<1>3. ASSUME NEW kind \in Kind, QueueJob(kind, d) PROVE HInv'
  <2>0. doc' = doc /\ doc'[d] = "stored" /\ UNCHANGED <<queue, inline, worker, faults>>
        /\ Inserts(kind, d)
    BY <1>3 DEF QueueJob, Stored, Asks
  <2> QED BY <1>0, <2>0, RequestInserts DEF Inserts
<1> QED BY <1>1, <1>2, <1>3

------------------------------------------------------------------------------
\* The invariant.

\* Before anything happened.
LEMMA HInvInit == Init => HInv
<1> SUFFICES ASSUME Init PROVE HInv
  OBVIOUS
<1>1. /\ queue = [k \in Kind |-> <<>>] /\ requests = {} /\ inline = {} /\ jobs = <<>>
      /\ worker = Idle /\ faults = 0 /\ doc = [d \in Doc |-> "absent"]
  BY DEF Init
<1>2. DOMAIN jobs = {} /\ \A k \in Kind : ToSet(queue[k]) = {}
  BY <1>1 DEF ToSet
<1>3. <<>> \in Seq(DOMAIN jobs) /\ IsInjective(<<>>)
  BY DEF IsInjective
<1>4. Lists = {}
  BY <1>2 DEF Lists, Queued, Kind
<1>5. Held
  BY <1>1, <1>2, <1>3, <1>4 DEF Held, AreRows, Queued
<1>6. WorkerHolds
  BY <1>1 DEF WorkerHolds, Idle, WorkerPlace, Resting
<1> QED BY <1>1, <1>2, <1>5, <1>6 DEF HInv, RowsOfStored, NothingLost

\* Every step keeps it.
LEMMA HInvNext == ASSUME HInv, IInv, [Next]_vars PROVE HInv'
<1>0. JobsKnown
  BY DEF IInv
<1>1. ASSUME NEW d \in Doc,
             \/ Upload(d) \/ ParseInline(d) \/ ChunkRequest(d) \/ BeginDelete(d)
             \/ DeleteStep(d) \/ DeleteAborts(d) \/ \E kind \in Kind : QueueJob(kind, d)
      PROVE  HInv'
  BY <1>0, <1>1, RequestsInsert, RequestsElse DEF DeleteStep
<1>2. CASE ApiStep \/ ApiCrash
  BY <1>0, <1>2, PushHeld, InlineEnds, ApiDies DEF ApiStep
<1>3. CASE WorkerStep \/ WorkerStarts \/ WorkerCrash
  BY <1>0, <1>3, PopHeld, ParseStarts, ParseFinishes, RestKept, IndexStartsAndEnds,
     IndexQueued, IndexPushed, WorkerDies DEF WorkerStep
<1>4. CASE UNCHANGED vars
  <2>1. Moved({}) /\ RowsOfStored' /\ UNCHANGED <<queue, requests, inline, worker, faults>>
        /\ faults \in Nat
    BY <1>0, <1>4, RowsSame DEF vars, bounds, HInv, RowsOfStored, Stored, NothingLost
  <2> QED BY <1>4, <2>1, OtherRequest DEF vars
<1> QED BY <1>1, <1>2, <1>3, <1>4 DEF Next

(***************************************************************************)
(* A job that is pending or running is with a request, in a thread of the  *)
(* backend, in a list or with the worker: as long as nobody dies, no       *)
(* handler and no exception loses one.                                     *)
(***************************************************************************)
THEOREM JobsAreKept == Spec => []NothingStuck
<1>1. Spec => [](IInv /\ HInv)
  BY InitOK, NextOK, HInvInit, HInvNext, PTL DEF Spec
<1>2. HInv => NothingStuck
  <2>1. Holders \subseteq InFlight /\ worker.job \in InFlight
    BY DEF InFlight, Holders, Lists, Queued, Kind
  <2> QED BY <2>1 DEF HInv, NothingLost, NothingStuck
<1> QED BY <1>1, <1>2, PTL

------------------------------------------------------------------------------
(***************************************************************************)
(* What is searchable when an index job succeeds.                          *)
(***************************************************************************)

\* After the upsert, the run the worker read is the one that is searchable.
IndexedRun ==
    /\ deletion = [d \in Doc |-> deletion[d]]
    /\ worker.at = "indexed" /\ deletion[WorkerDoc].step = "none"
        => vectors[WorkerDoc] = {worker.run}

PInv == IInv /\ HInv /\ IndexedRun

\* A deletion that was tried is never forgotten.
LEMMA DeletionsTold ==
    ASSUME IndexedRun, [Next]_vars
    PROVE  /\ deletion' = [d \in Doc |-> deletion'[d]]
           /\ \A d \in Doc : deletion'[d].step = "none" => deletion[d].step = "none"
<1>0. deletion = [d \in Doc |-> deletion[d]]
  BY DEF IndexedRun
<1>1. CASE UNCHANGED deletion
  BY <1>0, <1>1
<1>2. ASSUME NEW d \in Doc, NEW r, r.step # "none", deletion' = [deletion EXCEPT ![d] = r]
      PROVE  /\ deletion' = [e \in Doc |-> deletion'[e]]
             /\ \A e \in Doc : deletion'[e].step = "none" => deletion[e].step = "none"
  BY <1>0, <1>2
<1>3. ASSUME NEW d \in Doc, BeginDelete(d) \/ DeleteRows(d) \/ DeleteAborts(d)
      PROVE  \E r : r.step # "none" /\ deletion' = [deletion EXCEPT ![d] = r]
  <2>1. [Nobody EXCEPT !.step = "over"].step = "over"
        /\ [Nobody EXCEPT !.step = "failed"].step = "failed"
    BY DEF Nobody
  <2>2. CASE BeginDelete(d)
    BY <2>2 DEF BeginDelete
  <2>3. CASE DeleteRows(d) \/ DeleteAborts(d)
    BY <2>1, <2>3 DEF DeleteRows, DeleteAborts
  <2> QED BY <1>3, <2>2, <2>3
<1>4. ASSUME NEW d \in Doc, NEW step, step # "none",
             deletion' = [deletion EXCEPT ![d].step = step], deletion[d].step # "none"
      PROVE  /\ deletion' = [e \in Doc |-> deletion'[e]]
             /\ \A e \in Doc : deletion'[e].step = "none" => deletion[e].step = "none"
  BY <1>0, <1>4
<1>5. ASSUME NEW d \in Doc, DeleteVectors(d) \/ DeleteObjects(d)
      PROVE  \E step : /\ step # "none" /\ deletion' = [deletion EXCEPT ![d].step = step]
                       /\ deletion[d].step # "none"
  BY <1>5 DEF DeleteVectors, DeleteObjects
<1>6. CASE ApiCrash
  <2>1. [Nobody EXCEPT !.step = "failed"].step = "failed"
    BY DEF Nobody
  <2> QED BY <1>0, <1>6, <2>1 DEF ApiCrash
<1>7. ASSUME NEW d \in Doc,
             Upload(d) \/ ParseInline(d) \/ ChunkRequest(d) \/ \E kind \in Kind : QueueJob(kind, d)
      PROVE  UNCHANGED deletion
  BY <1>7 DEF Upload, ParseInline, ChunkRequest, QueueJob
<1>8. CASE ApiStep \/ WorkerCrash \/ WorkerStarts \/ UNCHANGED vars
  BY <1>1, <1>8 DEF ApiStep, PushJob, FinishInline, WorkerCrash, WorkerStarts, stores, vars
<1>9. CASE WorkerStep
  BY <1>1, <1>9 DEF WorkerStep, Pop, StartParse, FinishParse, Chunk, QueueIndex, PushIndex,
       StartIndex, ReadChunks, Clear, Upsert, FinishIndex, stores
<1> QED
  BY <1>1, <1>2, <1>3, <1>4, <1>5, <1>6, <1>7, <1>8, <1>9 DEF Next, DeleteStep

\* Another step does not change what was indexed.
LEMMA IndexedRunKept == ASSUME PInv, [Next]_vars, IInv' PROVE IndexedRun'
<1>0. IInv /\ HInv /\ IndexedRun /\ Grown
  BY JobsGrow DEF PInv
<1>1. /\ deletion' = [d \in Doc |-> deletion'[d]]
      /\ \A d \in Doc : deletion'[d].step = "none" => deletion[d].step = "none"
  BY <1>0, DeletionsTold
<1>2. ASSUME worker.at \notin Resting
      PROVE  worker.job \in DOMAIN jobs /\ WorkerDoc \in Doc
             /\ (worker'.job = worker.job => WorkerDoc' = WorkerDoc)
  <2>1. worker.job \in DOMAIN jobs
    BY <1>0, <1>2, InHand
  <2>2. jobs[worker.job] \in JobRow
    BY <1>0, <2>1 DEF IInv, JobsKnown
  <2> QED BY <1>0, <2>1, <2>2 DEF WorkerDoc, JobRow, Grown
<1> SUFFICES ASSUME worker'.at = "indexed", deletion'[WorkerDoc'].step = "none"
             PROVE  vectors'[WorkerDoc'] = {worker'.run}
  BY <1>1 DEF IndexedRun
<1>3. CASE ~VectorStep
  <2>1. UNCHANGED vectors /\ UNCHANGED worker
    BY <1>0, <1>3, OtherSteps
  <2> QED BY <1>0, <1>1, <1>2, <2>1 DEF IndexedRun, Resting
<1>4. CASE Clear
  BY <1>0, <1>4 DEF Clear, Goes, IInv, JobsKnown
<1>5. CASE Upsert
  <2>1. /\ vectors = [d \in Doc |-> vectors[d]] /\ vectors[WorkerDoc] = {}
        /\ worker.at = "upserting" /\ worker'.job = worker.job /\ worker'.run = worker.run
    BY <1>0, <1>5 DEF Upsert, Works, Goes, IInv, JobsKnown, ClearedForUpsert
  <2>2. vectors' = [vectors EXCEPT ![WorkerDoc] = @ \cup {worker.run}]
    BY <1>0, <1>5 DEF Upsert, Goes, IInv, JobsKnown
  <2> QED BY <1>2, <2>1, <2>2 DEF Resting
<1>6. ASSUME NEW d \in Doc, DeleteVectors(d) PROVE vectors'[WorkerDoc'] = {worker'.run}
  <2>1. /\ UNCHANGED <<jobs, worker>> /\ vectors' = [vectors EXCEPT ![d] = {}]
        /\ deletion' = [deletion EXCEPT ![d].step = "cleared"]
    BY <1>6 DEF DeleteVectors
  <2>2. deletion'[d].step # "none"
    BY <1>1, <1>6 DEF DeleteVectors
  <2>3. WorkerDoc' = WorkerDoc /\ WorkerDoc \in Doc /\ WorkerDoc # d
    BY <1>2, <2>1, <2>2 DEF Resting
  <2>4. vectors = [e \in Doc |-> vectors[e]]
    BY <1>0 DEF IInv, ClearedForUpsert
  <2> QED BY <1>0, <1>1, <2>1, <2>3, <2>4 DEF IndexedRun
<1> QED BY <1>3, <1>4, <1>5, <1>6 DEF VectorStep

\* Only the worker makes an index job succeed, after its upsert.
LEMMA WhoSucceeds ==
    ASSUME IInv, HInv, [Next]_vars, NEW j \in DOMAIN jobs,
           jobs[j].kind = "index", jobs[j].status # "succeeded", jobs'[j].status = "succeeded"
    PROVE  worker.at = "indexed" /\ j = worker.job
<1>0. JobsKnown
  BY DEF IInv
<1>1. ~Moved({}) /\ \A i : Moved({i}) => i = j
  BY DEF Moved
<1>2. ASSUME NEW d \in Doc, Upload(d) \/ ParseInline(d) \/ \E kind \in Kind : QueueJob(kind, d)
      PROVE  Moved({})
  <2>0. "parse" \in Kind /\ {"pending", "running", "failed"} \subseteq JobStatus
    BY DEF Kind, JobStatus, EndedStatus
  <2>1. CASE UNCHANGED jobs
    BY <1>0, <2>1, RowsSame
  <2>2. \/ UNCHANGED jobs
        \/ \E kind \in Kind, status \in JobStatus : jobs' = Append(jobs, NewJob(kind, d, status))
    BY <1>2, <2>0 DEF Upload, ParseInline, QueueJob, Inserts
  <2> QED BY <1>0, <2>1, <2>2, RowAdded
<1>3. ASSUME NEW d \in Doc, DeleteRows(d) PROVE Moved({})
  BY <1>0, <1>3, RowsDeleted
<1>4. ASSUME NEW i \in inline, FinishInline(i) PROVE i # j /\ Moved({i})
  <2>1. jobs[i].kind = "parse"
    BY <1>4 DEF HInv, Held, AreRows
  <2> QED BY <1>0, <1>4, <2>1, RowParsed DEF FinishInline
<1>5. CASE FinishParse
  <2>1. jobs[worker.job].kind = "parse"
    BY <1>5, InHand DEF FinishParse, Works, Resting, WorkerKind
  <2>2. Moved({worker.job})
    BY <1>0, <1>5, RowParsed DEF FinishParse
  <2> QED BY <1>1, <2>1, <2>2
<1>6. CASE StartParse \/ StartIndex
  <2>1. CASE UNCHANGED jobs
    BY <1>0, <1>1, <2>1, RowsSame
  <2>2. CASE SetJob(worker.job, "running")
    <3>1. worker.job \in DOMAIN jobs
      BY <1>6, InHand DEF StartParse, StartIndex, Works, Resting
    <3>2. Moved({worker.job}) /\ jobs'[worker.job].status = "running"
      BY <1>0, <2>2, <3>1, RowSet DEF JobStatus
    <3> QED BY <1>1, <3>2
  <2> QED BY <1>6, <2>1, <2>2 DEF StartParse, StartIndex
<1>7. CASE FinishIndex
  <2>1. CASE UNCHANGED jobs
    BY <1>0, <1>1, <2>1, RowsSame
  <2>2. CASE SetJob(worker.job, IF Works("indexed") THEN "succeeded" ELSE "failed")
    <3>1. worker.job \in DOMAIN jobs
      BY <1>7, InHand DEF FinishIndex, Works, Resting
    <3>2. Moved({worker.job})
          /\ jobs'[worker.job].status = IF Works("indexed") THEN "succeeded" ELSE "failed"
      BY <1>0, <2>2, <3>1, RowSet DEF JobStatus, EndedStatus
    <3> QED BY <1>1, <3>2 DEF Works
  <2> QED BY <1>7, <2>1, <2>2 DEF FinishIndex
<1>8. CASE QueueIndex
  <2>1. CASE UNCHANGED jobs
    BY <1>0, <1>1, <2>1, RowsSame
  <2>2. CASE jobs' = Append(jobs, NewJob("index", WorkerDoc, "pending"))
    <3>1. worker.job \in DOMAIN jobs
      BY <1>8, InHand DEF QueueIndex, Works, Resting
    <3>2. jobs[worker.job] \in JobRow
      BY <1>0, <3>1 DEF JobsKnown
    <3>3. WorkerDoc \in Doc
      BY <3>2 DEF WorkerDoc, JobRow
    <3> QED BY <1>0, <1>1, <2>2, <3>3, RowAdded DEF Kind, JobStatus
  <2> QED BY <1>8, <2>1, <2>2 DEF QueueIndex
<1>9. ASSUME NEW d \in Doc,
             ChunkRequest(d) \/ BeginDelete(d) \/ DeleteVectors(d) \/ DeleteObjects(d)
                 \/ DeleteAborts(d)
      PROVE  Moved({})
  BY <1>0, <1>9, RowsSame
  DEF ChunkRequest, BeginDelete, DeleteVectors, DeleteObjects, DeleteAborts
<1>10. ASSUME NEW i, PushJob(i) PROVE Moved({})
  BY <1>0, <1>10, RowsSame DEF PushJob
<1>11. CASE Pop \/ Chunk \/ PushIndex \/ ReadChunks \/ Clear \/ Upsert \/ WorkerStarts
            \/ ApiCrash \/ WorkerCrash \/ UNCHANGED vars
  <2>1. UNCHANGED jobs
    BY <1>11 DEF Pop, Chunk, PushIndex, ReadChunks, Clear, Upsert, WorkerStarts, ApiCrash,
                 WorkerCrash, vars
  <2> QED BY <1>0, <1>1, <2>1, RowsSame
<1> QED
  BY <1>1, <1>2, <1>3, <1>4, <1>5, <1>6, <1>7, <1>8, <1>9, <1>10, <1>11
  DEF Next, DeleteStep, ApiStep, WorkerStep

(***************************************************************************)
(* When an index job succeeds, its document is searchable in exactly the   *)
(* run the job read, whatever other jobs and faults came before, unless    *)
(* somebody tried to delete the document.                                  *)
(***************************************************************************)
THEOREM IndexingStoresItsRun == Spec => IndexedWhenDone
<1>1. Init => PInv
  <2>1. Init => IndexedRun
    BY DEF Init, Idle, IndexedRun
  <2> QED BY <2>1, InitOK, HInvInit DEF PInv
<1>2. PInv /\ [Next]_vars => PInv'
  BY NextOK, HInvNext, IndexedRunKept DEF PInv
<1>3. PInv /\ [Next]_vars =>
        [\A j \in DOMAIN jobs :
            /\ jobs[j].kind = "index"
            /\ jobs[j].status # "succeeded"
            /\ jobs'[j].status = "succeeded"
            /\ deletion[jobs[j].doc].step = "none"
            => vectors[jobs[j].doc] = {worker.run}]_vars
  <2> SUFFICES ASSUME PInv, [Next]_vars, NEW j \in DOMAIN jobs,
                      jobs[j].kind = "index", jobs[j].status # "succeeded",
                      jobs'[j].status = "succeeded", deletion[jobs[j].doc].step = "none"
               PROVE  vectors[jobs[j].doc] = {worker.run}
    OBVIOUS
  <2>1. worker.at = "indexed" /\ j = worker.job
    BY WhoSucceeds DEF PInv
  <2>2. WorkerDoc = jobs[j].doc
    BY <2>1 DEF WorkerDoc
  <2>3. worker.at = "indexed" /\ deletion[WorkerDoc].step = "none"
        => vectors[WorkerDoc] = {worker.run}
    BY DEF PInv, IndexedRun
  <2> QED BY <2>1, <2>2, <2>3
<1> QED BY <1>1, <1>2, <1>3, PTL DEF Spec, IndexedWhenDone

------------------------------------------------------------------------------
(***************************************************************************)
(* What a deletion leaves, when it meets no other work.                    *)
(***************************************************************************)

\* A deletion starts when the worker has nothing in hand.
HandsOff == Deleting # {} => worker.at \in Resting

\* Past the check of its document, the worker's job is not deleted.
WorkerHasRow == worker.at \notin Resting \cup {"parse", "index"} => Exists(worker.job)

\* The artifacts in the object store are those of parse jobs that ended, and
\* whose row names them.
ArtifactRow(table, j) ==
    /\ j \in DOMAIN table /\ table[j].kind = "parse" /\ table[j].rows
    /\ table[j].status \in EndedStatus

ArtifactsHaveRows == \A j \in artifacts : ArtifactRow(jobs, j)

\* A deletion has read all artifacts there are, and what it deleted stays away.
DeletionSees ==
    \A d \in Doc :
        /\ deletion[d].step \in {"read", "cleared"} =>
            \A j \in artifacts : jobs[j].doc = d => j \in deletion[d].artifacts
        /\ deletion[d].step \in {"cleared", "emptied"} => vectors[d] = {}
        /\ deletion[d].step = "emptied" =>
            d \notin file /\ \A j \in artifacts : jobs[j].doc # d

NoneLeft == \A d \in Doc : doc[d] = "deleted" => d \notin file /\ vectors[d] = {}

Told ==
    deletion = [d \in Doc |-> [step |-> deletion[d].step, jobs |-> deletion[d].jobs,
                               runs |-> deletion[d].runs, artifacts |-> deletion[d].artifacts]]

QInv == HandsOff /\ WorkerHasRow /\ ArtifactsHaveRows /\ DeletionSees /\ NoneLeft /\ Told

AllInv == IInv /\ HInv /\ QInv

\* QuietSpec only leaves out steps.
LEMMA QuietIsNext == ASSUME QuietNext PROVE Next
BY DEF QuietNext, Next, ApiStep

\* Work that goes on between two deletions.
LEMMA BetweenDeletions ==
    ASSUME QInv, Deleting = {}, UNCHANGED deletion,
           WorkerHasRow', ArtifactsHaveRows', NoneLeft'
    PROVE  QInv'
<1>1. Deleting' = {}
  BY DEF Deleting
<1>2. \A d \in Doc : deletion'[d].step \notin {"read", "cleared", "emptied"}
  BY <1>1 DEF Deleting
<1>3. DeletionSees'
  BY <1>2 DEF DeletionSees
<1>4. Told'
  BY DEF QInv, Told
<1> QED BY <1>1, <1>3, <1>4 DEF QInv, HandsOff

\* Requests.
LEMMA QuietRequests ==
    ASSUME AllInv, Deleting = {}, NEW d \in Doc,
           Upload(d) \/ ChunkRequest(d) \/ \E kind \in Kind : QueueJob(kind, d)
    PROVE  QInv'
<1>0. JobsKnown /\ HInv /\ QInv
  BY DEF AllInv, IInv
<1>1. UNCHANGED <<deletion, worker, artifacts, vectors>>
  BY DEF Upload, ChunkRequest, QueueJob
<1>2. DOMAIN jobs \subseteq DOMAIN jobs' /\ \A j \in DOMAIN jobs : jobs'[j] = jobs[j]
  <2>1. CASE UNCHANGED jobs
    BY <2>1
  <2>2. CASE \E kind \in Kind : Inserts(kind, d)
    BY <1>0, <2>2, RowAdded DEF Inserts, JobStatus
  <2> QED BY <2>1, <2>2 DEF Upload, ChunkRequest, QueueJob, Kind
<1>3. WorkerHasRow' /\ ArtifactsHaveRows'
  BY <1>0, <1>1, <1>2 DEF QInv, WorkerHasRow, Exists, ArtifactsHaveRows, ArtifactRow
<1>4. NoneLeft'
  <2>1. doc = [e \in Doc |-> doc[e]]
    BY <1>0 DEF HInv, RowsOfStored
  <2>2. CASE Upload(d)
    <3>1. doc' = [doc EXCEPT ![d] = "stored"] /\ file' = file \cup {d}
      BY <2>2 DEF Upload
    <3> QED BY <1>0, <1>1, <2>1, <3>1 DEF QInv, NoneLeft
  <2>3. CASE UNCHANGED <<doc, file>>
    BY <1>0, <1>1, <2>3 DEF QInv, NoneLeft
  <2> QED BY <2>2, <2>3 DEF ChunkRequest, QueueJob
<1> QED BY <1>0, <1>1, <1>3, <1>4, BetweenDeletions

\* The job in hand has no artifacts until it is parsed.
LEMMA NotParsedYet ==
    ASSUME AllInv, worker.at \notin Resting \cup {"chunk", "queueIndex"}
    PROVE  worker.job \in DOMAIN jobs /\ worker.job \notin artifacts
<1>1. /\ worker.job \in DOMAIN jobs /\ jobs[worker.job].kind \in WorkerKind(worker.at)
      /\ jobs[worker.job].status \in WorkerStatus(worker.at)
  BY InHand DEF AllInv
<1>2. \/ jobs[worker.job].kind = "index"
      \/ jobs[worker.job].status \notin EndedStatus
  BY <1>1 DEF AllInv, HInv, WorkerHolds, WorkerPlace, WorkerKind, WorkerStatus, Waits, Runs,
              EndedStatus
<1> QED BY <1>1, <1>2 DEF AllInv, QInv, ArtifactsHaveRows, ArtifactRow

\* A step of the worker that leaves the rows of parsed jobs alone.
LEMMA QuietWorker ==
    ASSUME AllInv, Deleting = {}, UNCHANGED <<deletion, doc, file, artifacts>>, WorkerHasRow',
           DOMAIN jobs \subseteq DOMAIN jobs', \A j \in artifacts : jobs'[j] = jobs[j],
           \A d \in Doc : doc[d] = "deleted" => vectors'[d] = vectors[d]
    PROVE  QInv'
<1>1. ArtifactsHaveRows'
  BY DEF AllInv, QInv, ArtifactsHaveRows, ArtifactRow
<1>2. NoneLeft'
  BY DEF AllInv, QInv, NoneLeft
<1> QED BY <1>1, <1>2, BetweenDeletions DEF AllInv

\* The end of parse_version in the worker: the row names what was put.
LEMMA QuietParse ==
    ASSUME AllInv, Deleting = {}, FinishParse
    PROVE  QInv'
<1>0. JobsKnown /\ HInv /\ QInv
  BY DEF AllInv, IInv
<1>1. /\ worker.at \in {"parsing", "unreadable"} /\ UNCHANGED <<deletion, doc, file, vectors>>
  BY DEF FinishParse, Works
<1>2. Exists(worker.job)
  BY <1>0, <1>1 DEF QInv, WorkerHasRow, Resting
<1>3. PICK status \in EndedStatus, put \in BOOLEAN :
        /\ Parses(worker.job, status, put)
        /\ worker' = IF ~Exists(worker.job) THEN Dead
                     ELSE IF status = "succeeded" THEN [worker EXCEPT !.at = "chunk"]
                     ELSE Idle
  BY DEF FinishParse
<1>4. /\ artifacts' = IF put THEN artifacts \cup {worker.job} ELSE artifacts
      /\ jobs' = [jobs EXCEPT ![worker.job].status = status, ![worker.job].rows = put]
  BY <1>2, <1>3 DEF Parses
<1>5. worker.job \in DOMAIN jobs /\ worker.job \notin artifacts
  BY <1>1, NotParsedYet DEF Resting
<1>6. jobs[worker.job] \in JobRow /\ jobs[worker.job].kind = "parse"
  BY <1>0, <1>1, <1>5, InHand DEF JobsKnown, WorkerKind, Resting
<1>7. /\ DOMAIN jobs' = DOMAIN jobs /\ jobs'[worker.job].kind = "parse"
      /\ jobs'[worker.job].status = status /\ jobs'[worker.job].rows = put
      /\ \A j \in DOMAIN jobs : j # worker.job => jobs'[j] = jobs[j]
  BY <1>4, <1>5, <1>6 DEF JobRow
<1>8. ArtifactsHaveRows'
  BY <1>0, <1>4, <1>5, <1>7 DEF QInv, ArtifactsHaveRows, ArtifactRow
<1>9. WorkerHasRow'
  <2>1. CASE status = "succeeded"
    <3>1. worker'.job = worker.job
      BY <1>2, <1>3, <2>1, <1>0 DEF JobsKnown
    <3> QED BY <1>5, <1>7, <2>1, <3>1 DEF WorkerHasRow, Exists
  <2>2. CASE status # "succeeded"
    BY <1>2, <1>3, <2>2 DEF Idle, WorkerHasRow, Resting
  <2> QED BY <2>1, <2>2
<1>10. NoneLeft'
  BY <1>0, <1>1 DEF QInv, NoneLeft
<1> QED BY <1>0, <1>1, <1>8, <1>9, <1>10, BetweenDeletions

\* The steps of the worker, when no deletion is under way.
LEMMA QuietWork ==
    ASSUME AllInv, Deleting = {}, WorkerStep
    PROVE  QInv'
<1>0. JobsKnown /\ HInv /\ QInv
  BY DEF AllInv, IInv
<1>1. CASE Pop
  <2>1. UNCHANGED <<deletion, doc, file, artifacts, vectors, jobs>>
    BY <1>1 DEF Pop, stores
  <2>2. WorkerHasRow'
    <3>1. PICK kind \in Kind : worker' = [Idle EXCEPT !.at = kind, !.job = Head(queue[kind])]
      BY <1>1 DEF Pop
    <3> QED BY <3>1 DEF Idle, Kind, WorkerHasRow
  <2> QED BY <2>1, <2>2, QuietWorker
<1>2. CASE StartParse \/ StartIndex
  <2>1. /\ UNCHANGED <<deletion, doc, file, artifacts, vectors>>
        /\ worker.at \in {"parse", "index"}
    BY <1>2 DEF StartParse, StartIndex, stores, Works
  <2>2. worker.job \in DOMAIN jobs /\ worker.job \notin artifacts
    BY <2>1, NotParsedYet DEF Resting
  <2>3. CASE UNCHANGED jobs /\ worker' = Dead
    <3>1. WorkerHasRow'
      BY <2>3 DEF Dead, WorkerHasRow, Resting
    <3> QED BY <2>1, <2>3, <3>1, QuietWorker
  <2>4. CASE /\ SetJob(worker.job, "running")
             /\ \E place \in {"parsing", "unreadable", "reading"} : Goes(place)
    <3>1. /\ DOMAIN jobs' = DOMAIN jobs /\ jobs'[worker.job].status = "running"
          /\ \A j \in DOMAIN jobs : j # worker.job => jobs'[j] = jobs[j]
      BY <1>0, <2>2, <2>4, RowSet DEF JobStatus
    <3>2. worker'.job = worker.job
      BY <1>0, <2>4 DEF Goes, JobsKnown
    <3>3. WorkerHasRow'
      BY <2>2, <3>1, <3>2 DEF WorkerHasRow, Exists
    <3>4. artifacts \subseteq DOMAIN jobs
      BY <1>0 DEF QInv, ArtifactsHaveRows, ArtifactRow
    <3> QED BY <2>1, <2>2, <3>1, <3>3, <3>4, QuietWorker
  <2> QED BY <1>2, <2>3, <2>4 DEF StartParse, StartIndex
<1>3. CASE Chunk \/ ReadChunks \/ Clear \/ Upsert
  <2>1. /\ UNCHANGED <<deletion, doc, file, artifacts, jobs>>
        /\ worker.at \in {"chunk", "reading", "clearing", "upserting"}
    BY <1>3 DEF Chunk, ReadChunks, Clear, Upsert, stores, Works
  <2>2. Exists(worker.job)
    BY <1>0, <2>1 DEF QInv, WorkerHasRow, Resting
  <2>3. WorkerHasRow'
    <3>1. worker'.at = "dead" \/ worker'.job = worker.job
      <4>1. CASE Chunk
        BY <1>0, <4>1 DEF Chunk, Dead, JobsKnown
      <4>2. CASE ReadChunks
        BY <1>0, <4>2 DEF ReadChunks, JobsKnown
      <4>3. CASE Clear \/ Upsert
        BY <1>0, <4>3 DEF Clear, Upsert, Goes, JobsKnown
      <4> QED BY <1>3, <4>1, <4>2, <4>3
    <3> QED BY <2>1, <2>2, <3>1 DEF WorkerHasRow, Exists, Resting
  <2>4. Stored(WorkerDoc)
    BY <1>0, <2>2 DEF HInv, RowsOfStored, Exists, WorkerDoc
  <2>5. \A d \in Doc : doc[d] = "deleted" => vectors'[d] = vectors[d]
    <3>0. vectors = [d \in Doc |-> vectors[d]]
      BY DEF AllInv, IInv, ClearedForUpsert
    <3>1. \/ UNCHANGED vectors
          \/ \E new : vectors' = [vectors EXCEPT ![WorkerDoc] = new]
      BY <1>3 DEF Chunk, ReadChunks, Clear, Upsert
    <3> QED BY <2>4, <3>0, <3>1 DEF Stored
  <2> QED BY <2>1, <2>3, <2>5, QuietWorker
<1>4. CASE QueueIndex
  <2>1. UNCHANGED <<deletion, doc, file, artifacts, vectors>> /\ worker.at = "queueIndex"
    BY <1>4 DEF QueueIndex, stores, Works
  <2>2. CASE UNCHANGED jobs /\ worker' = Dead
    <3>1. WorkerHasRow'
      BY <2>2 DEF Dead, WorkerHasRow, Resting
    <3> QED BY <2>1, <2>2, <3>1, QuietWorker
  <2>3. CASE /\ jobs' = Append(jobs, NewJob("index", WorkerDoc, "pending"))
             /\ worker' = [worker EXCEPT !.at = "pushIndex", !.job = Len(jobs')]
    <3>1. WorkerDoc \in Doc
      <4>1. worker.job \in DOMAIN jobs
        BY <1>0, <2>1, InHand DEF Resting
      <4>2. jobs[worker.job] \in JobRow
        BY <1>0, <4>1 DEF JobsKnown
      <4> QED BY <4>2 DEF WorkerDoc, JobRow
    <3> DEFINE n == Len(jobs')
    <3>2. /\ DOMAIN jobs' = DOMAIN jobs \cup {n} /\ jobs'[n].status = "pending"
          /\ \A j \in DOMAIN jobs : jobs'[j] = jobs[j]
      BY <1>0, <2>3, <3>1, RowAdded DEF Kind, JobStatus
    <3>3. worker'.job = n
      <4>1. worker' = [at |-> "pushIndex", job |-> Len(jobs'), run |-> worker.run]
        BY <1>0, <2>3 DEF JobsKnown
      <4> QED BY <4>1
    <3> HIDE DEF n
    <3>4. WorkerHasRow'
      BY <3>2, <3>3 DEF WorkerHasRow, Exists
    <3>5. artifacts \subseteq DOMAIN jobs
      BY <1>0 DEF QInv, ArtifactsHaveRows, ArtifactRow
    <3> QED BY <2>1, <3>2, <3>4, <3>5, QuietWorker
  <2> QED BY <1>4, <2>2, <2>3 DEF QueueIndex
<1>5. CASE PushIndex \/ FinishIndex
  <2>1. /\ UNCHANGED <<deletion, doc, file, artifacts, vectors>> /\ worker' \in {Idle, Dead}
        /\ worker.at \in {"pushIndex", "indexed", "failing"}
    BY <1>5 DEF PushIndex, FinishIndex, stores, Works
  <2>2. WorkerHasRow'
    BY <2>1 DEF WorkerHasRow, Resting, Idle, Dead
  <2>3. worker.job \in DOMAIN jobs /\ worker.job \notin artifacts
    BY <2>1, NotParsedYet DEF Resting
  <2>4. DOMAIN jobs' = DOMAIN jobs /\ \A j \in DOMAIN jobs : j # worker.job => jobs'[j] = jobs[j]
    <3>1. CASE UNCHANGED jobs
      BY <3>1
    <3>2. CASE \E status \in EndedStatus : SetJob(worker.job, status)
      BY <1>0, <2>3, <3>2, RowSet DEF JobStatus
    <3> QED BY <1>5, <3>1, <3>2 DEF PushIndex, FinishIndex, EndedStatus
  <2>5. artifacts \subseteq DOMAIN jobs
    BY <1>0 DEF QInv, ArtifactsHaveRows, ArtifactRow
  <2> QED BY <2>1, <2>2, <2>3, <2>4, <2>5, QuietWorker
<1> QED BY <1>1, <1>2, <1>3, <1>4, <1>5, QuietParse DEF WorkerStep

\* The deletion itself.

\* The deletion of one document does not touch that of another.
LEMMA ToldKept ==
    ASSUME Told, NEW d \in Doc, NEW r, deletion' = [deletion EXCEPT ![d] = r],
           r = [step |-> r.step, jobs |-> r.jobs, runs |-> r.runs, artifacts |-> r.artifacts]
    PROVE  Told' /\ deletion'[d] = r /\ \A e \in Doc : e # d => deletion'[e] = deletion[e]
BY DEF Told

\* A deletion starts and reads every artifact there is.
LEMMA QuietBegin ==
    ASSUME AllInv, Deleting = {}, worker.job = NoJob, NEW d \in Doc, BeginDelete(d)
    PROVE  QInv'
<1>0. JobsKnown /\ HInv /\ QInv
  BY DEF AllInv, IInv
<1> DEFINE r == [step |-> "read", jobs |-> JobsOf("parse", d), runs |-> RunsOf(d),
                 artifacts |-> {j \in JobsOf("parse", d) : jobs[j].rows}]
<1>1. /\ UNCHANGED <<doc, file, jobs, artifacts, vectors, worker>>
      /\ deletion' = [deletion EXCEPT ![d] = r]
  BY DEF BeginDelete
<1>2. r.step = "read" /\ r.artifacts = {j \in JobsOf("parse", d) : jobs[j].rows}
      /\ r = [step |-> r.step, jobs |-> r.jobs, runs |-> r.runs, artifacts |-> r.artifacts]
  OBVIOUS
<1> HIDE DEF r
<1>3. Told' /\ deletion'[d] = r /\ \A e \in Doc : e # d => deletion'[e] = deletion[e]
  BY <1>0, <1>1, <1>2, ToldKept DEF QInv
<1>4. DeletionSees'
  <2>1. \A e \in Doc : deletion[e].step \notin {"read", "cleared", "emptied"}
    BY DEF Deleting
  <2>2. \A j \in artifacts : jobs[j].doc = d => j \in r.artifacts
    BY <1>0, <1>2 DEF QInv, ArtifactsHaveRows, ArtifactRow, JobsOf, EndedStatus
  <2> QED BY <1>1, <1>2, <1>3, <2>1, <2>2 DEF DeletionSees
<1>5. HandsOff'
  <2>1. worker.at \in Resting
    BY <1>0, InHand DEF JobsKnown, NoJob
  <2> QED BY <1>1, <2>1 DEF HandsOff
<1>6. WorkerHasRow' /\ ArtifactsHaveRows' /\ NoneLeft'
  BY <1>0, <1>1 DEF QInv, WorkerHasRow, ArtifactsHaveRows, NoneLeft, Exists
<1> QED BY <1>3, <1>4, <1>5, <1>6 DEF QInv

\* A deletion goes on, ends or fails.
LEMMA QuietDelete ==
    ASSUME AllInv, NEW d \in Doc, DeleteStep(d) \/ DeleteAborts(d)
    PROVE  QInv'
<1>0. JobsKnown /\ HInv /\ QInv /\ Told
  BY DEF AllInv, IInv, QInv
<1>1. UNCHANGED worker /\ d \in Deleting
  BY DEF DeleteStep, DeleteVectors, DeleteObjects, DeleteRows, DeleteAborts, Deleting
<1>2. worker.at \in Resting /\ HandsOff' /\ WorkerHasRow'
  BY <1>0, <1>1 DEF QInv, HandsOff, WorkerHasRow
<1>3. vectors = [e \in Doc |-> vectors[e]]
  BY DEF AllInv, IInv, ClearedForUpsert
<1>4. ASSUME NEW step \in {"over", "failed"}
      PROVE  LET r == [Nobody EXCEPT !.step = step]
             IN  r.step = step
                 /\ r = [step |-> r.step, jobs |-> r.jobs, runs |-> r.runs, artifacts |-> r.artifacts]
  BY DEF Nobody
<1>5. ASSUME NEW step
      PROVE  LET r == [deletion[d] EXCEPT !.step = step]
             IN  /\ r.step = step /\ r.artifacts = deletion[d].artifacts
                 /\ r = [step |-> r.step, jobs |-> r.jobs, runs |-> r.runs, artifacts |-> r.artifacts]
  <2>1. deletion[d] = [step |-> deletion[d].step, jobs |-> deletion[d].jobs,
                       runs |-> deletion[d].runs, artifacts |-> deletion[d].artifacts]
    BY <1>0 DEF Told
  <2> QED BY <2>1
<1>6. CASE DeleteVectors(d)
  <2> DEFINE r == [deletion[d] EXCEPT !.step = "cleared"]
  <2>1. /\ UNCHANGED <<doc, file, jobs, artifacts>> /\ vectors' = [vectors EXCEPT ![d] = {}]
        /\ deletion' = [deletion EXCEPT ![d] = r] /\ deletion[d].step = "read"
    BY <1>6 DEF DeleteVectors
  <2>2. r.step = "cleared" /\ r.artifacts = deletion[d].artifacts
        /\ r = [step |-> r.step, jobs |-> r.jobs, runs |-> r.runs, artifacts |-> r.artifacts]
    BY <1>5
  <2> HIDE DEF r
  <2>3. Told' /\ deletion'[d] = r /\ \A e \in Doc : e # d => deletion'[e] = deletion[e]
    BY <1>0, <2>1, <2>2, ToldKept
  <2>4. vectors'[d] = {} /\ \A e \in Doc : e # d => vectors'[e] = vectors[e]
    BY <1>3, <2>1
  <2>5. DeletionSees'
    BY <1>0, <2>1, <2>2, <2>3, <2>4 DEF QInv, DeletionSees
  <2>6. ArtifactsHaveRows' /\ NoneLeft'
    BY <1>0, <2>1, <2>4 DEF QInv, ArtifactsHaveRows, NoneLeft
  <2> QED BY <1>2, <2>3, <2>5, <2>6 DEF QInv
<1>7. CASE DeleteObjects(d)
  <2> DEFINE r == [deletion[d] EXCEPT !.step = "emptied"]
  <2>1. /\ UNCHANGED <<doc, jobs, vectors>> /\ file' = file \ {d}
        /\ artifacts' = artifacts \ deletion[d].artifacts
        /\ deletion' = [deletion EXCEPT ![d] = r] /\ deletion[d].step = "cleared"
    BY <1>7 DEF DeleteObjects
  <2>2. r.step = "emptied" /\ r.artifacts = deletion[d].artifacts
        /\ r = [step |-> r.step, jobs |-> r.jobs, runs |-> r.runs, artifacts |-> r.artifacts]
    BY <1>5
  <2> HIDE DEF r
  <2>3. Told' /\ deletion'[d] = r /\ \A e \in Doc : e # d => deletion'[e] = deletion[e]
    BY <1>0, <2>1, <2>2, ToldKept
  <2>4. \A j \in artifacts' : jobs[j].doc # d
    BY <1>0, <2>1 DEF QInv, DeletionSees
  <2>5. DeletionSees'
    BY <1>0, <2>1, <2>2, <2>3, <2>4 DEF QInv, DeletionSees
  <2>6. ArtifactsHaveRows' /\ NoneLeft'
    BY <1>0, <2>1 DEF QInv, ArtifactsHaveRows, NoneLeft
  <2> QED BY <1>2, <2>3, <2>5, <2>6 DEF QInv
<1>8. CASE DeleteRows(d) \/ DeleteAborts(d)
  <2>1. UNCHANGED <<file, artifacts, vectors>>
    BY <1>8 DEF DeleteRows, DeleteAborts
  <2>2. PICK step \in {"over", "failed"} :
          /\ deletion' = [deletion EXCEPT ![d] = [Nobody EXCEPT !.step = step]]
          /\ step = "failed" => UNCHANGED <<doc, jobs>>
          /\ step = "over" => DeleteRows(d) /\ deletion[d].step = "emptied"
    BY <1>8 DEF DeleteRows, DeleteAborts
  <2> DEFINE r == [Nobody EXCEPT !.step = step]
  <2>3. r.step = step
        /\ r = [step |-> r.step, jobs |-> r.jobs, runs |-> r.runs, artifacts |-> r.artifacts]
    BY <1>4
  <2>4. deletion' = [deletion EXCEPT ![d] = r]
    BY <2>2
  <2> HIDE DEF r
  <2>5. Told' /\ deletion'[d] = r /\ \A e \in Doc : e # d => deletion'[e] = deletion[e]
    BY <1>0, <2>3, <2>4, ToldKept
  <2>6. ArtifactsHaveRows' /\ NoneLeft' /\ \A j \in artifacts : jobs'[j].doc = jobs[j].doc
    <3>1. CASE UNCHANGED <<doc, jobs>>
      BY <1>0, <2>1, <3>1 DEF QInv, ArtifactsHaveRows, NoneLeft
    <3>2. CASE step = "over" /\ ~UNCHANGED <<doc, jobs>>
      <4>1. /\ DOMAIN jobs' = DOMAIN jobs /\ doc' = [doc EXCEPT ![d] = "deleted"]
            /\ \A j \in DOMAIN jobs :
                 IF jobs[j].doc = d THEN jobs'[j].status = "deleted" ELSE jobs'[j] = jobs[j]
        BY <1>0, <2>2, <3>2, RowsDeleted
      <4>2. \A j \in artifacts : j \in DOMAIN jobs /\ jobs[j].doc # d
        BY <1>0, <2>2, <3>2 DEF QInv, ArtifactsHaveRows, ArtifactRow, DeletionSees
      <4>3. \A j \in artifacts : jobs'[j] = jobs[j]
        BY <4>1, <4>2
      <4>4. d \notin file /\ vectors[d] = {}
        BY <1>0, <2>2, <3>2 DEF QInv, DeletionSees
      <4>5. doc = [e \in Doc |-> doc[e]]
        BY <1>0 DEF HInv, RowsOfStored
      <4>6. NoneLeft'
        BY <1>0, <2>1, <4>1, <4>4, <4>5 DEF QInv, NoneLeft
      <4>7. ArtifactsHaveRows'
        BY <1>0, <2>1, <4>1, <4>3 DEF QInv, ArtifactsHaveRows, ArtifactRow
      <4> QED BY <4>3, <4>6, <4>7
    <3> QED BY <2>2, <3>1, <3>2
  <2>7. DeletionSees'
    BY <1>0, <2>1, <2>3, <2>5, <2>6 DEF QInv, DeletionSees
  <2> QED BY <1>2, <2>5, <2>6, <2>7 DEF QInv
<1> QED BY <1>6, <1>7, <1>8 DEF DeleteStep

\* Every step keeps what QuietSpec needs.
LEMMA QuietKeeps == ASSUME AllInv, [QuietNext]_vars PROVE AllInv'
<1>1. [Next]_vars
  BY QuietIsNext
<1>2. IInv' /\ HInv'
  BY <1>1, NextOK, HInvNext DEF AllInv
<1> SUFFICES QInv'
  BY <1>2 DEF AllInv
<1>3. ASSUME NEW d \in Doc, DeleteStep(d) \/ DeleteAborts(d) PROVE QInv'
  BY <1>3, QuietDelete
<1>4. CASE Deleting = {}
  <2>1. ASSUME worker.job = NoJob, NEW d \in Doc, BeginDelete(d) PROVE QInv'
    BY <1>4, <2>1, QuietBegin
  <2>2. ASSUME NEW d \in Doc,
               Upload(d) \/ ChunkRequest(d) \/ \E kind \in Kind : QueueJob(kind, d)
        PROVE  QInv'
    BY <1>4, <2>2, QuietRequests
  <2>3. ASSUME NEW j, PushJob(j) PROVE QInv'
    <3>1. UNCHANGED <<doc, file, jobs, artifacts, vectors, deletion, worker>>
      BY <2>3 DEF PushJob
    <3>2. WorkerHasRow'
      BY <3>1 DEF AllInv, QInv, WorkerHasRow, Exists
    <3> QED BY <1>4, <3>1, <3>2, QuietWorker
  <2>4. CASE WorkerStep
    BY <1>4, <2>4, QuietWork
  <2>5. QuietNext => QInv'
    BY <1>3, <1>4, <2>1, <2>2, <2>3, <2>4 DEF QuietNext
  <2>6. CASE UNCHANGED vars
    <3>1. UNCHANGED <<doc, file, jobs, artifacts, vectors, deletion, worker>>
      BY <2>6 DEF vars
    <3>2. WorkerHasRow'
      BY <3>1 DEF AllInv, QInv, WorkerHasRow, Exists
    <3> QED BY <1>4, <3>1, <3>2, QuietWorker
  <2> QED BY <2>5, <2>6
<1>5. CASE Deleting # {}
  <2>1. CASE UNCHANGED vars
    <3>1. UNCHANGED <<doc, file, jobs, artifacts, vectors, deletion, worker>>
      BY <2>1 DEF vars
    <3> QED
      BY <3>1 DEF AllInv, QInv, HandsOff, WorkerHasRow, ArtifactsHaveRows, DeletionSees,
                  NoneLeft, Told, Deleting, Exists
  <2>2. CASE QuietNext
    BY <1>3, <1>5, <2>2 DEF QuietNext
  <2> QED BY <2>1, <2>2
<1> QED BY <1>4, <1>5

(***************************************************************************)
(* A document that was deleted while nobody worked on it has no original,  *)
(* no artifact and no vector left, also when earlier attempts to delete it *)
(* were broken off between two stores, and when its jobs are still queued. *)
(***************************************************************************)
THEOREM QuietDeletionLeavesNothing == QuietSpec => []DeletedLeavesNothing
<1>1. Init => AllInv
  <2>1. Init => QInv
    <3> SUFFICES ASSUME Init PROVE QInv
      OBVIOUS
    <3>1. /\ deletion = [d \in Doc |-> Nobody] /\ artifacts = {} /\ worker = Idle
          /\ doc = [d \in Doc |-> "absent"]
      BY DEF Init
    <3>2. \A d \in Doc : deletion[d].step = "none"
      BY <3>1 DEF Nobody
    <3>3. Told
      BY <3>1 DEF Told, Nobody
    <3> QED
      BY <3>1, <3>2, <3>3 DEF QInv, HandsOff, WorkerHasRow, ArtifactsHaveRows, DeletionSees,
           NoneLeft, Deleting, Idle, Resting
  <2> QED BY <2>1, InitOK, HInvInit DEF AllInv
<1>2. AllInv /\ [QuietNext]_vars => AllInv'
  BY QuietKeeps
<1>3. AllInv => DeletedLeavesNothing
  BY DEF AllInv, HInv, QInv, NoneLeft, RowsOfStored, Stored, ArtifactsHaveRows, ArtifactRow,
         EndedStatus, DeletedLeavesNothing
<1> QED BY <1>1, <1>2, <1>3, PTL DEF QuietSpec

-------------------------------------------------------------------------------
(***************************************************************************)
(* Chunking, which makes the chunks of a run: for any document, chunk_size *)
(* and splitter, what becomes of its texts and headings.                   *)
(***************************************************************************)

\* What pieces and rows are made of.
Titles == {e.title : e \in Elements}
PieceRow == [ids : Seq(Nat), path : Seq(Titles), length : Nat]
Joined == [ids : Seq(Nat), length : Nat, counted : Nat]

\* The element the section starts with, and the one pending starts with:
\* all before it are in pieces, or are headings.
Upcoming == at - Len(section)
Frontier == Upcoming - Len(pending.ids)

CutTyped ==
    /\ elements \in Seq(Elements)
    /\ pc \in {"collect", "pack", "head", "tree", "done", "failed"}
    /\ at \in 1..(Len(elements) + 1)
    /\ path \in Seq(Titles)
    /\ section \in Seq(Nat)
    /\ pending \in Joined
    /\ pieces \in Seq(PieceRow)

\* Pending, section and the loop follow each other: pending is what ends
\* before the section, the section what ends before the loop.
InStep ==
    /\ Frontier >= 1
    /\ \A m \in 1..Len(section) : section[m] = Upcoming - 1 + m
    /\ \A m \in 1..Len(pending.ids) : pending.ids[m] = Frontier - 1 + m
    /\ \A i \in Frontier..(at - 1) : ~Opens(i)
    /\ pc = "collect" => pending.ids = <<>>
    /\ pc \notin {"collect", "pack"} => section = <<>> /\ pending.ids = <<>>
    /\ pc \in {"pack", "head"} /\ at \in Indices => Opens(at)
    /\ pc \notin {"collect", "pack", "head"} => at = Len(elements) + 1

\* What is pending fits, the blank lines included.
PendingFits ==
    /\ pending.ids = <<>> => pending = Nothing
    /\ pending.length <= pending.counted
    /\ pending.length <= chunk_size

\* A path that is right for the headings before element i.
PathFor(i, p) ==
    IF Headings(i) = {}
    THEN p = <<>>
    ELSE /\ p # <<>>
         /\ p[Len(p)] = elements[Latest(Headings(i))].title
         /\ NoneSkipped(i) =>
               p = Enclosing(i) /\ Len(p) = Level(Latest(Headings(i)))

\* A piece that holds elements of one section, in order, and stands right.
PieceRight(piece) ==
    /\ piece.length <= chunk_size
    /\ \A m, n \in 1..Len(piece.ids) : m < n => piece.ids[m] < piece.ids[n]
    /\ \A i \in IdsOf(piece) :
          /\ PathFor(i, piece.path)
          /\ \A j \in IdsOf(piece) : Headings(i) = Headings(j)

\* ps are the pieces of the elements before b.
PiecesBefore(ps, b) ==
    /\ \A k \in 1..Len(ps) : PieceRight(ps[k]) /\ IdsOf(ps[k]) \subseteq 1..(b - 1)
    /\ \A k, l \in 1..Len(ps) : k < l =>
           \A i \in IdsOf(ps[k]), j \in IdsOf(ps[l]) :
               i < j \/ (i = j /\ elements[i].length > chunk_size)
    /\ \A i \in 1..(b - 1) : Opens(i) \/ \E k \in 1..Len(ps) : i \in IdsOf(ps[k])

CutInv ==
    /\ CutTyped /\ InStep /\ PendingFits
    /\ PathFor(at, path)
    /\ PiecesBefore(pieces, Frontier)

\* The pieces placed in the tree so far, and those of them below a path.
Placed == 1..Len(children)
PlacedUnder(p) == {k \in Placed : p \in Paths(pieces[k].path)}

\* A parent that has the content and the elements of a set of pieces, in order.
ParentRow == [position : Nat, content : Seq(Nat), ids : SUBSET Nat]

Holds(row, S) ==
    /\ row \in ParentRow
    /\ row.ids = UNION {IdsOf(pieces[k]) : k \in S}
    /\ {row.content[n] : n \in 1..Len(row.content)} = S
    /\ \A m, n \in 1..Len(row.content) : m < n => row.content[m] < row.content[n]

\* Two heading paths of one spelling.
PathsClash ==
    \E k, l \in 1..Len(pieces) :
        \E p \in Paths(pieces[k].path), q \in Paths(pieces[l].path) :
            p # q /\ Key(p) = Key(q)

TreeInv ==
    /\ children \in Seq([parent : Seq(Titles), previous : Nat])
    /\ Len(children) <= Len(pieces)
    /\ pc \notin {"tree", "done"} => children = <<>>
    /\ pc = "done" => Len(children) = Len(pieces)
    /\ DOMAIN parents = UNION {Paths(pieces[k].path) : k \in Placed}
    /\ \A p \in DOMAIN parents : Holds(parents[p], PlacedUnder(p))
    /\ \A k \in Placed :
          children[k].parent = pieces[k].path /\ children[k].previous = k - 1
    /\ pc = "failed" => PathsClash

\* An element of the document is one of Elements.
LEMMA ElementTyped ==
    ASSUME CutTyped, NEW i \in Indices
    PROVE  /\ elements[i] \in Elements /\ elements[i].title \in Titles
           /\ elements[i].length \in Nat \ {0} /\ elements[i].level \in 0..6
           /\ elements[i].heading \in BOOLEAN
BY ElementsAssumption DEF CutTyped, Indices, Titles

\* The document does not change while it is cut.
LEMMA SameDocument ==
    ASSUME UNCHANGED input
    PROVE  /\ PiecesBefore(pieces, Frontier)' <=> PiecesBefore(pieces', Frontier')
           /\ PathFor(at, path)' <=> PathFor(at', path')
           /\ \A i : Opens(i)' <=> Opens(i)
           /\ Indices' = Indices
<1> elements' = elements /\ strategy' = strategy
  BY DEF input
<1> QED
BY DEF PiecesBefore, PieceRight, PathFor, Headings, Opens, NoneSkipped, Enclosing, Level,
       Latest, IdsOf, Indices

\* Elements between which no heading stands are under the same headings.
LEMMA SameHeadings ==
    ASSUME NEW i \in Nat, NEW j \in Nat, i <= j, \A h \in i..(j - 1) : ~Opens(h)
    PROVE  Headings(i) = Headings(j)
BY DEF Headings

\* What a path should be only depends on the headings before.
LEMMA SamePath ==
    ASSUME NEW i, NEW j, Headings(i) = Headings(j), NEW p, PathFor(j, p)
    PROVE  PathFor(i, p)
BY DEF PathFor, NoneSkipped, Enclosing

\* New pieces of the next elements keep texts in order: one piece, or parts
\* of one long text.
LEMMA PiecesAdded ==
    ASSUME NEW ps \in Seq(PieceRow), NEW b \in Nat \ {0}, PiecesBefore(ps, b),
           NEW qs \in Seq(PieceRow), NEW c \in Nat, b <= c, qs # <<>>,
           \A k \in 1..Len(qs) : PieceRight(qs[k]) /\ IdsOf(qs[k]) = b..(c - 1),
           Len(qs) = 1 \/ (c = b + 1 /\ elements[b].length > chunk_size)
    PROVE  PiecesBefore(ps \o qs, c)
<1> DEFINE all == ps \o qs
<1>1. /\ Len(ps) \in Nat /\ Len(qs) \in Nat \ {0} /\ Len(all) = Len(ps) + Len(qs)
      /\ \A k \in 1..Len(ps) : all[k] = ps[k]
      /\ \A k \in (Len(ps) + 1)..Len(all) :
            k - Len(ps) \in 1..Len(qs) /\ all[k] = qs[k - Len(ps)]
  OBVIOUS
<1> HIDE DEF all
<1>2. \A k \in 1..Len(ps) : PieceRight(all[k]) /\ IdsOf(all[k]) \subseteq 1..(b - 1)
  BY <1>1 DEF PiecesBefore
<1>3. \A k \in (Len(ps) + 1)..Len(all) : PieceRight(all[k]) /\ IdsOf(all[k]) = b..(c - 1)
  BY <1>1
<1>4. ASSUME NEW k \in 1..Len(all)
      PROVE  PieceRight(all[k]) /\ IdsOf(all[k]) \subseteq 1..(c - 1)
  <2>1. CASE k \in 1..Len(ps)
    BY <1>2, <2>1
  <2>2. CASE k \in (Len(ps) + 1)..Len(all)
    BY <1>3, <2>2
  <2> QED BY <1>1, <2>1, <2>2
<1>5. ASSUME NEW k \in 1..Len(all), NEW l \in 1..Len(all), k < l,
             NEW i \in IdsOf(all[k]), NEW j \in IdsOf(all[l])
      PROVE  i < j \/ (i = j /\ elements[i].length > chunk_size)
  <2>1. CASE l <= Len(ps)
    <3>1. k \in 1..Len(ps) /\ l \in 1..Len(ps) /\ all[k] = ps[k] /\ all[l] = ps[l]
      BY <1>1, <1>5, <2>1
    <3> QED BY <1>5, <3>1 DEF PiecesBefore
  <2>2. CASE k <= Len(ps) /\ ~(l <= Len(ps))
    <3>1. i \in 1..(b - 1) /\ j \in b..(c - 1)
      BY <1>1, <1>2, <1>3, <1>5, <2>2
    <3> QED BY <3>1
  <2>3. CASE ~(k <= Len(ps))
    <3>1. i \in b..(c - 1) /\ j \in b..(c - 1) /\ Len(qs) # 1
      BY <1>1, <1>3, <1>5, <2>3
    <3> QED BY <3>1
  <2> QED BY <1>1, <1>5, <2>1, <2>2, <2>3
<1>6. ASSUME NEW i \in 1..(c - 1)
      PROVE  Opens(i) \/ \E k \in 1..Len(all) : i \in IdsOf(all[k])
  <2>1. CASE i < b
    <3>1. Opens(i) \/ \E k \in 1..Len(ps) : i \in IdsOf(ps[k])
      BY <2>1 DEF PiecesBefore
    <3> QED BY <1>1, <3>1
  <2>2. CASE ~(i < b)
    <3>1. Len(ps) + 1 \in 1..Len(all) /\ i \in IdsOf(all[Len(ps) + 1])
      BY <1>1, <1>3, <2>2
    <3> QED BY <3>1
  <2> QED BY <2>1, <2>2
<1> QED BY <1>4, <1>5, <1>6 DEF PiecesBefore, all

\* A piece of elements between which, and up to the loop, no heading stands.
LEMMA RightPiece ==
    ASSUME CutInv, NEW piece \in PieceRow, piece.path = path, piece.length <= chunk_size,
           \A i \in IdsOf(piece) : i \in Frontier..(at - 1),
           \A m, n \in 1..Len(piece.ids) : m < n => piece.ids[m] < piece.ids[n]
    PROVE  PieceRight(piece)
<1>1. at \in Nat /\ Frontier >= 1 /\ Frontier \in Int
  BY DEF CutInv, CutTyped, InStep, Frontier, Upcoming, Joined
<1>2. ASSUME NEW i \in IdsOf(piece) PROVE Headings(i) = Headings(at)
  <2>1. i \in Nat /\ i <= at /\ \A h \in i..(at - 1) : ~Opens(h)
    BY <1>1 DEF CutInv, InStep
  <2> QED BY <1>1, <2>1, SameHeadings
<1>3. ASSUME NEW i \in IdsOf(piece) PROVE PathFor(i, piece.path)
  BY <1>2, SamePath DEF CutInv
<1> QED BY <1>2, <1>3 DEF PieceRight

\* The piece that is pending.
LEMMA PendingPiece ==
    ASSUME CutInv, pending.ids # <<>>
    PROVE  /\ Piece(pending) \in PieceRow /\ PieceRight(Piece(pending))
           /\ IdsOf(Piece(pending)) = Frontier..(Upcoming - 1)
<1> DEFINE piece == Piece(pending)
<1>1. /\ pending \in Joined /\ path \in Seq(Titles) /\ Len(pending.ids) \in Nat
      /\ Upcoming \in Int /\ Upcoming <= at /\ Frontier \in Int /\ at \in Int
      /\ Frontier = Upcoming - Len(pending.ids)
      /\ \A m \in 1..Len(pending.ids) : pending.ids[m] = Frontier - 1 + m
  BY DEF CutInv, CutTyped, InStep, Frontier, Upcoming, Joined
<1>2. piece \in PieceRow /\ piece.ids = pending.ids /\ piece.path = path
      /\ piece.length <= chunk_size
  BY <1>1 DEF Piece, PieceRow, Joined, CutInv, PendingFits
<1>3. IdsOf(piece) = Frontier..(Upcoming - 1)
  <2>1. ASSUME NEW i \in Frontier..(Upcoming - 1) PROVE i \in IdsOf(piece)
    <3>1. PICK m \in 1..Len(pending.ids) : m = i - Frontier + 1
      <4> DEFINE n == Len(pending.ids)
      <4>1. n \in Nat /\ Upcoming \in Int /\ Frontier \in Int /\ Frontier = Upcoming - n
        BY <1>1
      <4> HIDE DEF n
      <4>2. i - Frontier + 1 \in 1..n
        BY <4>1
      <4> QED BY <4>2 DEF n
    <3>2. pending.ids[m] = Frontier - 1 + m
      BY <1>1
    <3> QED BY <1>1, <1>2, <3>1, <3>2 DEF IdsOf
  <2>2. ASSUME NEW m \in 1..Len(pending.ids)
        PROVE  pending.ids[m] \in Frontier..(Upcoming - 1)
    <3>1. pending.ids[m] = Frontier - 1 + m
      BY <1>1
    <3> QED BY <1>1, <3>1
  <2> QED BY <1>2, <2>1, <2>2 DEF IdsOf
<1>4. ASSUME NEW m \in 1..Len(pending.ids), NEW n \in 1..Len(pending.ids), m < n
      PROVE  pending.ids[m] < pending.ids[n]
  <2>1. pending.ids[m] = Frontier - 1 + m /\ pending.ids[n] = Frontier - 1 + n
    BY <1>1
  <2>2. Frontier \in Int /\ m \in Int /\ n \in Int
    BY <1>1
  <2> QED BY <1>4, <2>1, <2>2
<1>5. \A i \in IdsOf(piece) : i \in Frontier..(at - 1)
  <2>1. Upcoming <= at
    BY <1>1
  <2> QED BY <1>1, <1>3, <2>1
<1> HIDE DEF piece
<1>6. PieceRight(piece)
  BY <1>2, <1>4, <1>5, RightPiece
<1> QED BY <1>2, <1>3, <1>6 DEF piece

\* After a flush, the pieces hold all before the section.
LEMMA FlushedPieces ==
    ASSUME CutInv,
           NEW ps, ps = IF pending.ids = <<>> THEN pieces ELSE Append(pieces, Piece(pending))
    PROVE  ps \in Seq(PieceRow) /\ PiecesBefore(ps, Upcoming)
<1>1. /\ pieces \in Seq(PieceRow) /\ PiecesBefore(pieces, Frontier)
      /\ Len(pending.ids) \in Nat /\ Upcoming \in Int /\ Frontier = Upcoming - Len(pending.ids)
      /\ Frontier >= 1
  BY DEF CutInv, CutTyped, InStep, Frontier, Upcoming, Joined
<1>2. CASE pending.ids = <<>>
  BY <1>1, <1>2
<1>3. CASE pending.ids # <<>>
  <2> DEFINE q == Piece(pending)
  <2>1. q \in PieceRow /\ PieceRight(q) /\ IdsOf(q) = Frontier..(Upcoming - 1)
    BY <1>3, PendingPiece
  <2> HIDE DEF q
  <2> DEFINE qs == <<q>>
  <2>2. /\ qs \in Seq(PieceRow) /\ qs # <<>> /\ Len(qs) = 1
        /\ \A k \in 1..Len(qs) : PieceRight(qs[k]) /\ IdsOf(qs[k]) = Frontier..(Upcoming - 1)
    BY <2>1
  <2>3. ps = pieces \o qs
    BY <1>1, <1>3, <2>1 DEF q
  <2> HIDE DEF qs
  <2>4. Frontier \in Nat \ {0} /\ Upcoming \in Nat /\ Frontier <= Upcoming
    BY <1>1
  <2>5. PiecesBefore(pieces \o qs, Upcoming)
    BY <1>1, <2>2, <2>4, PiecesAdded
  <2>6. pieces \o qs \in Seq(PieceRow)
    BY <1>1, <2>2, ConcatProperties
  <2> QED BY <2>3, <2>5, <2>6
<1> QED BY <1>2, <1>3

\* The latest of a set of headings that has h, all others before.
LEMMA LatestIs ==
    ASSUME NEW h \in Int, NEW S, h \in S, \A g \in S : g \in Int /\ g <= h
    PROVE  Latest(S) = h
<1>1. \A x : (x \in S /\ \A g \in S : g <= x) <=> x = h
  <2> SUFFICES ASSUME NEW x \in S, \A g \in S : g <= x PROVE x = h
    OBVIOUS
  <2>1. x \in Int /\ x <= h /\ h <= x
    OBVIOUS
  <2> QED BY <2>1
<1>2. (CHOOSE x \in S : \A g \in S : g <= x) = (CHOOSE x : x = h)
  BY <1>1
<1> QED BY <1>2 DEF Latest

\* The headings a path keeps when the next heading is taken.
KeptPath(p, e) ==
    IF e.level = 0 THEN <<>>
    ELSE IF e.level <= Len(p) THEN SubSeq(p, 1, e.level - 1) ELSE p

\* The path of a heading is what it keeps, and its own title.
LEMMA PathGrows ==
    ASSUME NEW p \in Seq(Titles), NEW e, e.level \in Nat, e.title \in Titles
    PROVE  /\ KeptPath(p, e) \in Seq(Titles)
           /\ PathUnder(p, e) = Append(KeptPath(p, e), e.title)
<1>1. CASE e.level = 0
  BY <1>1 DEF KeptPath, PathUnder
<1>2. CASE e.level # 0 /\ e.level <= Len(p)
  <2>1. SubSeq(p, 1, e.level - 1) \in Seq(Titles)
    BY <1>2
  <2> QED BY <1>2, <2>1 DEF KeptPath, PathUnder
<1>3. CASE e.level # 0 /\ ~(e.level <= Len(p))
  BY <1>3 DEF KeptPath, PathUnder
<1> QED BY <1>1, <1>2, <1>3

\* Taking a heading makes the path right for the elements after it: its title
\* comes last, and where no level is skipped the headings above keep theirs.
LEMMA HeadingTaken ==
    ASSUME CutTyped, NEW h \in Indices, Opens(h), NEW p \in Seq(Titles), PathFor(h, p)
    PROVE  PathFor(h + 1, PathUnder(p, elements[h]))
<1> DEFINE e == elements[h]
           q == KeptPath(p, e)
           lv == Level(h)
           Of(i, l) == {g \in Headings(i) : Level(g) = l}
<1>1. /\ e.title \in Titles /\ e.level \in Nat /\ h \in Nat
      /\ lv = IF e.level = 0 THEN 1 ELSE e.level
      /\ lv \in Nat \ {0}
  BY ElementTyped DEF Level, Indices
<1>2. /\ Headings(h + 1) = Headings(h) \cup {h}
      /\ \A g \in Headings(h) : g \in Int /\ g < h
  <2>1. \A g : g \in 1..((h + 1) - 1) <=> g \in 1..(h - 1) \/ g = h
    BY DEF Indices
  <2>2. \A g \in 1..(h - 1) : g \in Int /\ g < h
    BY DEF Indices
  <2> QED BY <2>1, <2>2, Zenon DEF Headings
<1>3. Latest(Headings(h + 1)) = h
  <2>1. h \in Int /\ h \in Headings(h + 1) /\ \A g \in Headings(h + 1) : g \in Int /\ g <= h
    BY <1>1, <1>2
  <2> QED BY <2>1, LatestIs
<1>4. Latest(Of(h + 1, lv)) = h
  <2>1. h \in Of(h + 1, lv) /\ \A g \in Of(h + 1, lv) : g \in Int /\ g <= h
    BY <1>1, <1>2
  <2> QED BY <1>1, <2>1, LatestIs
<1>5. \A l : l # lv => Of(h + 1, l) = Of(h, l)
  BY <1>2
<1>6. q \in Seq(Titles) /\ PathUnder(p, e) = Append(q, e.title)
  BY <1>1, PathGrows
<1> DEFINE r == Append(q, e.title)
<1>7. r # <<>> /\ r[Len(r)] = e.title /\ Len(r) = Len(q) + 1 /\ Len(q) \in Nat
      /\ r \in Seq(Titles) /\ \A l \in 1..Len(q) : r[l] = q[l]
  BY <1>1, <1>6
<1>8. ASSUME NoneSkipped(h + 1) PROVE r = Enclosing(h + 1) /\ Len(r) = lv
  <2>1. /\ NoneSkipped(h)
        /\ lv = 1 \/ (Headings(h) # {} /\ lv <= Level(Latest(Headings(h))) + 1)
    BY <1>2, <1>8 DEF NoneSkipped
  <2>2. Len(q) = lv - 1 /\ \A l \in 1..(lv - 1) : q[l] = elements[Latest(Of(h, l))].title
    <3>1. CASE lv = 1
      <4>1. q = <<>>
        BY <1>1, <3>1 DEF KeptPath
      <4> QED BY <3>1, <4>1
    <3>2. CASE lv # 1
      <4> DEFINE top == Level(Latest(Headings(h)))
      <4>1. p = Enclosing(h) /\ Len(p) = top /\ lv <= top + 1 /\ top \in Nat
        BY <2>1, <3>2 DEF PathFor
      <4>2. \A l \in 1..top : p[l] = elements[Latest(Of(h, l))].title
        BY <4>1 DEF Enclosing
      <4> HIDE DEF top, Of
      <4>3. e.level = lv
        BY <1>1, <3>2
      <4>4. CASE lv <= top
        <5>1. q = SubSeq(p, 1, lv - 1)
          BY <1>1, <3>2, <4>1, <4>3, <4>4 DEF KeptPath
        <5>2. Len(q) = lv - 1 /\ \A l \in 1..(lv - 1) : q[l] = p[l]
          BY <1>1, <4>1, <4>4, <5>1
        <5> QED BY <1>1, <4>1, <4>2, <4>4, <5>2
      <4>5. CASE ~(lv <= top)
        <5>1. q = p /\ top = lv - 1
          BY <1>1, <3>2, <4>1, <4>3, <4>5 DEF KeptPath
        <5> QED BY <4>1, <4>2, <5>1
      <4> QED BY <4>4, <4>5
    <3> QED BY <3>1, <3>2
  <2>3. Len(r) = lv
    BY <1>1, <1>7, <2>2
  <2>4. ASSUME NEW l \in 1..lv PROVE r[l] = elements[Latest(Of(h + 1, l))].title
    <3>1. CASE l = lv
      BY <1>4, <1>7, <2>3, <3>1
    <3>2. CASE l # lv
      <4>1. l \in 1..(lv - 1) /\ l \in 1..Len(q)
        BY <1>1, <2>2, <3>2
      <4> QED BY <1>5, <1>7, <2>2, <3>2, <4>1
    <3> QED BY <3>1, <3>2
  <2>5. Enclosing(h + 1) = [l \in 1..lv |-> elements[Latest(Of(h + 1, l))].title]
    BY <1>3 DEF Enclosing
  <2> HIDE DEF r, Of, lv
  <2>6. r = [l \in 1..lv |-> r[l]]
    BY <1>7, <2>3
  <2> QED BY <2>3, <2>4, <2>5, <2>6
<1>9. Headings(h + 1) # {}
  BY <1>2
<1> QED BY <1>3, <1>6, <1>7, <1>8, <1>9 DEF PathFor

\* Where cutting is, in numbers.
LEMMA Positions ==
    ASSUME CutTyped
    PROVE  /\ at \in Nat \ {0} /\ Len(elements) \in Nat /\ at <= Len(elements) + 1
           /\ Len(section) \in Nat /\ Len(pending.ids) \in Nat
           /\ Upcoming \in Int /\ Upcoming = at - Len(section)
           /\ Frontier \in Int /\ Frontier = Upcoming - Len(pending.ids)
BY DEF CutTyped, Upcoming, Frontier, Joined

\* At first nothing is cut: the loop stands before the document.
LEMMA CutStarts == ChunkingInit => CutInv
<1> SUFFICES ASSUME ChunkingInit PROVE CutInv
  OBVIOUS
<1>1. /\ elements \in Seq(Elements) /\ Len(elements) \in Nat
      /\ path = <<>> /\ pieces = <<>> /\ pending = Nothing
      /\ strategy \in {"markdown", "recursive"}
  BY BoundAssumption DEF ChunkingInit, infer_chunk_strategy
<1>2. /\ \A i : strategy = "recursive" => ~Opens(i)
  BY DEF Opens
<1>3. CASE strategy = "markdown"
  <2>1. pc = "collect" /\ at = 1 /\ section = <<>>
    BY <1>3 DEF ChunkingInit
  <2>2. Upcoming = 1 /\ Frontier = 1
    BY <1>1, <2>1 DEF Upcoming, Frontier, Nothing
  <2>3. CutTyped /\ InStep
    BY <1>1, <2>1, <2>2 DEF CutTyped, InStep, Joined, Nothing, PieceRow
  <2>4. Headings(at) = {}
    BY <2>1 DEF Headings
  <2>5. PathFor(at, path) /\ PiecesBefore(pieces, Frontier)
    BY <1>1, <2>2, <2>4 DEF PathFor, PiecesBefore
  <2> QED BY <1>1, <2>3, <2>5, SizeAssumption DEF CutInv, PendingFits, Nothing
<1>4. CASE strategy = "recursive"
  <2>1. /\ pc = "pack" /\ at = Len(elements) + 1 /\ section = [i \in 1..Len(elements) |-> i]
    BY <1>4 DEF ChunkingInit
  <2>2. section \in Seq(Nat) /\ Len(section) = Len(elements)
    BY <1>1, <2>1
  <2>3. Upcoming = 1 /\ Frontier = 1
    BY <1>1, <2>1, <2>2 DEF Upcoming, Frontier, Nothing
  <2>4. CutTyped
    BY <1>1, <2>1, <2>2 DEF CutTyped, Joined, Nothing, PieceRow
  <2>5. InStep
    BY <1>1, <1>2, <1>4, <2>1, <2>2, <2>3 DEF InStep, Nothing, Indices
  <2>6. Headings(at) = {}
    BY <1>2, <1>4 DEF Headings
  <2>7. PathFor(at, path) /\ PiecesBefore(pieces, Frontier)
    BY <1>1, <2>3, <2>6 DEF PathFor, PiecesBefore
  <2> QED BY <1>1, <2>4, <2>5, <2>7, SizeAssumption DEF CutInv, PendingFits, Nothing
<1> QED BY <1>1, <1>3, <1>4

\* An element that is no heading joins the section.
LEMMA CollectCut == ASSUME CutInv, Collect PROVE CutInv'
<1>1. /\ pc = "collect" /\ at \in Indices /\ ~Opens(at)
      /\ section' = Append(section, at) /\ at' = at + 1 /\ UNCHANGED input
      /\ pc' = pc /\ path' = path /\ pending' = pending /\ pieces' = pieces
      /\ elements' = elements
  BY DEF Collect, input
<1>2. CutTyped /\ InStep /\ PendingFits /\ PathFor(at, path) /\ PiecesBefore(pieces, Frontier)
  BY DEF CutInv
<1>3. CutTyped'
  BY <1>1, <1>2 DEF CutTyped, Indices
<1>4. Upcoming' = Upcoming /\ Frontier' = Frontier
  <2>1. Len(section') = Len(section) + 1
    BY <1>1, <1>2 DEF CutTyped
  <2>2. Upcoming' = at' - Len(section') /\ Frontier' = Upcoming' - Len(pending'.ids)
    BY DEF Upcoming, Frontier
  <2> QED BY <1>1, <1>2, <2>1, <2>2, Positions
<1>5. InStep'
  <2>1. Frontier' >= 1 /\ pending'.ids = <<>>
    BY <1>1, <1>2, <1>4 DEF InStep
  <2>2. \A m \in 1..Len(section') : section'[m] = Upcoming' - 1 + m
    <3> SUFFICES ASSUME NEW m \in 1..Len(section') PROVE section'[m] = Upcoming' - 1 + m
      OBVIOUS
    <3>1. Len(section') = Len(section) + 1 /\ Len(section) \in Nat
      BY <1>1, <1>2 DEF CutTyped
    <3>2. CASE m = Len(section) + 1
      <4>1. section'[m] = at
        BY <1>1, <1>2, <3>1, <3>2 DEF CutTyped
      <4>2. at \in Int /\ Upcoming = at - Len(section)
        BY <1>2, Positions
      <4> QED BY <1>4, <3>1, <3>2, <4>1, <4>2
    <3>3. CASE m # Len(section) + 1
      <4>1. m \in 1..Len(section) /\ section'[m] = section[m]
        BY <1>1, <1>2, <3>1, <3>3 DEF CutTyped
      <4> QED BY <1>2, <1>4, <4>1 DEF InStep
    <3> QED BY <3>2, <3>3
  <2>3. \A i \in Frontier'..(at' - 1) : ~Opens(i)'
    <3>1. \A i \in Frontier..((at + 1) - 1) : i = at \/ i \in Frontier..(at - 1)
      BY <1>2, Positions
    <3> QED BY <1>1, <1>2, <1>4, <3>1, SameDocument DEF InStep
  <2>4. (pc \in {"pack", "head"} /\ at \in Indices => Opens(at))'
    BY <1>1
  <2> QED BY <1>1, <2>1, <2>2, <2>3, <2>4 DEF InStep
<1>6. PathFor(at', path')
  <2>1. Headings(at) = Headings(at + 1)
    <3>1. \A h \in at..((at + 1) - 1) : h = at
      BY <1>2, Positions
    <3> QED BY <1>1, <1>2, <3>1, Positions, SameHeadings
  <2> QED BY <1>1, <1>2, <2>1, SamePath
<1>7. PiecesBefore(pieces', Frontier')
  BY <1>1, <1>2, <1>4
<1>8. PendingFits'
  BY <1>1, <1>2 DEF PendingFits, Nothing
<1> QED BY <1>1, <1>3, <1>5, <1>6, <1>7, <1>8, SameDocument DEF CutInv

\* Steps after which what is pending, the section and the pieces are as before.
LEMMA FlushCut == ASSUME CutInv, Flush PROVE CutInv'
<1>1. /\ pc = "collect" /\ pc' = "pack" /\ (at \in Indices => Opens(at))
      /\ UNCHANGED <<input, elements, at, path, section, pending, pieces>>
  BY DEF Flush, input, cut
<1>2. CutTyped /\ InStep /\ PendingFits /\ PathFor(at, path) /\ PiecesBefore(pieces, Frontier)
  BY DEF CutInv
<1>3. Upcoming' = Upcoming /\ Frontier' = Frontier
  BY <1>1 DEF Upcoming, Frontier
<1>4. CutTyped' /\ PendingFits'
  BY <1>1, <1>2 DEF CutTyped, PendingFits, Nothing
<1>5. InStep'
  BY <1>1, <1>2, <1>3, SameDocument DEF InStep
<1> QED BY <1>1, <1>2, <1>3, <1>4, <1>5, SameDocument DEF CutInv

\* The section of the heading is in the pieces; the path becomes the heading's.
LEMMA HeadingCut == ASSUME CutInv, TakeHeading PROVE CutInv'
<1>1. /\ pc = "head" /\ pc' = "collect" /\ at \in Indices /\ at' = at + 1
      /\ path' = PathUnder(path, elements[at])
      /\ UNCHANGED <<input, elements, section, pending, pieces>>
  BY DEF TakeHeading, input
<1>2. CutTyped /\ InStep /\ PendingFits /\ PathFor(at, path) /\ PiecesBefore(pieces, Frontier)
  BY DEF CutInv
<1>3. section = <<>> /\ pending.ids = <<>> /\ Opens(at)
  BY <1>1, <1>2 DEF InStep
<1>4. Upcoming = at /\ Frontier = at /\ Upcoming' = at + 1 /\ Frontier' = at + 1 /\ at \in Nat \ {0}
  BY <1>1, <1>2, <1>3, Positions DEF Upcoming, Frontier
<1>5. path \in Seq(Titles) /\ elements[at].level \in Nat /\ elements[at].title \in Titles
  <2>1. elements[at].level \in 0..6 /\ elements[at].title \in Titles
    BY <1>1, <1>2, ElementTyped
  <2> QED BY <1>2, <2>1 DEF CutTyped
<1>6. path' \in Seq(Titles)
  <2> DEFINE e == elements[at]
  <2>1. KeptPath(path, e) \in Seq(Titles) /\ PathUnder(path, e) = Append(KeptPath(path, e), e.title)
    BY <1>5, PathGrows
  <2> QED BY <1>1, <1>5, <2>1
<1>7. CutTyped' /\ PendingFits'
  BY <1>1, <1>2, <1>6 DEF CutTyped, PendingFits, Nothing, Indices
<1>8. InStep'
  BY <1>1, <1>3, <1>4 DEF InStep
<1>9. PathFor(at', path')
  BY <1>1, <1>2, <1>3, <1>5, HeadingTaken
<1>10. PiecesBefore(pieces', Frontier')
  <2>1. \A i \in 1..((at + 1) - 1) : i \in 1..(at - 1) \/ i = at
    BY <1>4
  <2>2. 1..(at - 1) \subseteq 1..((at + 1) - 1)
    BY <1>4
  <2>3. PiecesBefore(pieces, at)
    BY <1>2, <1>4
  <2> HIDE DEF PieceRight
  <2>4. PiecesBefore(pieces, at + 1)
    BY <1>3, <2>1, <2>2, <2>3 DEF PiecesBefore
  <2> QED BY <1>1, <1>4, <2>4
<1> QED BY <1>1, <1>7, <1>8, <1>9, <1>10, SameDocument DEF CutInv

\* Behind the document every text is in a piece.
LEMMA AllCutCut == ASSUME CutInv, AllCut PROVE CutInv'
<1>1. /\ pc = "head" /\ pc' = "tree" /\ at \notin Indices
      /\ UNCHANGED <<input, elements, at, path, section, pending, pieces>>
  BY DEF AllCut, input, cut
<1>2. CutTyped /\ InStep /\ PendingFits /\ PathFor(at, path) /\ PiecesBefore(pieces, Frontier)
  BY DEF CutInv
<1>3. Upcoming' = Upcoming /\ Frontier' = Frontier
  BY <1>1 DEF Upcoming, Frontier
<1>4. CutTyped' /\ PendingFits'
  BY <1>1, <1>2 DEF CutTyped, PendingFits, Nothing
<1>5. at = Len(elements) + 1
  BY <1>1, <1>2, Positions DEF Indices
<1>6. InStep'
  BY <1>1, <1>2, <1>3, <1>5, SameDocument DEF InStep
<1> QED BY <1>1, <1>2, <1>3, <1>4, <1>6, SameDocument DEF CutInv

\* What is stored does not touch the pieces.
LEMMA StoringCut == ASSUME CutInv, Place \/ Clash \/ Store PROVE CutInv'
<1>1. /\ pc = "tree" /\ pc' \in {"tree", "failed", "done"}
      /\ UNCHANGED <<input, elements, at, path, section, pending, pieces>>
  BY DEF Place, Clash, Store, input, cut
<1>2. CutTyped /\ InStep /\ PendingFits /\ PathFor(at, path) /\ PiecesBefore(pieces, Frontier)
  BY DEF CutInv
<1>3. Upcoming' = Upcoming /\ Frontier' = Frontier
  BY <1>1 DEF Upcoming, Frontier
<1>4. CutTyped' /\ PendingFits'
  BY <1>1, <1>2 DEF CutTyped, PendingFits, Nothing
<1>5. InStep'
  BY <1>1, <1>2, <1>3, SameDocument DEF InStep
<1> QED BY <1>1, <1>2, <1>3, <1>4, <1>5, SameDocument DEF CutInv

\* The end of _pack_elements flushes what is pending.
LEMMA PackLastCut == ASSUME CutInv, PackLast PROVE CutInv'
<1>1. /\ pc = "pack" /\ pc' = "head" /\ section = <<>>
      /\ pieces' = IF pending.ids = <<>> THEN pieces ELSE Append(pieces, Piece(pending))
      /\ pending' = Nothing
      /\ UNCHANGED <<input, elements, at, path, section>>
  BY DEF PackLast, input
<1>2. CutTyped /\ InStep /\ PathFor(at, path)
  BY DEF CutInv
<1>3. pieces' \in Seq(PieceRow) /\ PiecesBefore(pieces', Upcoming)
  BY <1>1, FlushedPieces
<1>4. Upcoming = at /\ Upcoming' = at /\ Frontier' = at /\ at \in Nat \ {0}
  BY <1>1, <1>2, Positions DEF Upcoming, Frontier, Nothing
<1>5. CutTyped' /\ PendingFits'
  BY <1>1, <1>2, <1>3, SizeAssumption DEF CutTyped, PendingFits, Nothing, Joined
<1>6. InStep'
  <2>1. at \in Indices => Opens(at)
    BY <1>1, <1>2 DEF InStep
  <2>2. Frontier' >= 1 /\ section' = <<>> /\ pending'.ids = <<>>
    BY <1>1, <1>4 DEF Nothing
  <2>3. \A i \in Frontier'..(at' - 1) : FALSE
    BY <1>1, <1>4
  <2> QED BY <1>1, <2>1, <2>2, <2>3, SameDocument DEF InStep
<1> QED BY <1>1, <1>2, <1>3, <1>4, <1>5, <1>6, SameDocument DEF CutInv

\* The text _pack_elements takes next.
LEMMA NextText ==
    ASSUME CutInv, Pack
    PROVE  /\ Head(section) = Upcoming /\ Upcoming \in Indices /\ ~Opens(Upcoming)
           /\ Upcoming \in Nat \ {0} /\ Frontier \in Nat \ {0} /\ Frontier <= Upcoming
           /\ Upcoming <= at - 1 /\ Upcoming' = Upcoming + 1
           /\ section' \in Seq(Nat)
           /\ \A m \in 1..Len(section') : section'[m] = Upcoming' - 1 + m
<1>1. /\ section # <<>> /\ section' = Tail(section) /\ at' = at
  BY DEF Pack
<1>2. CutTyped /\ InStep
  BY DEF CutInv
<1>3. section \in Seq(Nat) /\ Len(section) \in Nat \ {0}
  BY <1>1, <1>2 DEF CutTyped
<1>4. /\ section' \in Seq(Nat) /\ Len(section') = Len(section) - 1 /\ Head(section) = section[1]
      /\ \A m \in 1..Len(section') : section'[m] = section[m + 1]
  BY <1>1, <1>3
<1>5. /\ Upcoming \in Int /\ Frontier \in Int /\ at \in Nat /\ at <= Len(elements) + 1
      /\ Len(elements) \in Nat /\ Upcoming = at - Len(section)
      /\ Frontier = Upcoming - Len(pending.ids) /\ Len(pending.ids) \in Nat
  BY <1>2, Positions
<1>6. Frontier >= 1 /\ \A m \in 1..Len(section) : section[m] = Upcoming - 1 + m
  BY <1>2 DEF InStep
<1>7. /\ Frontier \in Nat \ {0} /\ Upcoming \in Nat \ {0} /\ Frontier <= Upcoming
      /\ Upcoming <= at - 1 /\ Upcoming \in 1..Len(elements)
  <2> DEFINE n == Len(pending.ids)
             l == Len(section)
             z == Len(elements)
  <2>1. /\ n \in Nat /\ l \in Nat \ {0} /\ z \in Nat /\ Upcoming = at - l
        /\ Frontier = Upcoming - n /\ at <= z + 1 /\ at \in Nat
        /\ Upcoming \in Int /\ Frontier \in Int /\ Frontier >= 1
    BY <1>3, <1>5, <1>6
  <2> HIDE DEF n, l, z
  <2>2. /\ Frontier \in Nat \ {0} /\ Upcoming \in Nat \ {0} /\ Frontier <= Upcoming
        /\ Upcoming <= at - 1 /\ Upcoming \in 1..z
    BY <2>1
  <2> QED BY <2>2 DEF z
<1>8. ~Opens(Upcoming)
  <2>1. Upcoming \in Frontier..(at - 1)
    BY <1>5, <1>7
  <2> QED BY <1>2, <2>1 DEF InStep
<1>9. Head(section) = Upcoming
  <2>1. section[1] = Upcoming - 1 + 1
    BY <1>3, <1>6
  <2> QED BY <1>4, <1>5, <2>1
<1>10. Upcoming' = Upcoming + 1
  <2>1. Upcoming' = at - (Len(section) - 1)
    BY <1>1, <1>4 DEF Upcoming
  <2> QED BY <1>3, <1>5, <2>1
<1>11. ASSUME NEW m \in 1..Len(section') PROVE section'[m] = Upcoming' - 1 + m
  <2>1. m + 1 \in 1..Len(section)
    BY <1>3, <1>4
  <2>2. section'[m] = Upcoming - 1 + (m + 1)
    BY <1>4, <1>6, <2>1
  <2> QED BY <1>5, <1>10, <2>2
<1> QED BY <1>4, <1>7, <1>8, <1>9, <1>10, <1>11 DEF Indices

\* A part of a long text is a piece of its own.
LEMMA PartRight ==
    ASSUME CutInv, Pack
    PROVE  /\ Part(Upcoming) \in PieceRow /\ PieceRight(Part(Upcoming))
           /\ IdsOf(Part(Upcoming)) = Upcoming..((Upcoming + 1) - 1)
<1> DEFINE u == Upcoming
           part == Part(u)
<1>1. u \in Nat \ {0} /\ u \in Frontier..(at - 1)
  BY NextText, Positions DEF CutInv
<1>2. /\ part.ids = <<u>> /\ part.path = path /\ part.length = chunk_size
      /\ part \in PieceRow
  BY <1>1, SizeAssumption DEF Part, PieceRow, CutInv, CutTyped
<1> HIDE DEF part, u
<1>3. IdsOf(part) = {u}
  BY <1>2 DEF IdsOf
<1>4. PieceRight(part)
  <2>1. \A i \in IdsOf(part) : i \in Frontier..(at - 1)
    BY <1>1, <1>3
  <2>2. \A m, n \in 1..Len(part.ids) : m < n => part.ids[m] < part.ids[n]
    BY <1>2
  <2>3. part.length <= chunk_size
    BY <1>2, SizeAssumption
  <2> QED BY <1>2, <2>1, <2>2, <2>3, RightPiece
<1>5. u..((u + 1) - 1) = {u}
  BY <1>1
<1> QED BY <1>2, <1>3, <1>4, <1>5 DEF part, u

\* Whether what is pending overflows, and what a flush then leaves.
LEMMA Flushing ==
    ASSUME CutInv, Pack
    PROVE  /\ elements[Upcoming].length \in Nat \ {0}
           /\ pending.length \in Nat /\ pending.counted \in Nat /\ Gap \in {0, Separator}
           /\ elements[Upcoming].length > chunk_size =>
                 /\ Rest(Upcoming) = Nothing
                 /\ Flushed(Upcoming) \in Seq(PieceRow)
                 /\ PiecesBefore(Flushed(Upcoming), Upcoming)
<1> DEFINE u == Upcoming
           len == elements[u].length
<1>1. /\ CutTyped /\ PendingFits /\ u \in Indices
  BY NextText DEF CutInv
<1>2. len \in Nat \ {0}
  BY <1>1, ElementTyped
<1>3. /\ pending.length \in Nat /\ pending.counted \in Nat /\ Gap \in {0, Separator}
  BY <1>1 DEF CutTyped, Joined, Gap
<1>4. ASSUME len > chunk_size
      PROVE  /\ Rest(u) = Nothing
             /\ Flushed(u) \in Seq(PieceRow) /\ PiecesBefore(Flushed(u), u)
  <2>1. Overflows(u) <=> pending.ids # <<>>
    BY <1>2, <1>3, <1>4, SizeAssumption DEF Overflows, Separator
  <2>2. Flushed(u) = IF pending.ids = <<>> THEN pieces ELSE Append(pieces, Piece(pending))
    BY <2>1 DEF Flushed
  <2>3. Rest(u) = Nothing
    BY <1>1, <2>1 DEF Rest, PendingFits
  <2> QED BY <2>2, <2>3, FlushedPieces
<1> QED BY <1>2, <1>3, <1>4

\* A long text: what is pending is flushed, then come its parts.
LEMMA LongPacked ==
    ASSUME CutInv, Pack, elements[Upcoming].length > chunk_size
    PROVE  /\ pending' = Nothing /\ pieces' \in Seq(PieceRow)
           /\ PiecesBefore(pieces', Upcoming + 1)
<1> DEFINE u == Upcoming
           ps == Flushed(u)
<1>1. u \in Nat \ {0} /\ Head(section) = u
  BY NextText
<1>2. /\ Rest(u) = Nothing /\ ps \in Seq(PieceRow) /\ PiecesBefore(ps, u)
      /\ elements[u].length \in Nat
  BY Flushing
<1>3. Part(u) \in PieceRow /\ PieceRight(Part(u)) /\ IdsOf(Part(u)) = u..((u + 1) - 1)
  BY PartRight
<1>4. /\ pending' = Rest(u)
      /\ \E n \in 2..MaxParts : pieces' = ps \o [k \in 1..n |-> Part(u)]
  <2>1. ~(elements[Head(section)].length <= chunk_size)
    BY <1>1, <1>2, SizeAssumption
  <2> QED BY <1>1, <2>1, Zenon DEF Pack
<1>5. PICK n \in 2..MaxParts : pieces' = ps \o [k \in 1..n |-> Part(u)]
  BY <1>4
<1> DEFINE qs == [k \in 1..n |-> Part(u)]
<1>6. /\ qs \in Seq(PieceRow) /\ Len(qs) = n /\ n \in Nat \ {0} /\ qs # <<>>
      /\ \A k \in 1..Len(qs) : qs[k] = Part(u)
  BY <1>3, SizeAssumption
<1> HIDE DEF qs, ps, u
<1>7. \A k \in 1..Len(qs) : PieceRight(qs[k]) /\ IdsOf(qs[k]) = u..((u + 1) - 1)
  BY <1>3, <1>6
<1>8. u + 1 \in Nat /\ u <= u + 1
  BY <1>1
<1>9. elements[u].length > chunk_size
  BY DEF u
<1>10. PiecesBefore(ps \o qs, u + 1)
  BY <1>1, <1>2, <1>6, <1>7, <1>8, <1>9, PiecesAdded
<1>11. ps \o qs \in Seq(PieceRow)
  BY <1>2, <1>6, ConcatProperties
<1> QED BY <1>2, <1>4, <1>5, <1>10, <1>11 DEF qs, ps, u

\* A text that fits: alone after a flush, or behind what is pending.
LEMMA ShortPacked ==
    ASSUME CutInv, Pack, ~(elements[Upcoming].length > chunk_size)
    PROVE  /\ pieces' \in Seq(PieceRow) /\ pending' \in Joined /\ pending'.ids # <<>>
           /\ pending'.length <= pending'.counted /\ pending'.length <= chunk_size
           /\ \/ /\ pending'.ids = <<Upcoming>> /\ PiecesBefore(pieces', Upcoming)
              \/ /\ pending'.ids = Append(pending.ids, Upcoming)
                 /\ PiecesBefore(pieces', Frontier)
<1> DEFINE u == Upcoming
           len == elements[u].length
<1>1. /\ u \in Nat \ {0} /\ Head(section) = u
      /\ CutTyped /\ PendingFits /\ PiecesBefore(pieces, Frontier)
  BY NextText DEF CutInv
<1>2. /\ len \in Nat \ {0} /\ len <= chunk_size
      /\ pending.length \in Nat /\ pending.counted \in Nat /\ Gap \in {0, Separator}
      /\ pending.ids \in Seq(Nat) /\ pieces \in Seq(PieceRow)
  BY <1>1, Flushing, SizeAssumption DEF CutTyped, Joined
<1>3. pieces' = Flushed(u) /\ pending' = With(Rest(u), u)
  <2>1. LET i == Head(section)
        IN  elements[i].length > chunk_size \/ (pieces' = Flushed(i) /\ pending' = With(Rest(i), i))
    BY DEF Pack
  <2>2. Head(section) = u /\ ~(elements[u].length > chunk_size)
    BY <1>1, <1>2, SizeAssumption
  <2> QED BY <2>1, <2>2
<1>4. CASE Overflows(u)
  <2>1. pieces' = IF pending.ids = <<>> THEN pieces ELSE Append(pieces, Piece(pending))
    BY <1>3, <1>4 DEF Flushed, Overflows
  <2>2. pending' = [ids |-> <<u>>, length |-> len + 0, counted |-> 0 + Gap + len]
    BY <1>3, <1>4 DEF Rest, With, Nothing
  <2>3. /\ pending' \in Joined /\ pending'.ids = <<u>> /\ pending'.ids # <<>>
        /\ pending'.length <= pending'.counted /\ pending'.length <= chunk_size
    BY <1>1, <1>2, <2>2 DEF Joined, Separator
  <2> QED BY <2>1, <2>3, FlushedPieces
<1>5. CASE ~Overflows(u)
  <2>1. pieces' = pieces
    BY <1>3, <1>5 DEF Flushed
  <2>2. pending' = [ids |-> Append(pending.ids, u),
                    length |-> len + IF pending.ids = <<>> THEN 0 ELSE pending.length + Separator,
                    counted |-> pending.counted + Gap + len]
    BY <1>3, <1>5 DEF Rest, With
  <2>3. pending'.ids = Append(pending.ids, u) /\ pending'.ids # <<>> /\ pending'.ids \in Seq(Nat)
    <3> DEFINE ids == pending.ids
    <3>1. pending'.ids = Append(ids, u) /\ ids \in Seq(Nat) /\ u \in Nat
      BY <1>1, <1>2, <2>2
    <3> HIDE DEF ids, u
    <3>2. Append(ids, u) # <<>> /\ Append(ids, u) \in Seq(Nat)
      BY <3>1
    <3> QED BY <3>1, <3>2 DEF ids
  <2>4. CASE pending.ids = <<>>
    <3>1. pending.counted = 0 /\ Gap = 0
      BY <1>1, <2>4 DEF PendingFits, Nothing, Gap
    <3>2. pending'.length = len /\ pending'.counted = len
      BY <1>2, <2>2, <2>4, <3>1
    <3>3. pending' \in Joined
      BY <1>1, <1>2, <2>2, <2>4 DEF Joined, Separator
    <3> QED BY <1>1, <1>2, <2>1, <2>3, <3>2, <3>3
  <2>5. CASE pending.ids # <<>>
    <3>1. Gap = Separator /\ ~(pending.counted + Separator + len > chunk_size)
      BY <1>5, <2>5 DEF Overflows, Gap
    <3>2. /\ pending'.length = len + (pending.length + Separator)
          /\ pending'.counted = pending.counted + Separator + len
      BY <2>2, <2>5, <3>1
    <3>3. pending.length <= pending.counted
      BY <1>1 DEF PendingFits
    <3> DEFINE l == pending.length
               c == pending.counted
               n == len
    <3>4. /\ l \in Nat /\ c \in Nat /\ n \in Nat /\ l <= c /\ ~(c + 2 + n > chunk_size)
          /\ pending'.length = n + (l + 2) /\ pending'.counted = c + 2 + n
      BY <1>2, <3>1, <3>2, <3>3 DEF Separator
    <3> HIDE DEF l, c, n
    <3>5. /\ n + (l + 2) \in Nat /\ c + 2 + n \in Nat
          /\ n + (l + 2) <= c + 2 + n /\ n + (l + 2) <= chunk_size
      BY <3>4, SizeAssumption
    <3>6. pending' = [ids |-> pending'.ids, length |-> pending'.length, counted |-> pending'.counted]
      BY <2>2
    <3>7. pending' \in Joined
      BY <2>3, <3>4, <3>5, <3>6 DEF Joined
    <3> QED BY <1>1, <2>1, <2>3, <3>4, <3>5, <3>7, <1>2
  <2> QED BY <2>4, <2>5
<1> QED BY <1>4, <1>5

\* A text leaves the section for the pieces or for what is pending.
LEMMA PackCut == ASSUME CutInv, Pack PROVE CutInv'
<1> DEFINE u == Upcoming
           f == Frontier
<1>1. /\ pc = "pack" /\ UNCHANGED <<input, elements, pc, at, path>>
  BY DEF Pack, input
<1>2. CutTyped /\ InStep /\ PathFor(at, path)
  BY DEF CutInv
<1>3. /\ u \in Nat \ {0} /\ f \in Nat \ {0} /\ f <= u /\ u <= at - 1 /\ ~Opens(u)
      /\ Upcoming' = u + 1 /\ section' \in Seq(Nat)
      /\ \A m \in 1..Len(section') : section'[m] = (u + 1) - 1 + m
  BY NextText
<1>4. Frontier' = (u + 1) - Len(pending'.ids)
  BY <1>3 DEF Frontier
<1>5. at \in Nat /\ u \in Int /\ f = u - Len(pending.ids) /\ Len(pending.ids) \in Nat
      /\ pending.ids \in Seq(Nat)
  BY <1>2, Positions DEF CutTyped, Joined
<1>6. /\ pieces' \in Seq(PieceRow) /\ pending' \in Joined /\ PendingFits'
      /\ PiecesBefore(pieces', Frontier') /\ Frontier' \in {f, u, u + 1}
      /\ \A m \in 1..Len(pending'.ids) : pending'.ids[m] = Frontier' - 1 + m
  <2>1. CASE elements[u].length > chunk_size
    <3>1. /\ pending' = Nothing /\ pieces' \in Seq(PieceRow) /\ PiecesBefore(pieces', u + 1)
      BY <2>1, LongPacked
    <3>2. Frontier' = u + 1 /\ pending'.ids = <<>>
      BY <1>4, <1>5, <3>1 DEF Nothing
    <3> QED BY <3>1, <3>2, SizeAssumption DEF Nothing, Joined, PendingFits
  <2>2. CASE ~(elements[u].length > chunk_size)
    <3>1. /\ pieces' \in Seq(PieceRow) /\ pending' \in Joined /\ pending'.ids # <<>>
          /\ pending'.length <= pending'.counted /\ pending'.length <= chunk_size
      BY <2>2, ShortPacked
    <3>2. PendingFits'
      BY <3>1 DEF PendingFits
    <3>3. CASE pending'.ids = <<u>> /\ PiecesBefore(pieces', u)
      <4>1. Frontier' = u
        BY <1>3, <1>4, <3>3
      <4>2. \A m \in 1..Len(pending'.ids) : pending'.ids[m] = u - 1 + m
        BY <1>3, <3>3
      <4> QED BY <3>1, <3>2, <3>3, <4>1, <4>2
    <3>4. CASE pending'.ids = Append(pending.ids, u) /\ PiecesBefore(pieces', f)
      <4> DEFINE ids == pending.ids
      <4>1. /\ ids \in Seq(Nat) /\ Len(ids) \in Nat /\ f = u - Len(ids) /\ u \in Nat
            /\ pending'.ids = Append(ids, u) /\ \A m \in 1..Len(ids) : ids[m] = f - 1 + m
            /\ f \in Nat
        BY <1>2, <1>3, <1>5, <3>4 DEF InStep
      <4> HIDE DEF ids, u, f
      <4>2. Len(pending'.ids) = Len(ids) + 1
        BY <4>1
      <4>3. Frontier' = f
        BY <1>4, <4>1, <4>2
      <4>4. ASSUME NEW m \in 1..Len(pending'.ids) PROVE pending'.ids[m] = f - 1 + m
        <5>1. CASE m = Len(ids) + 1
          <6>1. pending'.ids[m] = u
            BY <4>1, <5>1
          <6> QED BY <4>1, <5>1, <6>1
        <5>2. CASE m # Len(ids) + 1
          <6>1. m \in 1..Len(ids) /\ pending'.ids[m] = ids[m]
            BY <4>1, <4>2, <5>2
          <6> QED BY <4>1, <6>1
        <5> QED BY <5>1, <5>2
      <4> QED BY <3>1, <3>2, <3>4, <4>3, <4>4
    <3> QED BY <2>2, <3>3, <3>4, ShortPacked
  <2> QED BY <2>1, <2>2
<1>7. CutTyped'
  BY <1>1, <1>2, <1>3, <1>6 DEF CutTyped
<1>8. InStep'
  <2>1. Frontier' >= 1 /\ \A i \in Frontier'..(at - 1) : i \in f..(at - 1)
    BY <1>3, <1>5, <1>6
  <2>2. \A i \in f..(at - 1) : ~Opens(i)
    BY <1>2 DEF InStep
  <2>3. at \in Indices => Opens(at)
    BY <1>1, <1>2 DEF InStep
  <2>4. \A i \in Frontier'..(at' - 1) : ~Opens(i)'
    BY <1>1, <2>1, <2>2, SameDocument
  <2>5. (at \in Indices)' => Opens(at)'
    BY <1>1, <2>3, SameDocument
  <2>6. \A m \in 1..Len(section') : section'[m] = Upcoming' - 1 + m
    BY <1>3
  <2> HIDE DEF u, f
  <2> QED BY <1>1, <1>6, <2>1, <2>4, <2>5, <2>6 DEF InStep
<1>9. PathFor(at', path')
  BY <1>1, <1>2
<1> QED BY <1>1, <1>6, <1>7, <1>8, <1>9, SameDocument DEF CutInv

\* CutInv is inductive.
LEMMA CutKept == CutInv /\ [ChunkingNext]_chunkingVars => CutInv'
<1> SUFFICES ASSUME CutInv, [ChunkingNext]_chunkingVars PROVE CutInv'
  OBVIOUS
<1>1. CASE UNCHANGED chunkingVars
  <2>1. UNCHANGED <<input, elements, strategy, pc, at, path, section, pending, pieces>>
    BY <1>1 DEF chunkingVars, input, cut
  <2>2. UNCHANGED <<Upcoming, Frontier>>
    BY <2>1 DEF Upcoming, Frontier
  <2>3. CutTyped' /\ PendingFits' /\ InStep'
    BY <2>1, <2>2, SameDocument DEF CutInv, CutTyped, PendingFits, Nothing, InStep
  <2> QED BY <2>1, <2>2, <2>3, SameDocument DEF CutInv
<1> QED
  BY <1>1, CollectCut, FlushCut, HeadingCut, AllCutCut, PackCut, PackLastCut, StoringCut
  DEF ChunkingNext

(***************************************************************************)
(* No piece is longer than chunk_size, for any document and any size: what *)
(* _pack_elements counts is never less than what it joins.                 *)
(***************************************************************************)
THEOREM PiecesNeverOverflow == ChunkingSpec => []PiecesFit
<1>1. CutInv => PiecesFit
  BY DEF CutInv, PiecesBefore, PieceRight, PiecesFit
<1> QED BY <1>1, CutStarts, CutKept, PTL DEF ChunkingSpec

(***************************************************************************)
(* The pieces hold every text of the document once and in order, the parts *)
(* of a long text side by side, whatever the sections and the sizes        *)
(* (_markdown_chunks and _pack_elements of chunking).                      *)
(***************************************************************************)
THEOREM PiecesHoldTheDocument == ChunkingSpec => []TextsInOrder
<1>1. CutInv => TextsInOrder
  <2> SUFFICES ASSUME CutInv PROVE TextsInOrder
    OBVIOUS
  <2>1. PiecesBefore(pieces, Frontier)
    BY DEF CutInv
  <2>2. ASSUME pc \in {"tree", "done"}, NEW i \in Indices
        PROVE  Opens(i) \/ \E k \in 1..Len(pieces) : i \in IdsOf(pieces[k])
    <3>1. section = <<>> /\ pending.ids = <<>> /\ at = Len(elements) + 1
      BY <2>2 DEF CutInv, InStep
    <3>2. Frontier = Len(elements) + 1 /\ Len(elements) \in Nat
      BY <3>1, Positions DEF CutInv, Upcoming, Frontier
    <3>3. i \in 1..(Frontier - 1)
      BY <2>2, <3>2 DEF Indices
    <3> QED BY <2>1, <3>3 DEF PiecesBefore
  <2>3. \A k \in 1..Len(pieces) : \A m, n \in 1..Len(pieces[k].ids) :
            m < n => pieces[k].ids[m] < pieces[k].ids[n]
    BY <2>1 DEF PiecesBefore, PieceRight
  <2>4. \A k, l \in 1..Len(pieces) : k < l =>
            \A i \in IdsOf(pieces[k]), j \in IdsOf(pieces[l]) :
                i < j \/ (i = j /\ elements[i].length > chunk_size)
    BY <2>1 DEF PiecesBefore
  <2> QED BY <2>2, <2>3, <2>4 DEF TextsInOrder
<1> QED BY <1>1, CutStarts, CutKept, PTL DEF ChunkingSpec

(***************************************************************************)
(* No piece crosses a heading, and each stands under the path the headings *)
(* before it give it, one title of each level where no level is skipped    *)
(* (the slice of heading_path in _markdown_chunks).                        *)
(***************************************************************************)
THEOREM PiecesStandUnderTheirHeadings == ChunkingSpec => []SectionsKept
<1>1. CutInv => SectionsKept
  <2> SUFFICES ASSUME CutInv, NEW k \in 1..Len(pieces), NEW i \in IdsOf(pieces[k])
               PROVE  LET p == pieces[k].path
                      IN  /\ \A j \in IdsOf(pieces[k]) : Headings(i) = Headings(j)
                          /\ IF Headings(i) = {}
                             THEN p = <<>>
                             ELSE /\ p[Len(p)] = elements[Latest(Headings(i))].title
                                  /\ NoneSkipped(i) => p = Enclosing(i)
    BY DEF SectionsKept
  <2>1. PieceRight(pieces[k])
    BY DEF CutInv, PiecesBefore
  <2>2. /\ PathFor(i, pieces[k].path)
        /\ \A j \in IdsOf(pieces[k]) : Headings(i) = Headings(j)
    BY <2>1 DEF PieceRight
  <2> QED BY <2>2 DEF PathFor
<1> QED BY <1>1, CutStarts, CutKept, PTL DEF ChunkingSpec

\* One more piece at the end of a parent.
LEMMA PieceHeld ==
    ASSUME CutTyped, NEW S, NEW k \in 1..Len(pieces), \A j \in S : j \in 1..(k - 1),
           NEW row, Holds(row, S),
           NEW new, new = [row EXCEPT !.content = Append(@, k), !.ids = @ \cup IdsOf(pieces[k])]
    PROVE  Holds(new, S \cup {k})
<1> DEFINE c == row.content
<1>1. /\ row \in ParentRow /\ c \in Seq(Nat) /\ Len(c) \in Nat /\ row.ids \subseteq Nat
      /\ row.ids = UNION {IdsOf(pieces[j]) : j \in S}
      /\ {c[n] : n \in 1..Len(c)} = S
      /\ \A m, n \in 1..Len(c) : m < n => c[m] < c[n]
      /\ k \in Nat
  <2>1. row \in ParentRow
    BY DEF Holds
  <2>2. c \in Seq(Nat) /\ Len(c) \in Nat /\ row.ids \subseteq Nat
    BY <2>1 DEF ParentRow
  <2> QED BY <2>1, <2>2 DEF Holds
<1>2. IdsOf(pieces[k]) \subseteq Nat
  <2>1. pieces[k] \in PieceRow
    BY DEF CutTyped
  <2>2. pieces[k].ids \in Seq(Nat)
    BY <2>1 DEF PieceRow
  <2> QED BY <2>2 DEF IdsOf
<1>3. new.content = Append(c, k) /\ new.ids = row.ids \cup IdsOf(pieces[k])
  BY <1>1 DEF ParentRow
<1>4. new = [position |-> row.position, content |-> new.content, ids |-> new.ids]
  BY <1>1 DEF ParentRow
<1>5. new \in ParentRow
  <2>1. row.position \in Nat
    BY <1>1 DEF ParentRow
  <2>2. new.content \in Seq(Nat)
    BY <1>1, <1>3
  <2>3. new.ids \in SUBSET Nat
    BY <1>1, <1>2, <1>3
  <2> QED BY <1>4, <2>1, <2>2, <2>3 DEF ParentRow
<1>6. new.ids = UNION {IdsOf(pieces[j]) : j \in S \cup {k}}
  BY <1>1, <1>3
<1> DEFINE d == Append(c, k)
<1>7. /\ Len(d) = Len(c) + 1 /\ d[Len(c) + 1] = k
      /\ \A n \in 1..Len(c) : d[n] = c[n] /\ d[n] \in S
  BY <1>1
<1> HIDE DEF c, d
<1>8. {d[n] : n \in 1..Len(d)} = S \cup {k}
  <2>1. \A n \in 1..Len(d) : n \in 1..Len(c) \/ n = Len(c) + 1
    BY <1>1, <1>7
  <2>2. \A n \in 1..Len(c) : n \in 1..Len(d)
    BY <1>1, <1>7
  <2>3. Len(c) + 1 \in 1..Len(d)
    BY <1>1, <1>7
  <2>4. \A s \in S : \E n \in 1..Len(d) : d[n] = s
    BY <1>1, <1>7, <2>2
  <2> QED BY <1>7, <2>1, <2>3, <2>4
<1>9. ASSUME NEW m \in 1..Len(d), NEW n \in 1..Len(d), m < n PROVE d[m] < d[n]
  <2>1. m \in 1..Len(c)
    BY <1>1, <1>7, <1>9
  <2>2. CASE n \in 1..Len(c)
    BY <1>1, <1>7, <1>9, <2>1, <2>2
  <2>3. CASE n = Len(c) + 1
    <3>1. d[m] \in 1..(k - 1) /\ d[n] = k
      BY <1>7, <2>1, <2>3
    <3> QED BY <1>1, <3>1
  <2> QED BY <1>1, <1>7, <2>2, <2>3
<1> QED BY <1>3, <1>5, <1>6, <1>8, <1>9 DEF Holds, d, c

\* The next piece gets a child, and a place in each parent of its path.
LEMMA PlaceTree == ASSUME CutInv, TreeInv, Place PROVE TreeInv'
<1> DEFINE k == Len(children) + 1
           own == Paths(pieces[k].path)
           Old(p) == IF p \in DOMAIN parents THEN parents[p]
                     ELSE [position |-> k, content |-> <<>>, ids |-> {}]
<1>1. /\ pc = "tree" /\ pc' = "tree" /\ pieces' = pieces /\ k <= Len(pieces)
      /\ parents' = [p \in DOMAIN parents \cup own |->
                        IF p \in own
                        THEN [Old(p) EXCEPT !.content = Append(@, k), !.ids = @ \cup IdsOf(pieces[k])]
                        ELSE Old(p)]
      /\ children' = Append(children, [parent |-> pieces[k].path, previous |-> k - 1])
  BY Zenon DEF Place, cut
<1> DEFINE Child == [parent : Seq(Titles), previous : Nat]
           child == [parent |-> pieces[k].path, previous |-> k - 1]
<1>2. /\ CutTyped /\ children \in Seq(Child) /\ Len(children) \in Nat
      /\ k \in 1..Len(pieces) /\ k - 1 = Len(children) /\ k = Len(children) + 1
      /\ pieces[k].path \in Seq(Titles)
  <2>1. CutTyped /\ pieces \in Seq(PieceRow) /\ children \in Seq(Child)
    BY DEF CutInv, CutTyped, TreeInv
  <2>2. Len(children) \in Nat /\ Len(pieces) \in Nat
    BY <2>1
  <2>3. k \in 1..Len(pieces) /\ k - 1 = Len(children)
    <3>1. k <= Len(pieces)
      BY <1>1
    <3> QED BY <2>2, <3>1
  <2>4. pieces[k] \in PieceRow
    BY <2>1, <2>3
  <2>5. pieces[k].path \in Seq(Titles)
    BY <2>4 DEF PieceRow
  <2> QED BY <2>1, <2>2, <2>3, <2>5
<1> HIDE DEF k
<1>3. /\ child \in Child /\ children' = Append(children, child)
      /\ children' \in Seq(Child) /\ Len(children') = k
      /\ children'[k] = child /\ \A j \in 1..Len(children) : children'[j] = children[j]
  <2>1. child \in Child /\ children' = Append(children, child)
    BY <1>1, <1>2
  <2> HIDE DEF child, Child
  <2> QED BY <1>2, <2>1
<1>4. Placed' = Placed \cup {k} /\ \A j \in Placed : j \in 1..(k - 1)
  BY <1>2, <1>3 DEF Placed
<1>5. DOMAIN parents' = UNION {Paths(pieces[j].path) : j \in Placed'}
  <2>1. DOMAIN parents' = DOMAIN parents \cup own
    BY <1>1
  <2>2. DOMAIN parents = UNION {Paths(pieces[j].path) : j \in Placed}
    BY DEF TreeInv
  <2> QED BY <1>4, <2>1, <2>2
<1>6. ASSUME NEW p \in DOMAIN parents \cup own PROVE Holds(Old(p), PlacedUnder(p))
  <2>1. CASE p \in DOMAIN parents
    BY <2>1 DEF TreeInv
  <2>2. CASE p \notin DOMAIN parents
    <3>1. PlacedUnder(p) = {}
      BY <2>2 DEF TreeInv, PlacedUnder
    <3>2. Old(p) = [position |-> k, content |-> <<>>, ids |-> {}]
      BY <2>2
    <3> HIDE DEF Old
    <3>3. /\ Old(p) \in ParentRow /\ Old(p).content = <<>> /\ Old(p).ids = {}
      BY <1>2, <3>2 DEF ParentRow
    <3> QED BY <3>1, <3>3 DEF Holds
  <2> QED BY <2>1, <2>2
<1>7. ASSUME NEW p \in DOMAIN parents' PROVE Holds(parents[p], PlacedUnder(p))'
  <2>1. p \in DOMAIN parents \cup own
    BY <1>1
  <2>2. \A j \in PlacedUnder(p) : j \in 1..(k - 1)
    BY <1>4 DEF PlacedUnder
  <2>3. CASE p \in own
    <3>1. PlacedUnder(p)' = PlacedUnder(p) \cup {k}
      BY <1>1, <1>4, <2>3 DEF PlacedUnder
    <3>2. parents'[p] = [Old(p) EXCEPT !.content = Append(@, k), !.ids = @ \cup IdsOf(pieces[k])]
      BY <1>1, <2>1, <2>3
    <3> HIDE DEF Old
    <3>3. Holds(parents'[p], PlacedUnder(p) \cup {k})
      BY <1>2, <1>6, <2>1, <2>2, <3>2, PieceHeld
    <3> QED BY <1>1, <3>1, <3>3 DEF Holds
  <2>4. CASE p \notin own
    <3>1. PlacedUnder(p)' = PlacedUnder(p)
      BY <1>1, <1>4, <2>4 DEF PlacedUnder
    <3>2. parents'[p] = Old(p)
      BY <1>1, <2>1, <2>4
    <3> HIDE DEF Old
    <3>3. Holds(parents'[p], PlacedUnder(p))
      BY <1>6, <2>1, <3>2
    <3>4. pieces' = pieces
      BY <1>1
    <3> QED BY <3>1, <3>3, <3>4 DEF Holds
  <2> QED BY <2>3, <2>4
<1>8. ASSUME NEW j \in Placed'
      PROVE  children'[j].parent = pieces[j].path /\ children'[j].previous = j - 1
  <2>1. CASE j \in Placed
    <3>1. children'[j] = children[j]
      BY <1>3, <2>1 DEF Placed
    <3> QED BY <2>1, <3>1 DEF TreeInv
  <2>2. CASE j = k
    <3>1. children'[j].parent = pieces[k].path /\ children'[j].previous = k - 1
      BY <1>3, <2>2
    <3> QED BY <2>2, <3>1
  <2> QED BY <1>4, <2>1, <2>2
<1>9. Len(children') <= Len(pieces')
  BY <1>1, <1>2, <1>3
<1>10. pc' = "tree" /\ pieces' = pieces /\ children' \in Seq(Child)
  BY <1>1, <1>3
<1> HIDE DEF Old, own, child
<1> QED BY <1>5, <1>7, <1>8, <1>9, <1>10 DEF TreeInv

\* A run whose paths clash is gone.
LEMMA ClashTree == ASSUME CutInv, TreeInv, Clash PROVE TreeInv'
<1> DEFINE k == Len(children) + 1
           own == Paths(pieces[k].path)
<1>1. /\ pc = "tree" /\ pc' = "failed" /\ pieces' = pieces /\ k <= Len(pieces) /\ Taken(own)
      /\ parents' = [p \in {} |-> <<>>] /\ children' = <<>>
  BY Zenon DEF Clash, cut
<1>2. /\ Len(children) \in Nat /\ Len(pieces) \in Nat /\ k \in 1..Len(pieces)
  BY <1>1 DEF CutInv, CutTyped, TreeInv
<1>3. PICK p \in own, q \in DOMAIN parents \cup own : p # q /\ Key(p) = Key(q)
  BY <1>1 DEF Taken
<1>4. PICK l \in 1..Len(pieces) : q \in Paths(pieces[l].path)
  <2>1. CASE q \in own
    BY <1>2, <2>1
  <2>2. CASE q \in DOMAIN parents
    <3>1. PICK l \in Placed : q \in Paths(pieces[l].path)
      BY <2>2 DEF TreeInv
    <3>2. l \in 1..Len(pieces)
      BY <1>2, <3>1 DEF Placed, TreeInv
    <3> QED BY <3>1, <3>2
  <2> QED BY <2>1, <2>2
<1> HIDE DEF k
<1>5. PathsClash
  BY <1>2, <1>3, <1>4, Zenon DEF PathsClash
<1>6. PathsClash'
  BY <1>1, <1>5 DEF PathsClash
<1>7. Placed' = {} /\ DOMAIN parents' = {}
  BY <1>1 DEF Placed
<1> QED BY <1>1, <1>2, <1>6, <1>7 DEF TreeInv

\* Before the tree there are no rows, and after it they stay.
LEMMA OthersTree ==
    ASSUME CutInv, TreeInv, UNCHANGED stored,
           \/ UNCHANGED <<pc, pieces>>
           \/ pc \notin {"tree", "done", "failed"} /\ pc' \notin {"done", "failed"}
           \/ Store
    PROVE  CutTyped' => TreeInv'
<1> SUFFICES ASSUME CutTyped' PROVE TreeInv'
  OBVIOUS
<1>1. UNCHANGED <<parents, children>>
  BY DEF stored
<1>2. Placed' = Placed
  BY <1>1 DEF Placed
<1>3. CASE UNCHANGED pieces /\ (UNCHANGED pc \/ Store)
  <2>1. \A p : PlacedUnder(p)' = PlacedUnder(p)
    BY <1>2, <1>3 DEF PlacedUnder
  <2>2. ASSUME NEW p \in DOMAIN parents PROVE Holds(parents[p], PlacedUnder(p))'
    <3>1. parents'[p] = parents[p] /\ pieces' = pieces /\ PlacedUnder(p)' = PlacedUnder(p)
      BY <1>1, <1>3, <2>1
    <3>2. Holds(parents[p], PlacedUnder(p))
      BY DEF TreeInv
    <3> QED BY <3>1, <3>2 DEF Holds
  <2>3. PathsClash' <=> PathsClash
    BY <1>3 DEF PathsClash
  <2> QED BY <1>1, <1>2, <1>3, <2>2, <2>3 DEF TreeInv, Store
<1>4. CASE pc \notin {"tree", "done", "failed"} /\ pc' \notin {"done", "failed"}
  <2>1. children = <<>> /\ DOMAIN parents = {} /\ Placed = {}
    BY <1>4 DEF TreeInv, Placed
  <2>2. Len(pieces') \in Nat
    BY DEF CutTyped
  <2> QED BY <1>1, <1>2, <1>4, <2>1, <2>2 DEF TreeInv
<1> QED BY <1>3, <1>4 DEF Store, cut

\* With CutInv, TreeInv is inductive.
LEMMA TreeKept == CutInv /\ TreeInv /\ [ChunkingNext]_chunkingVars => TreeInv'
<1> SUFFICES ASSUME CutInv, TreeInv, [ChunkingNext]_chunkingVars PROVE TreeInv'
  OBVIOUS
<1>1. CutTyped'
  BY CutKept DEF CutInv
<1>2. CASE UNCHANGED chunkingVars
  BY <1>1, <1>2, OthersTree DEF chunkingVars, cut
<1>3. CASE Collect \/ Flush \/ TakeHeading \/ AllCut \/ Pack \/ PackLast
  <2>1. /\ UNCHANGED stored
        /\ pc \notin {"tree", "done", "failed"} /\ pc' \notin {"done", "failed"}
    BY <1>3 DEF Collect, Flush, TakeHeading, AllCut, Pack, PackLast
  <2> QED BY <1>1, <2>1, OthersTree
<1>4. CASE Store
  <2>1. UNCHANGED stored
    BY <1>4 DEF Store
  <2> QED BY <1>1, <1>4, <2>1, OthersTree
<1> QED BY <1>2, <1>3, <1>4, PlaceTree, ClashTree DEF ChunkingNext

(***************************************************************************)
(* The stored tree has a parent for every heading path and no other, each  *)
(* holds all pieces below it once and in order, and a run fails only over  *)
(* two paths of one spelling (create_chunking_run of chunk_service).       *)
(***************************************************************************)
THEOREM TreeIsThePieces == ChunkingSpec => []TreeHoldsPieces
<1>1. ChunkingInit => TreeInv
  <2> SUFFICES ASSUME ChunkingInit PROVE TreeInv
    OBVIOUS
  <2>1. /\ pieces = <<>> /\ children = <<>> /\ DOMAIN parents = {}
        /\ pc \in {"collect", "pack"}
    BY DEF ChunkingInit
  <2>2. Placed = {}
    BY <2>1 DEF Placed
  <2> QED BY <2>1, <2>2 DEF TreeInv
<1>2. CutInv /\ TreeInv => TreeHoldsPieces
  <2> SUFFICES ASSUME CutInv, TreeInv PROVE TreeHoldsPieces
    OBVIOUS
  <2>1. ASSUME pc = "done"
        PROVE  /\ DOMAIN parents = UNION {Paths(pieces[k].path) : k \in 1..Len(pieces)}
               /\ Len(children) = Len(pieces)
               /\ Placed = 1..Len(pieces)
    BY <2>1 DEF TreeInv, Placed
  <2>2. ASSUME pc = "done", NEW p \in DOMAIN parents
        PROVE  /\ parents[p].ids = UNION {IdsOf(pieces[k]) : k \in Under(p)}
               /\ {parents[p].content[n] : n \in 1..Len(parents[p].content)} = Under(p)
               /\ \A m, n \in 1..Len(parents[p].content) :
                      m < n => parents[p].content[m] < parents[p].content[n]
    <3>1. Under(p) = PlacedUnder(p)
      BY <2>1, <2>2 DEF Under, PlacedUnder
    <3>2. Holds(parents[p], PlacedUnder(p))
      BY <2>2 DEF TreeInv
    <3> QED BY <3>1, <3>2 DEF Holds
  <2>3. ASSUME pc = "done", NEW k \in 1..Len(children)
        PROVE  /\ children[k].parent = pieces[k].path
               /\ children[k].parent # <<>> => children[k].parent \in DOMAIN parents
               /\ children[k].previous = k - 1
    <3>1. children[k].parent = pieces[k].path /\ children[k].previous = k - 1
      BY <2>3 DEF TreeInv, Placed
    <3>2. k \in 1..Len(pieces) /\ pieces[k].path \in Seq(Titles)
      <4>1. k \in 1..Len(pieces)
        BY <2>1, <2>3
      <4>2. pieces[k] \in PieceRow
        BY <4>1 DEF CutInv, CutTyped
      <4> QED BY <4>1, <4>2 DEF PieceRow
    <3>3. ASSUME pieces[k].path # <<>> PROVE pieces[k].path \in Paths(pieces[k].path)
      <4> DEFINE p == pieces[k].path
      <4>1. p \in Seq(Titles) /\ p # <<>>
        BY <3>2, <3>3
      <4> HIDE DEF p
      <4>2. Len(p) \in 1..Len(p) /\ SubSeq(p, 1, Len(p)) = p
        BY <4>1
      <4>3. p \in Paths(p)
        BY <4>2 DEF Paths
      <4> QED BY <4>3 DEF p
    <3> QED BY <2>1, <2>3, <3>1, <3>2, <3>3
  <2>4. pc = "failed" => PathsClash
    BY DEF TreeInv
  <2> QED BY <2>1, <2>2, <2>3, <2>4 DEF TreeHoldsPieces, PathsClash
<1>3. CutInv /\ TreeInv /\ [ChunkingNext]_chunkingVars => CutInv' /\ TreeInv'
  BY CutKept, TreeKept
<1> QED BY <1>1, <1>2, <1>3, CutStarts, PTL DEF ChunkingSpec
================================================================================
