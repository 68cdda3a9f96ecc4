--------------------------- MODULE DocumentPipeline ---------------------------
(***************************************************************************)
(* From an uploaded document to searchable evidence, and back: the API     *)
(* handlers that queue jobs, the worker that parses, chunks and indexes    *)
(* (worker, document_pipeline, services, chunk_service,                    *)
(* evidence_index_service) and the deletion of a document                  *)
(* (document_cleanup).                                                     *)
(*                                                                         *)
(* The actors are API requests, each in a thread of its own, and the one   *)
(* worker process of docker-compose.yml.  They share PostgreSQL (jobs,     *)
(* runs), the object store (originals, artifacts), Milvus (vectors) and    *)
(* two Redis lists.  Between two commits, or two calls to a store outside  *)
(* the database, every other actor may step; what happens between them     *)
(* only inside the database is one step.                                   *)
(*                                                                         *)
(* A document has one version (no code makes a second).  Jobs and runs are *)
(* numbered in the order of created_at.                                    *)
(***************************************************************************)
EXTENDS Naturals, Sequences, SequencesExt, FiniteSetsExt

CONSTANTS
    Doc,            \* documents that may be uploaded
    MaxRequests,    \* bound: requests for a job or a chunking
    MaxDeletions,   \* bound: DELETE requests
    MaxFaults       \* bound: crashes and calls that fail

ASSUME PipelineBoundsAssumption ==
    MaxRequests \in Nat /\ MaxDeletions \in Nat /\ MaxFaults \in Nat

VARIABLES
    doc,        \* documents and their version: "absent", "stored", "deleted"
    file,       \* documents whose original is in the object store
    jobs,       \* parse_jobs and evidence_index_jobs
    runs,       \* chunking_runs with their chunks
    artifacts,  \* parse jobs whose artifacts are in the object store
    vectors,    \* the runs whose chunks Milvus holds for a document
    queue,      \* talent:parse:queue and talent:index:queue
    requests,   \* jobs an API request has inserted and not pushed yet
    inline,     \* parse jobs the API runs itself (async_mode=false)
    deletion,   \* the DELETE request of a document
    worker,     \* where the worker is, with its job and run
    asked,      \* requests so far
    deletes,    \* DELETE requests so far
    faults      \* faults so far

bounds == <<asked, deletes, faults>>
vars == <<doc, file, jobs, runs, artifacts, vectors, queue, requests, inline,
          deletion, worker, bounds>>

Kind == {"parse", "index"}
EndedStatus == {"succeeded", "failed"}
JobStatus == {"pending", "running", "deleted"} \cup EndedStatus

\* A run without a child chunk has succeeded, but has nothing to index.
RunStatus == {"succeeded", "empty", "failed", "deleted"}

NoJob == 0
NoRun == 0
Nobody == [step |-> "none", jobs |-> {}, runs |-> {}, artifacts |-> {}]
Idle == [at |-> "idle", job |-> NoJob, run |-> NoRun]
Dead == [at |-> "dead", job |-> NoJob, run |-> NoRun]

Stored(d) == doc[d] = "stored"

JobsOf(kind, d) ==
    {j \in DOMAIN jobs :
        jobs[j].kind = kind /\ jobs[j].doc = d /\ jobs[j].status # "deleted"}

RunsOf(d) == {i \in DOMAIN runs : runs[i].doc = d /\ runs[i].status # "deleted"}

Exists(j) == j \in DOMAIN jobs /\ jobs[j].status # "deleted"

SetJob(j, status) == jobs' = [jobs EXCEPT ![j].status = status]

NewJob(kind, d, status) ==
    [kind |-> kind, doc |-> d, status |-> status, rows |-> FALSE]

------------------------------------------------------------------------------
\* What the stores hold for a document, and what its page shows of it.

\* The status of the newest of a set of jobs or runs.
LatestOf(table, S) == IF S = {} THEN "none" ELSE table[Max(S)].status

\* summarize_pipeline_status of the latest parse job, run and index job.
PipelineStatus(d) ==
    LET parse == LatestOf(jobs, JobsOf("parse", d))
        chunk == LatestOf(runs, RunsOf(d))
        index == LatestOf(jobs, JobsOf("index", d))
    IN  CASE "failed" \in {parse, chunk, index} -> "failed"
          [] index = "succeeded" -> "ready"
          [] index \in {"pending", "running"} -> "indexing"
          [] chunk \in {"succeeded", "empty"} -> "chunked"
          [] parse \in {"pending", "running"} -> "parsing"
          [] parse = "succeeded" -> "parsed"
          [] OTHER -> "uploaded"

\* The parse job _load_parse_input takes.
ParseInput(d) ==
    LET parsed == {j \in JobsOf("parse", d) : jobs[j].status = "succeeded"}
    IN  IF parsed = {} THEN NoJob ELSE Max(parsed)

\* The run run_index_job takes.
IndexInput(d) ==
    LET chunked == {i \in RunsOf(d) : runs[i].status = "succeeded"}
    IN  IF chunked = {} THEN NoRun ELSE Max(chunked)

------------------------------------------------------------------------------
Init ==
    /\ doc = [d \in Doc |-> "absent"]
    /\ file = {}
    /\ jobs = <<>>
    /\ runs = <<>>
    /\ artifacts = {}
    /\ vectors = [d \in Doc |-> {}]
    /\ queue = [k \in Kind |-> <<>>]
    /\ requests = {}
    /\ inline = {}
    /\ deletion = [d \in Doc |-> Nobody]
    /\ worker = Idle
    /\ asked = 0
    /\ deletes = 0
    /\ faults = 0

------------------------------------------------------------------------------
\* API requests.

Asks == asked < MaxRequests /\ asked' = asked + 1 /\ UNCHANGED <<deletes, faults>>

Fault == faults < MaxFaults /\ faults' = faults + 1 /\ UNCHANGED <<asked, deletes>>

\* The insert of a job the API has not pushed yet.
Inserts(kind, d) ==
    /\ jobs' = Append(jobs, NewJob(kind, d, "pending"))
    /\ requests' = requests \cup {Len(jobs')}

\* create_document: the document and its original are stored and committed, then
\* queue_parse_job inserts the parse job, unless the backend dies in between.
Upload(d) ==
    /\ doc[d] = "absent"
    /\ doc' = [doc EXCEPT ![d] = "stored"]
    /\ file' = file \cup {d}
    /\ \/ Asks /\ Inserts("parse", d)
       \/ Fault /\ UNCHANGED <<jobs, requests>>
    /\ UNCHANGED <<runs, artifacts, vectors, queue, inline, deletion, worker>>

(***************************************************************************)
(* queue_parse_job and queue_index_job up to their commit, for the parse   *)
(* endpoint, the index endpoint and the two retry endpoints: these insert  *)
(* a new job for the document of the job they are given, and               *)
(* retry_index_job accepts fewer requests.  When the version is deleted    *)
(* after the endpoint found it, the foreign key refuses the insert and     *)
(* nothing happened.                                                       *)
(***************************************************************************)
QueueJob(kind, d) ==
    /\ Stored(d)
    /\ Asks
    /\ Inserts(kind, d)
    /\ UNCHANGED <<doc, file, runs, artifacts, vectors, queue, inline, deletion, worker>>

\* rpush.
PushJob(j) ==
    /\ j \in requests
    /\ queue' = [queue EXCEPT ![jobs[j].kind] = Append(@, j)]
    /\ requests' = requests \ {j}
    /\ UNCHANGED <<doc, file, jobs, runs, artifacts, vectors, inline, deletion,
                   worker, bounds>>

(***************************************************************************)
(* create_chunking_run from the artifacts of parse job p, up to its commit *)
(* or its exception.  A run that fails is committed before the exception   *)
(* is raised again.  status "none": no run was inserted.                   *)
(***************************************************************************)
Chunks(d, status) ==
    LET p == ParseInput(d)
    IN  /\ status \in {"none", "succeeded", "empty", "failed"}
        /\ status # "none" => Stored(d) /\ p # NoJob /\ p \in artifacts
        /\ runs' = IF status = "none" THEN runs
                   ELSE Append(runs, [doc |-> d, parse |-> p, status |-> status])

\* create_document_chunks.
ChunkRequest(d) ==
    /\ Stored(d)
    /\ Asks
    /\ \E status \in RunStatus \cup {"none"} : Chunks(d, status)
    /\ UNCHANGED <<doc, file, jobs, artifacts, vectors, queue, requests, inline,
                   deletion, worker>>

------------------------------------------------------------------------------
\* parse_version.

(***************************************************************************)
(* The end of parse_version of job j.  The artifacts are put first; the    *)
(* commit fails when the row of the job is gone.  Parsing may fail, also   *)
(* after the first artifact was put.                                       *)
(***************************************************************************)
Parses(j, status, put) ==
    /\ status = "succeeded" => put
    /\ artifacts' = IF put THEN artifacts \cup {j} ELSE artifacts
    /\ jobs' = IF Exists(j)
               THEN [jobs EXCEPT ![j].status = status, ![j].rows = put]
               ELSE jobs

\* parse_document_endpoint with async_mode=false, up to reading the original,
\* without which the job fails.
ParseInline(d) ==
    /\ Stored(d)
    /\ Asks
    /\ IF d \in file
       THEN /\ jobs' = Append(jobs, NewJob("parse", d, "running"))
            /\ inline' = inline \cup {Len(jobs')}
       ELSE /\ jobs' = Append(jobs, NewJob("parse", d, "failed"))
            /\ UNCHANGED inline
    /\ UNCHANGED <<doc, file, runs, artifacts, vectors, queue, requests, deletion,
                   worker>>

FinishInline(j) ==
    /\ j \in inline
    /\ \E status \in EndedStatus, put \in BOOLEAN : Parses(j, status, put)
    /\ inline' = inline \ {j}
    /\ UNCHANGED <<doc, file, runs, vectors, queue, requests, deletion, worker,
                   bounds>>

------------------------------------------------------------------------------
\* The worker.

Works(at) == worker.at = at
Goes(at) == worker' = [worker EXCEPT !.at = at]

\* The document of the worker's job.
WorkerDoc == jobs[worker.job].doc

stores == <<doc, file, artifacts, deletion, inline, bounds>>

\* Mutant: the worker only listens to the parse list.
PopParse ==
    /\ Works("idle")
    /\ queue["parse"] # <<>>
    /\ worker' = [Idle EXCEPT !.at = "parse", !.job = Head(queue["parse"])]
    /\ queue' = [queue EXCEPT !["parse"] = Tail(@)]
    /\ UNCHANGED <<stores, jobs, runs, vectors, requests>>

\* blpop takes the first job of the first list that has one.
Pop ==
    /\ Works("idle")
    /\ \E kind \in Kind :
        /\ queue[kind] # <<>>
        /\ kind = "index" => queue["parse"] = <<>>
        /\ worker' = [Idle EXCEPT !.at = kind, !.job = Head(queue[kind])]
        /\ queue' = [queue EXCEPT ![kind] = Tail(@)]
    /\ UNCHANGED <<stores, jobs, runs, vectors, requests>>

\* parse_version up to reading the original; a missing version raises.
StartParse ==
    /\ Works("parse")
    /\ IF Stored(WorkerDoc)
       THEN /\ SetJob(worker.job, "running")
            /\ Goes(IF WorkerDoc \in file THEN "parsing" ELSE "unreadable")
       ELSE UNCHANGED jobs /\ worker' = Dead
    /\ UNCHANGED <<stores, runs, vectors, queue, requests>>

\* parse_version after reading the original.
FinishParse ==
    /\ Works("parsing") \/ Works("unreadable")
    /\ \E status \in EndedStatus, put \in BOOLEAN :
        /\ Works("unreadable") => status = "failed" /\ ~put
        /\ Parses(worker.job, status, put)
        /\ worker' = IF ~Exists(worker.job) THEN Dead
                     ELSE IF status = "succeeded" THEN [worker EXCEPT !.at = "chunk"]
                     ELSE Idle
    /\ UNCHANGED <<doc, file, deletion, inline, bounds, runs, vectors, queue, requests>>

\* Mutant: the pipeline ends with the chunks.
ChunkOnly ==
    /\ Works("chunk")
    /\ \E status \in RunStatus \cup {"none"} :
        /\ Chunks(WorkerDoc, status)
        /\ worker' = IF status \in {"succeeded", "empty"} THEN Idle ELSE Dead
    /\ UNCHANGED <<stores, jobs, vectors, queue, requests>>

\* continue_document_pipeline up to the run; an exception ends the process.
Chunk ==
    /\ Works("chunk")
    /\ \E status \in RunStatus \cup {"none"} :
        /\ Chunks(WorkerDoc, status)
        /\ worker' = IF status \in {"succeeded", "empty"}
                     THEN [worker EXCEPT !.at = "queueIndex"] ELSE Dead
    /\ UNCHANGED <<stores, jobs, vectors, queue, requests>>

\* queue_index_job up to its commit.
QueueIndex ==
    /\ Works("queueIndex")
    /\ IF Stored(WorkerDoc)
       THEN /\ jobs' = Append(jobs, NewJob("index", WorkerDoc, "pending"))
            /\ worker' = [worker EXCEPT !.at = "pushIndex", !.job = Len(jobs')]
       ELSE UNCHANGED jobs /\ worker' = Dead
    /\ UNCHANGED <<stores, runs, vectors, queue, requests>>

PushIndex ==
    /\ Works("pushIndex")
    /\ queue' = [queue EXCEPT !["index"] = Append(@, worker.job)]
    /\ worker' = Idle
    /\ UNCHANGED <<stores, jobs, runs, vectors, requests>>

\* run_index_job up to its first commit; a missing job raises.
StartIndex ==
    /\ Works("index")
    /\ IF Exists(worker.job)
       THEN SetJob(worker.job, "running") /\ Goes("reading")
       ELSE UNCHANGED jobs /\ worker' = Dead
    /\ UNCHANGED <<stores, runs, vectors, queue, requests>>

\* Mutant: the checks are outside the try.
ReadChunksRaising ==
    /\ Works("reading")
    /\ LET i == IF Stored(WorkerDoc) THEN IndexInput(WorkerDoc) ELSE NoRun
       IN  worker' = IF i = NoRun THEN Dead
                     ELSE [worker EXCEPT !.at = "clearing", !.run = i]
    /\ UNCHANGED <<stores, jobs, runs, vectors, queue, requests>>

\* The chunks of the newest run that has any; without one the job fails.
ReadChunks ==
    /\ Works("reading")
    /\ LET i == IF Stored(WorkerDoc) THEN IndexInput(WorkerDoc) ELSE NoRun
       IN  worker' = [worker EXCEPT !.at = IF i = NoRun THEN "failing" ELSE "clearing",
                                    !.run = i]
    /\ UNCHANGED <<stores, jobs, runs, vectors, queue, requests>>

\* Mutant: the vectors of earlier runs stay.
ClearNothing ==
    /\ Works("clearing")
    /\ Goes("upserting") \/ Goes("failing")
    /\ UNCHANGED <<stores, jobs, runs, vectors, queue, requests>>

\* delete_version, which may fail.
Clear ==
    /\ Works("clearing")
    /\ \/ /\ vectors' = [vectors EXCEPT ![WorkerDoc] = {}]
          /\ Goes("upserting")
       \/ UNCHANGED vectors /\ Goes("failing")
    /\ UNCHANGED <<stores, jobs, runs, queue, requests>>

\* Mutant: an upsert that fails is not noticed.
UpsertUnchecked ==
    /\ Works("upserting")
    /\ \E stays \in BOOLEAN :
        vectors' = IF stays THEN [vectors EXCEPT ![WorkerDoc] = @ \cup {worker.run}]
                   ELSE vectors
    /\ Goes("indexed")
    /\ UNCHANGED <<stores, jobs, runs, queue, requests>>

\* embed_documents and upsert; an upsert that fails may have had its effect.
Upsert ==
    /\ Works("upserting")
    /\ \E at \in {"indexed", "failing"}, stays \in BOOLEAN :
        /\ at = "indexed" => stays
        /\ vectors' = IF stays THEN [vectors EXCEPT ![WorkerDoc] = @ \cup {worker.run}]
                      ELSE vectors
        /\ Goes(at)
    /\ UNCHANGED <<stores, jobs, runs, queue, requests>>

\* The last commit of run_index_job fails when the row of the job is gone.
FinishIndex ==
    /\ Works("indexed") \/ Works("failing")
    /\ IF Exists(worker.job)
       THEN /\ SetJob(worker.job, IF Works("indexed") THEN "succeeded" ELSE "failed")
            /\ worker' = Idle
       ELSE UNCHANGED jobs /\ worker' = Dead
    /\ UNCHANGED <<stores, runs, vectors, queue, requests>>

\* The operator starts the worker again.
WorkerStarts ==
    /\ Works("dead")
    /\ worker' = Idle
    /\ UNCHANGED <<stores, jobs, runs, vectors, queue, requests>>

WorkerStep ==
    \/ Pop \/ StartParse \/ FinishParse \/ Chunk \/ QueueIndex \/ PushIndex
    \/ StartIndex \/ ReadChunks \/ Clear \/ Upsert \/ FinishIndex

------------------------------------------------------------------------------
\* delete_document_bundle.

Deleting == {d \in Doc : deletion[d].step \in {"read", "cleared", "emptied"}}

\* Mutant: only the artifacts of the newest parse job are deleted.
BeginDeleteNewest(d) ==
    /\ Stored(d)
    /\ d \notin Deleting
    /\ deletes < MaxDeletions
    /\ deletes' = deletes + 1
    /\ deletion' = [deletion EXCEPT
                        ![d] = [step |-> "read",
                                jobs |-> JobsOf("parse", d),
                                runs |-> RunsOf(d),
                                artifacts |-> IF JobsOf("parse", d) = {} THEN {}
                                              ELSE {Max(JobsOf("parse", d))}]]
    /\ UNCHANGED <<doc, file, jobs, runs, artifacts, vectors, queue, requests,
                   inline, worker, asked, faults>>

\* It reads what there is to delete.
BeginDelete(d) ==
    /\ Stored(d)
    /\ d \notin Deleting
    /\ deletes < MaxDeletions
    /\ deletes' = deletes + 1
    /\ deletion' = [deletion EXCEPT
                        ![d] = [step |-> "read",
                                jobs |-> JobsOf("parse", d),
                                runs |-> RunsOf(d),
                                artifacts |-> {j \in JobsOf("parse", d) : jobs[j].rows}]]
    /\ UNCHANGED <<doc, file, jobs, runs, artifacts, vectors, queue, requests,
                   inline, worker, asked, faults>>

DeleteVectors(d) ==
    /\ deletion[d].step = "read"
    /\ vectors' = [vectors EXCEPT ![d] = {}]
    /\ deletion' = [deletion EXCEPT ![d].step = "cleared"]
    /\ UNCHANGED <<doc, file, jobs, runs, artifacts, queue, requests, inline,
                   worker, bounds>>

DeleteObjects(d) ==
    /\ deletion[d].step = "cleared"
    /\ file' = file \ {d}
    /\ artifacts' = artifacts \ deletion[d].artifacts
    /\ deletion' = [deletion EXCEPT ![d].step = "emptied"]
    /\ UNCHANGED <<doc, jobs, runs, vectors, queue, requests, inline, worker, bounds>>

\* Rows the statements below do not name, and that refer to rows they delete.
Referring(d) ==
    (RunsOf(d) \ deletion[d].runs)
        \cup {j \in JobsOf("parse", d) \ deletion[d].jobs : jobs[j].rows}

\* The delete statements and their commit; a row of Referring makes them fail.
DeleteRows(d) ==
    /\ deletion[d].step = "emptied"
    /\ IF Referring(d) = {}
       THEN /\ doc' = [doc EXCEPT ![d] = "deleted"]
            /\ jobs' = [j \in DOMAIN jobs |->
                          IF jobs[j].doc = d
                          THEN [jobs[j] EXCEPT !.status = "deleted", !.rows = FALSE]
                          ELSE jobs[j]]
            /\ runs' = [i \in DOMAIN runs |->
                          IF runs[i].doc = d
                          THEN [runs[i] EXCEPT !.status = "deleted"]
                          ELSE runs[i]]
            /\ deletion' = [deletion EXCEPT ![d] = [Nobody EXCEPT !.step = "over"]]
       ELSE /\ deletion' = [deletion EXCEPT ![d] = [Nobody EXCEPT !.step = "failed"]]
            /\ UNCHANGED <<doc, jobs, runs>>
    /\ UNCHANGED <<file, artifacts, vectors, queue, requests, inline, worker, bounds>>

DeleteStep(d) == DeleteVectors(d) \/ DeleteObjects(d) \/ DeleteRows(d)

------------------------------------------------------------------------------
\* Faults.

\* A store fails under a DELETE request, which rolls back.
DeleteAborts(d) ==
    /\ Fault
    /\ d \in Deleting
    /\ deletion' = [deletion EXCEPT ![d] = [Nobody EXCEPT !.step = "failed"]]
    /\ UNCHANGED <<doc, file, jobs, runs, artifacts, vectors, queue, requests,
                   inline, worker>>

\* The backend dies with the requests it was serving; a parse it was running
\* may have put its artifacts.
ApiCrash ==
    /\ Fault
    /\ \E put \in SUBSET inline : artifacts' = artifacts \cup put
    /\ requests' = {}
    /\ inline' = {}
    /\ deletion' = [d \in Doc |->
                      IF d \in Deleting
                      THEN [Nobody EXCEPT !.step = "failed"] ELSE deletion[d]]
    /\ UNCHANGED <<doc, file, jobs, runs, vectors, queue, worker>>

\* The worker dies: what it had popped is not in a list any more.
WorkerCrash ==
    /\ Fault
    /\ ~Works("dead")
    /\ worker' = Dead
    /\ \E put \in SUBSET (IF Works("parsing") THEN {worker.job} ELSE {}) :
        artifacts' = artifacts \cup put
    /\ UNCHANGED <<doc, file, jobs, runs, vectors, queue, requests, inline, deletion>>

ApiStep == (\E j \in requests : PushJob(j)) \/ (\E j \in inline : FinishInline(j))

Next ==
    \/ \E d \in Doc : Upload(d) \/ ParseInline(d) \/ ChunkRequest(d) \/ BeginDelete(d)
    \/ \E d \in Doc, kind \in Kind : QueueJob(kind, d)
    \/ \E d \in Doc : DeleteStep(d) \/ DeleteAborts(d)
    \/ ApiStep \/ WorkerStep \/ WorkerStarts \/ ApiCrash \/ WorkerCrash

Spec == Init /\ [][Next]_vars

\* The jobs somebody will still get to.
InFlight ==
    (UNION {ToSet(queue[kind]) : kind \in Kind}) \cup requests \cup inline \cup {worker.job}

\* Threads of the backend and the worker are scheduled, and calls to the
\* stores return or raise.  Nothing starts a dead worker again.
Fairness ==
    /\ WF_vars(WorkerStep)
    /\ WF_vars(ApiStep)
    /\ \A d \in Doc : WF_vars(DeleteStep(d))

(***************************************************************************)
(* The same system when DELETE requests do not meet other work: one starts *)
(* when the worker has nothing in hand (jobs may still be queued), and     *)
(* nobody else steps until it ends, in success or because a store failed;  *)
(* stores fail at no other time.  Nor does the API parse itself, which     *)
(* does not continue the pipeline and leaves a document that is parsed and *)
(* no more; and without an operator a dead worker stays dead.              *)
(***************************************************************************)
QuietNext ==
    \/ \E d \in Doc : DeleteStep(d) \/ DeleteAborts(d)
    \/ /\ Deleting = {}
       /\ \/ requests = {} /\ worker.job = NoJob /\ \E d \in Doc : BeginDelete(d)
          \/ \E d \in Doc : Upload(d) \/ ChunkRequest(d)
          \/ \E d \in Doc, kind \in Kind : QueueJob(kind, d)
          \/ \E j \in requests : PushJob(j)
          \/ WorkerStep
       /\ UNCHANGED faults

QuietSpec == Init /\ [][QuietNext]_vars /\ Fairness

------------------------------------------------------------------------------
\* Properties.

(***************************************************************************)
(* A search never sees two generations of a document: whatever order index *)
(* jobs of one document run in, and wherever one of them failed or died,   *)
(* the vectors stored are those of one chunking run.                       *)
(***************************************************************************)
OneGeneration == \A d \in Doc : \A i, k \in vectors[d] : i = k

(***************************************************************************)
(* The row of a job is committed before the job is pushed, and it leaves   *)
(* the list before it runs.  Without a fault no job that is pending or     *)
(* running is forgotten by everyone, although deleting its document, a     *)
(* failing chunking or a missing row ends the worker process.              *)
(***************************************************************************)
NothingStuck ==
    faults = 0 => \A j \in DOMAIN jobs :
        jobs[j].status \in {"pending", "running"} => j \in InFlight

(***************************************************************************)
(* When an index job succeeds, exactly the run it read is searchable,      *)
(* unless a deletion of the document was tried.                            *)
(***************************************************************************)
IndexedWhenDone ==
    [][\A j \in DOMAIN jobs :
        /\ jobs[j].kind = "index"
        /\ jobs[j].status # "succeeded"
        /\ jobs'[j].status = "succeeded"
        /\ deletion[jobs[j].doc].step = "none"
        => vectors[jobs[j].doc] = {worker.run}]_vars

(***************************************************************************)
(* Every job ends, is deleted, or waits behind a worker that died, also    *)
(* when its document is deleted while it is queued.                        *)
(***************************************************************************)
JobEnded(j) == j \in DOMAIN jobs => jobs[j].status \in EndedStatus \cup {"deleted"}

JobsEnd == \A j \in 1..(2 * MaxRequests) : ~JobEnded(j) ~> JobEnded(j) \/ Works("dead")

(***************************************************************************)
(* The pipeline of an uploaded document is done when its page shows ready  *)
(* or failed.  It gets there, unless the document is deleted or the worker *)
(* died, whichever jobs were asked for in between (QuietSpec: as long as   *)
(* the API does not parse itself).                                         *)
(***************************************************************************)
UploadSettles ==
    \A d \in Doc :
        Stored(d) ~> PipelineStatus(d) \in {"ready", "failed"} \/ ~Stored(d) \/ Works("dead")

(***************************************************************************)
(* README.md:109: deleting a document also deletes its original, parse     *)
(* artifacts, chunks and Milvus vectors, also when an earlier attempt was  *)
(* broken off between two stores (QuietSpec: as long as nobody works on    *)
(* the document meanwhile; in Spec it fails).                              *)
(***************************************************************************)
DeletedLeavesNothing ==
    \A d \in Doc : doc[d] = "deleted" =>
        /\ d \notin file
        /\ vectors[d] = {}
        /\ \A j \in artifacts : jobs[j].doc # d
=============================================================================
