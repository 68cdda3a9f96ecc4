# Verification of talent-eval-agents

TLA+ models of the talent evaluation system in `src/`, the TLC runs that check
them on small instances, and TLAPS proofs of what they promise for every
instance. All paths below are relative to the repository; `main.tsx:576` style
references are to `src/frontend/src` or `src/backend/app` when no directory is
given. The definition-by-definition correspondence to the source is the `map` in
`PROJECT.json`; this file explains the models as a whole.

Contents: 1 the system, 2 hazards, 3 the modules, 4 the runs, 5 bounds,
6 fairness, 7 proofs, 8 findings and remarks, 9 what is not modelled, 10 plan,
11 how to run.

## 1. The system

The backend is one FastAPI process (asyncio for the evaluation runs, a thread
pool for the synchronous endpoints) plus one worker process; PostgreSQL, Redis,
MinIO and Milvus hold the shared state; a React page drives both halves.

| component | state it keeps | operations | talks to |
|---|---|---|---|
| Run manager, `talent_run_stream.py` | `_runs`, `_conversation_runs`, per run: status, event log, pending interrupt, started and completed steps, graph status, asyncio task, condition | `create_run`, `resume_run`, `cancel_run`, `_execute` and the handlers of its items, `events_since`, `wait_for_change` | decision graph (`astream`), history store (synchronous calls), API |
| Run history, `talent_run_history.py` | rows of `talent_runs`, `talent_run_steps`, `talent_conversations` | `record`, `get_run`, `list_*` | PostgreSQL |
| Event projection, `talent_event_projection.py` | none | which step a node starts or completes, events of an update | run manager |
| Run API and SSE, `talent_run_api.py` | one generator per response: cursor, snapshot | create, resume, cancel, stream | run manager, page |
| Page of a run, `TalentChatPage.tsx`, `talentRunState.ts` | `RunView`, one `EventSource` | `connect`, `reduceRunEvent`, answer, cancel, open history | run API |
| Decision engine and its three graphs, `talent_decision_*.py`, `talent_request_graph.py`, `talent_evaluation_dispatch.py`, `talent_evaluation_report.py` | LangGraph checkpoint of the conversation's thread | nodes, routes, two `interrupt()` nodes, parallel branches (`Send`) | models, tools |
| Tools and breaker, `talent_tools.py` | failure count and opening time per tool, one executor for all runs | `execute` with retries and timeout; `allow`, `succeed`, `fail` | Milvus, PostgreSQL |
| Document pipeline, `api.py`, `document_pipeline.py`, `worker.py`, `services.py`, `chunk_service.py`, `evidence_index_service.py`, `document_cleanup.py` | `documents`, `parse_jobs`, `chunking_runs`, `evidence_index_jobs`, originals and artifacts in MinIO, vectors in Milvus, two Redis lists | upload, parse (queued or synchronous), chunk, index, retry, delete; the worker loop | all four stores |
| Evidence search and packs, `api.py`, `hybrid_search_service.py`, `evidence_citations.py`, `evidence_pack.py` | none between requests | search per requirement, read hits back under current permissions, extract facts per candidate and requirement | Milvus, PostgreSQL, model |
| Chunking, `chunking.py`, `chunk_service.py` | `chunking_runs`, `document_chunks` | elements to pieces, pieces to a tree of chunks | document pipeline |
| Parsers | none | conversions, external parsers | MinerU |
| Evaluation cases, judge, dataset, `evaluation_case.py`, `evaluation_api.py`, `evaluation_judge.py` | `evaluation_cases`, `evaluation_annotations`, `evaluation_dataset_items` | capture and record a call, judge, confirm, replay | PostgreSQL, modules of a run, judge model |
| MCP server and client, application shell, other pages, scripts | none of their own | facades, configuration | the above |

What makes each correct:

* **Runs**: one active run per conversation (its runs share a checkpoint
  thread); the log determines the status; an ended run never changes; a waiting
  run can be answered and a running one is driven by somebody; the history rows
  are never ahead of, and never contradict, the run; turn numbers survive restarts.
* **Stream and page**: events are applied in order, exactly once, whatever drops
  or replays; outcome and questions arrive; what the page folds from them is what
  the history store has, and it offers what the manager will take.
* **Requests**: the evaluation starts from a plan of the last thing the user said,
  with its own job and candidates, compiled from everything said in the turn; an
  answer the manager accepts is never refused behind its back.
* **Evaluation**: the report is computed from exactly the results of its turn;
  nothing is scored that no search backs; the ranking agrees with the scores.
* **Tools**: the audit and the breaker tell what really happened to a call, and a
  call comes back although its operation may hang.
* **Evidence**: nothing the caller may not see now reaches a pack; facts keep their
  sources; the status of a requirement is what its facts bear out.
* **Chunks**: pieces fit, keep order, text and heading; the tree holds the pieces.
* **Cases**: numbers without gaps, one annotation per case, confirmed means in the
  dataset; recording never costs the run anything.
* **Pipeline**: a search never sees two generations of a document; no job is
  forgotten or run twice; an upload ends up ready or failed; deletion leaves
  nothing; a job that succeeded is searchable.

What is hard: awaits and threads that interleave (cancel against a running
graph, deletion against the worker), store writes that fail in the middle of a
handler, restarts that lose memory and keep rows, SSE connections that drop and
replay, job lists that are popped before the work is done, requirement revisions
that send the graph through completed steps again, parallel branches that share a
breaker with every other run, operations that outlive their timeout, channels
that survive from turn to turn, an index that is older than the database.

## 2. Hazards

`PROJECT.json` lists every hazard with the line where it bites and the
properties that cover it. Where the properties cover a part only, a `note` says which.
The three without a property say why: the repository does not say what it wants there.

## 3. The modules

```
DecisionGraph ──EXTENDS── TalentRun ──EXTENDS── RunPage ──EXTENDS── MCRunPage
                            │   │                 └─EXTENDS──┐
                            │   └─EXTENDS── TalentRun_proofs ┴─EXTENDS── RunPage_proofs
                            └─INSTANCE (refinement, one per run)─┐
   RunStream_proofs ──EXTENDS── RunStream ──EXTENDS── RunLifecycle
RequestGraph ──EXTENDS── RequestGraph_proofs
CircuitBreaker ──EXTENDS─┬─ ToolExecutor ────EXTENDS─┐
                         └─ EvaluationTurn ──EXTENDS─┴─ EvaluationTurn_proofs
                                └─EXTENDS── MCEvaluationTurn
EvidenceSearch ──EXTENDS── MCEvidenceSearch
      └─EXTENDS── EvidenceSearch_proofs
DocumentPipeline ──EXTENDS─┐
Chunking ──────────EXTENDS─┴─ DocumentPipeline_proofs
      └─EXTENDS── MCChunking
EvaluationCases ──EXTENDS── MCEvaluationCases
      └─EXTENDS── EvaluationCases_proofs
```

**DecisionGraph** is the control flow of the three compiled LangGraph graphs as
one relation: node, status its update reports, next node. The data a node
computes is abstracted to that status. It also holds the two projection tables
(`STEP_BY_START_NODE`, `STEP_BY_COMPLETION_NODE`). Nodes that have no projection,
no interrupt and no branch are part of the edge that crosses them; its header
names the edges the manager cannot reach.

**RunLifecycle** is the abstract specification of one run: the statuses it goes
through, how many events each transition logs, and `ending`, the number of the first
event of a terminal type. `absent` and `lost` are the ways for the manager not to know
the run.

**TalentRun** is the run manager, the history store it writes through and the
graph it reads, for several runs in several conversations.

| variable | in the code |
|---|---|
| `status`, `conv`, `events`, `pending`, `shown`, `task` | fields of `TalentRun` |
| `convRuns` | `_conversation_runs` |
| `graph` | the position of the run's thread in the graph and the item of the stream it owes next (`tasks`, interrupt, `updates`), open branches, revisions |
| `db` | the rows `record()` writes |

Each handler is one action, because between two items of `graph.astream` the
manager never suspends (the header of the module says why), and each action
contains all store writes the handler makes, each of which may be the one that
fails (`Breaks`, `FailsAfter`: the event is in the log, the row is not, the
`except` branch emits `run.failed`, whose own write may fail too). `CreateRun`,
`ResumeRun` and `CancelRun` have their own failing branch because no `except`
surrounds them. `Restart` forgets the memory and keeps the rows. A cancelled run
is the one place where the task outlives the status: `task` is `unwinding` until
`CancelledError` is handled (`Unwind`).

**RunStream** composes RunLifecycle with the SSE generator, one step per
suspension (snapshot, each `yield`, the test after the loop, the wait), a wire
that delivers in order until it drops, and the page's `EventSource` and the
sequence test of its reducer. `Leave` is `openHistory` and `reset`, after which
nothing on the page connects to that run again.
It uses RunLifecycle in place of the manager; that the manager is a
RunLifecycle for each run is checked (`ImplementsLifecycle`) and proved.
The page closes at the first event of a terminal type (`talentRunState.ts:232`), which
is not always the last of the log: when `record()` of `run.completed` raises, the event
is in the log already and `run.failed` follows it. `Fail` of RunLifecycle leaves both
outcomes open, `IsTerminal` closes at `ending`, and the refinement gives `ending` the
value `Ending(events[r])`, so that it is the event the code would close at.

**RunPage** puts the page on top of TalentRun: `ReduceRunEvent` is the reducer,
`OpenHistory` what `historyDetailToRunView` makes of the rows `get_run` returns,
`PageOf(c)` the view of somebody who opened conversation `c` from the history when
the server knew none of its runs and started every run since. It has no variables:
the view is a fold over what a page that caught up has received of the logs the manager
keeps (RunStream): a log up to its first event of a terminal type (`Received`). A turn is
shown from the view, or from the copy `snapshotCurrentTurn` took when it ended.

**RequestGraph** is the first part of a turn, with its data, over the turns of one
conversation: `engine` and `state` are the channels of the engine and of the
request sub-graph, `node` the node that is next, `run`, `pending` and `decision` the
manager's side of a question (the status of the run, its copy of the question, what
it resumes the node with). One action per node with the route that follows it; the
two nodes that ask are two actions each, up to the interrupt and from the answer.
The engine gets the message of a run at once and everything else when the sub-graph
has ended (`LeaveRequest`); `EndRun` is every way for a run to be over earlier or
later, a raising node, a cancellation and a restart included.

Abstractions of RequestGraph: what the model writes into a draft is reduced to what
it was given, that is the last text, the texts it could read in the window or find in
the previous request, and the confirmed job, plus whether it asks for a
clarification; the query plan copies the draft and the candidates are identified by
the plan they were filtered by. A message is a job code or another text, because both
endpoints take any. The action `cancel` of both questions is left out: the manager
never sends it. What the model shows besides its properties: an answer has no id of
the question it is meant for, so a job code that is posted twice can become the text
of a revision; a revision is lost with the run when a later node raises; a turn whose
job is not found empties the structured request of the whole conversation.

**EvaluationTurn** is what a turn computes, for several turns of one conversation:
`engine` is the part of `TalentDecisionEngineState` that the checkpoint carries
from turn to turn, `dispatch` and `report` the channels of the two sub-graphs
while they run, `node` the node that is next. Inside the evaluation sub-graph
each branch is a thread (`calls[task]`, one entry per requirement, all submitted
at once), at most `max_concurrency` of them at a time, and `results` holds the
branches that are back until the last one is, because LangGraph applies the
updates of a step together. A call is two steps, `AskBreaker` and `CallReturns`,
between which other calls may open or close the breaker. **CircuitBreaker** has
the methods of the breaker as functions of its entry. `OtherCall` is every other
user of it: other runs of the process, and the branches a failed run left in
their threads. DecisionGraph has the same graphs without their data, for the run
manager, and takes the requests' interrupts and revisions into account, which
EvaluationTurn reduces to their result (`RequestSubgraph`) and RequestGraph has in
full.

Abstractions of EvaluationTurn: a model answers anything its schema and the
`Scores` of the configuration admit, or raises; a branch's evidence is one bit,
whether some requirement has a fact; a search whose envelope lacks the pack
counts as one whose extraction failed, both degrade the branch in the same way;
scores are counted in fifths, so that they are integers. Searches make one
attempt without timeout, the policy of the runtime
(`talent_evaluation_runtime.py:114-124`). The branch status `failed` and with it
`branches_ready_with_failures` cannot occur with the wired worker: the executor
has turned a `TimeoutError` into an error envelope and nothing raises
`BranchExecutionError`. `retrieve_candidates` and `no_candidates` are left out,
because the engine always passes a non-empty `candidate_ids`. What the model shows
besides its properties: a branch with a fact is scored even when other calls of it
were refused, and then may get high confidence; a branch all of whose calls were
refused is reported as missing evidence, not as a failure.

**ToolExecutor** is `execute` with the policies the MCP server gives its tools:
calls of one name, each in its thread (`call`), up to `max_attempts` attempts, each
in a pool of one thread of its own (`threads`), which a timeout leaves behind. One
action per line of `execute` that another thread can come between: asking the
breaker, submitting an attempt, its end (`Ends`, also long after nobody waits),
the timeout, each `except` branch, telling the breaker, `_finish` with a sink that
may raise. The `_finish` of a success stands inside the `try` of the retry handlers
(`talent_tools.py:151`); the sinks of the repository write to PostgreSQL, and none of
those handlers catches what SQLAlchemy raises, so a sink that fails leaves `execute`.
EvaluationTurn has the same executor with the policy of the evaluation
(one attempt, no timeout) inside a turn. Both modules move one variable, `breaker`, which
belongs to CircuitBreaker; each has its own behaviours (`Spec`, `ExecutorSpec`), so one
module can hold the proofs about both.

**EvidenceSearch** is one request for evidence: a search per requirement, the merge
of the hits, `load_pack_sources` hit by hit, then one extraction per candidate and
requirement with its retries. Between the reads documents close and reopen
(deletion, and a status or scope changed by hand). What the index finds is any set
of the chunks its filter admits, those of documents deleted since included. `item`
is the item of the packs built last: items do not depend on each other. With one
requirement, and the pack asked for, it is the evidence provider of a branch of the
evaluation. Abstractions: the three texts a fact is about are one scope, known or
with an "unknown" in it; a quotation is right or not.

**Chunking** is `chunk_elements` and the tree `create_chunking_run` makes of its
pieces, with the loop indices and accumulators of the code: an element is an index
of the document with its length and the heading it may spell. The splitter is
external and cuts a long text into parts that fit. An element of kind heading is its
title, also when it has further lines, as the code takes it (`chunking.py:139-148`). It is the inside of the steps
`Chunk` and `ChunkRequest` of DocumentPipeline, where a chunking succeeds or fails;
its behaviours are `ChunkingSpec`.

**EvaluationCases** has the calls of modules that are captured (`capture_call`
around the call, the advisory lock, the number, the insert), and the requests that
work on cases, each split where it reads, waits for a model and commits. A confirmation
can also meet a database that fails, before its commit or when it reads the item again
after it; both are answered 500. Under READ COMMITTED a statement sees what was committed before it; unique keys
(`init.sql:306,351` and the primary key of annotations) refuse the second insert.

**DocumentPipeline** has the API requests (each in its thread), the worker and
the stores. Every commit and every call to a store outside PostgreSQL ends a
step, so that anything else may happen between two of them. The worker is a
position (`worker.at`) with the job and run it holds: popping, parsing, chunking,
queueing the index job, reading the chunks, clearing the old vectors, embedding
and upserting, the last commit. A deletion is four steps: read the rows, delete
the vectors, delete the objects, delete the rows. `jobs` and `runs` are sequences
in the order of `created_at`; deleted rows stay as tombstones so that a number
names one row for ever. `rows` says whether artifact rows of a parse job exist,
`artifacts` whether the objects do: a deletion only finds objects through rows.

Abstractions of DocumentPipeline: a document has one version (no code makes a
second); one worker, as in `docker-compose.yml`; a parse job's artifacts are put
all or not at all, with or without their rows; chunking reports one of its
four outcomes; the foreign keys of `models.py` make an insert for a deleted
version fail, which is no step.

## 4. The runs

| run | module, cfg | shows |
|---|---|---|
| `turns` | MCRunPage, TalentRunTurns | two turns of one conversation through every node with one failed write and a restart: admission, log, questions and answers, rows, turn numbers; the page agrees with the history |
| `rounds` | MCRunPage, TalentRunRounds | one run, two revision rounds, two branches, two failed writes, a restart: a reported run is whole, the page offers what the manager takes, each handler is a RunLifecycle step, runs end or ask |
| `page` | RunStream, RunStreamPage | two drops, responses ended early, a restart: in order, once, up to the event that ends the run; a page that is not left catches up |
| `requests` | RequestGraph, RequestGraph | four messages in turns, failed turns and revisions: the evaluation starts from the plan, job and candidates of the last text, compiled from the whole turn; accepted answers fit their node |
| `evaluation` | MCEvaluationTurn, EvaluationTurn | two turns, searches that fail, crash or are refused: the report's input is this turn's, scores rest on facts, the ranking follows the scores |
| `tools` | ToolExecutor, ToolExecutor | three overlapping calls, operations that hang or end late, a sink that fails: the audit is true, the breaker counts calls, calls return |
| `evidence` | MCEvidenceSearch, EvidenceSearch | stale hits, documents that change during the request, extractions that repeat, contradict and misquote: sources are trusted, facts keep them, the status follows |
| `jobs` | DocumentPipeline, PipelineJobs | requests, worker, two deletions and a fault in any order: one generation, no job stuck, success means searchable |
| `settles` | DocumentPipeline, PipelineSettles | deletions that meet no work leave nothing, also after attempts a failing store broke off; jobs end and an uploaded document becomes ready or failed |
| `orphans` | DocumentPipeline, PipelineOrphans | violation: deletion against a working worker leaves objects or vectors |
| `chunks` | MCChunking, Chunking | every document of up to five elements: pieces fit, keep texts and headings, the tree holds them |
| `cases` | MCEvaluationCases, EvaluationCases | two recorders, two judges, two confirmations, of which a failing database may break any, a replay: numbers, one annotation, confirmed means in the dataset, nobody waits for a recorder that failed |

The properties, in the words of the code, are commented where they are defined.
Each property of a passing run has a mutant: a named operator in the module
(for example `AdmitsUnlessRunning`, `FailsSilently`, `UpsertUnchecked`) which
changes a definition the way a plausible bug would; with it the run finds the
property violated. The mutants are listed in `PROJECT.json` and are used by no
specification.

`CHECK_DEADLOCK FALSE` is set everywhere: every model has a legitimate end (all
runs ended and all bounds used; the page closed; no turn or request left; the
document cut; the response given). Runs, calls and requests that the code tells
apart by ids it only compares for equality are symmetric (`RunSymmetry`,
`MCSymmetry`) in runs without liveness.

## 5. Bounds and why they are enough

* `Run`, `Conversation`: the properties relate at most two runs of one
  conversation (a turn and the next). Conversations share nothing but the
  process; the proofs are for any number of both.
* `MaxRevisions = 2` in `rounds`: the second revision is the first one that finds
  a step which was already completed twice over; `turns` sets 0 to pay for the
  second run.
* `MaxBranches = 2`: one branch is the last, one is not.
* `MaxStoreFailures`: 1 hits every write of every handler; 2 adds the failure of
  the write that reports the first failure.
* `MaxRestarts = 1`: a restart is followed by runs over the rows it left; a second
  one starts from the same kind of state.
* `MaxEvents = 5`, `MaxDrops = 2`: enough for create, a question, its answer,
  progress and an end, with the second drop during the replay the first caused.
* EvaluationTurn: two candidates to rank, and plans with one dimension of two
  requirements (calls of one branch that differ), two dimensions (a matrix, a
  dimension without a score), weights that miss 100, and three dimensions, over
  the capacity of `max_work_items = 4`. `Scores = {0, 3}` separates a score of 0
  from no score. Two branches at a time meet on the breaker, whose
  `failure_threshold = 2` and `recovery_seconds = 1` (in units of the recovery
  time) are the smallest with a count below the threshold and a wait;
  `MaxFailures = 2` stops the other runs from counting on. `MaxTurns = 2` is a turn
  and the one that inherits its channels.
* RequestGraph: `MaxMessages = 4` is a turn of three messages (two revisions, the
  second of which finds a plan version, an id and channels of the first) after an
  earlier turn, or four turns. The window has two messages (`previous_turn_limit = 1`,
  in the code 3) so that such a turn overflows it. Two jobs make a choice, an
  ambiguity and a single match.
* `MaxRequests = 2` in `jobs` is an upload and one more request, on top of which
  the worker queues its own index jobs, so two jobs of one document are in the
  lists at once; `settles`, where less can interleave, uses 3. `MaxDeletions = 2` lets a failed deletion be
  tried again. One document: documents share only the order of the lists and the
  worker, and a job of another document in front of one of ours is the same as
  the worker not having stepped yet.
* ToolExecutor: three calls of two attempts meet on a breaker of threshold two: two
  exhaust it while the third, admitted before, succeeds, fails or ends late;
  `recovery_seconds = 1` as above.
* EvidenceSearch: one document in two chunks under a parent (a parent shared by
  hits), one of the other candidate in a chunk without a parent; two requirements,
  so that a chunk is found for one, the other or both. Extractions of two facts
  over a known and an unknown scope, and of three over the known one: a repetition
  and a contradiction need three.
* Chunking: `chunk_size = 5` with texts of 1, 2 and 6 has pieces that are full with
  the blank line and one character over without room for it, and a text that is
  split. Five elements hold three levels of headings with texts between them, a
  return to an upper level, and a title whose slash spells another path.
* EvaluationCases: two calls of one key compete for a number; calls of other keys
  share nothing with them. Two judges and two confirmations are the pairs that can
  race for an annotation and an item. One id per request: ids of a request are
  handled one after the other in transactions of their own.

## 6. Fairness

* TalentRun: `WF(TaskStep(r))`. The event loop gets to each ready task. That a
  model or tool call returns or raises is an assumption on the environment; the
  evaluation runtime turns off its own tool timeout
  (`talent_evaluation_runtime.py:114,123-124`), so a call that hangs for ever does
  hang its run. Clients are not fair: nobody has to answer or cancel.
* RunStream: `WF` of the generator and of the page: the loop schedules the
  generator, `wait_for_change` has a timeout, TCP delivers on a connection that
  holds, `EventSource` retries until it is answered. The run is not fair.
* EvaluationTurn, RequestGraph, EvidenceSearch, Chunking and EvaluationCases state
  no fairness: what they promise is safety. That a recorder never leaves its lock
  behind is `CallsGoOn`; a run of RequestGraph may wait for its user.
* ToolExecutor: `WF` of the steps of each call's thread and of its timeout
  (`future.result(timeout=...)` returns). `Ends` is not fair: an operation may hang
  for ever, and `CallsReturn` holds all the same.
* DocumentPipeline: `WF` of the worker, of the open API requests and of each
  deletion: threads are scheduled, store calls return or raise. `WorkerStarts` is
  not fair and not even part of `QuietSpec`: the worker is started by hand
  (`src/README.md:77`) and no supervisor restarts it, so the liveness properties
  say "or the worker is dead". `UploadSettles` is about queued requests only,
  because a synchronous parse never continues to chunking.

## 7. Proofs

TLAPS checks them without any assumption besides the named `ASSUME`s on the
constants, each of which TLC evaluates on the values of a run:

* bounds are naturals (`BoundsAssumption`, `BoundAssumption`, `StreamBoundsAssumption`,
  `PipelineBoundsAssumption`, `RequestAssumption`), a batch of events and the number
  of attempts of a tool or an extraction are at least 1 (`BatchAssumption`,
  `PolicyAssumption`, `AttemptsAssumption`);
* an element of a document is a record with a heading mark, a level of 0 to 6, a title and
  a length that is not 0 (`ElementsAssumption`: `elements_from_artifacts` skips empty
  texts), and `chunk_size` is not 0 (`SizeAssumption`: `chunk_elements` rejects a size
  of 0 or less, `chunking.py:163`; a text that is split has two parts or more);
* `None` and `NoConversation` are no value of the sets they stand beside
  (`NoConversationAssumption`, `NoneAssumption`, `RequestAssumption`);
* `BreakerAssumption` and `EvaluationAssumption`: types and least values of what
  configures the breaker and a turn; candidates are finitely many, with ids that are
  ordered; a plan of dimensions is a non-empty list of weights from 1 to 100. That
  they add up to 100 is not assumed, the code checks it and so does the model;
* `CallsAssumption`: every captured call has a key; `ExtractionsAssumption`:
  extractions are what the schema lets a model return; `ScopesAssumption`: the known
  scopes are scopes;
* `TreeAssumption`: a chunk belongs to one document, its parent to the same one, and
  parents are not in the index: `evidence_index_service.py:101,111` reads the
  chunks of role child.

The provers cannot use the library's induction theorems, which take a predicate as a
parameter. What a recursive function computes (`RecordAll`, `Merged`, `SumFunction`)
is proved all the same, by a lemma that says the same of sets: a set of naturals that
contains 0 and the successor of each of its members contains every natural
(`SetInduction`, from the well-foundedness of `<`, `WFMin`). The function is replaced
by its graph up to `n`, which exists for every `n`.

**TalentRun_proofs.** None of the safety properties is inductive: that the log
tells the status, for example, needs that a run which still has a reading task is
running, and that a waiting run has none. `IInv` is three parts:

* `FieldsTyped`: the types of the memory, nothing about the store;
* `RunsOK`: for each run the manager knows, `RunOK` relates status, log, pending
  interrupt, task and graph position; its part `LogOK` says that the last event tells
  the status and that only the one before it can be of a terminal type too;
* `Registered`: `_runs` and `_conversation_runs` agree, each run is in the list of
  its conversation once, and all but the newest of a list have ended.

Every handler other than `create_run` writes the fields of one run and respects
the order of outcomes. `Handled(r)` is that shape: new values for one run that
satisfy `RunOK`, and an ended run keeps status and log. One lemma per action shows
it (`StartNodeHandled`, ..., `UnwindHandled`), the failing writes once for all of
them (`FailureHandled`, `BreaksHandled`, `SingleHandled`, `QuietHandled`);
`WritePreserves` then shows `IInv'` once. `create_run` (`CreateRunPreserves`) and
`restart` are treated on their own. `StepCases` is the case split over `Next`. The
theorems: `Invariance`, `ManagerTypeCorrect`, `SingleActiveRun`,
`LogDeterminesStatus`, `WaitingCanBeAnswered`, `EndingIsFinal` (an action
property), and `RunsImplementLifecycle`: each step of the system is a RunLifecycle
step or a stutter of every run, by `StepIsRunStep`, which also bounds a batch of
events by `MaxBatch`. The first terminal event of a log is its last or, of a failed run,
the one before (`EndingOf`, `EndingsOK`), which is the choice `Fail` has for `ending`.

On top of `IInv` stand two invariants of the history's tables. `StoreInv`: the rows
are consistent among themselves (a run that has a row has a conversation, whose row
names its latest run), and a row of a run that is over says how it ended (`StoredOK`).
What a handler records is a fold over its events; `RecordAllKeeps` carries a property
from each single `record` to the whole fold, `OpenRecorded` and `EndRecorded` are what
the two kinds of batches do, and the writes that fail leave a row behind its run, never
ahead of it. With it: `StoredOutcomesAreTrue` and `ConversationsShowLatest`.
`StepsInv`: where the thread of a run stands in the graph tells which steps are
completed (`Behind`) and which are not yet (`Ahead`), revisions included, and what is
completed in memory is so in the rows; a report comes at the end of the graph, so `ReportedRunsAreWhole`: a run
that stored a report has every step completed in its rows.

**RunPage_proofs.** The page and the history compute the same thing from one log, in two
languages. `PagesFollowRuns` and `PagesAgreeWithHistory` rest on `PageInv`: from any
copy of the earlier turns, the view of a known run is one that its status allows
(`Followed`), and, as long as no write has failed, shows what the rows say (`Agree`,
which also covers the copy a turn leaves when it ends). The two properties are not
inductive by themselves: the reducer looks at `steps` and `turns` that the properties do
not mention, and the page of a conversation passes the turns of one run on to the next.
The argument is in four layers:

* what the page receives of a log: all of it while the run is open (`ReceivedOpen`), the
  whole batch of a handler that ends it with one event (`ReceivedSingle`), and without the
  `run.failed` that follows a `run.completed` (`ReceivedFailed`). In the last case the view
  says completed and the run failed: `Displays` is what a status allows a view to say;
* what one event does to a view (`ReduceStep`, `ReduceAsked`, ..., `ReduceEnd`) and to
  the rows with it (`WorkAgrees`, `SingleAgrees`: a `record` and a `reduceRunEvent` of
  the same event keep `Agree`);
* what a handler logs: `Logged(r)` says that a step appends events to the log of one run,
  records exactly these unless a write fails, and that they are events of work, one
  question or answer, or an end (`Adds`). `TaskLogged` and `ClientLogged` show it of every
  step of the system but `create_run` and the restart; `LoggedView` carries `PageRun`
  over such a step, because applying a longer received log continues from the view of the shorter
  one (`ViewAfterAppend`, `ViewAfterKeeps`);
* the page of a conversation, which opens the history once and then follows one run
  after the other (`FollowRunsFollows`, `PageViews`): each run finds the turns the ones
  before it left (`PageFollows`, `PageAgrees`).

`StoreInv` is needed for the rows of runs that ended before a restart.

**RunStream_proofs.** `StreamInv`: with an open connection the cursor is inside the
log of a run the server knows (`Served`), and what is on the wire is the interval of
the log that ends where the generator stands and starts at or before the event the
page needs next (`InTransit`). A drop and a reconnection only move the start of that
interval backwards, which is why the reducer's sequence test is enough:
`PageAppliesLogInOrder`. `EndAhead` says that a page with an open stream still has the
event that ends the run before it: `PageClosesAtTheEnd`.

**DocumentPipeline_proofs.** `SearchSeesOneGeneration`: only the upsert adds
vectors, and it does so to a document without any. For that, `IInv` adds to
`OneGeneration` that the vectors are cleared while the worker stands before its
upsert (`ClearedForUpsert`), which no other actor can undo (`OtherSteps`), and that
the worker's job is a row whose document never changes (`JobsKnown`, `JobsGrow`).
`JobsAreKept` (`NothingStuck`): `HInv` says in whose hands a job is. A job is in one
list, with one request, with one thread of the backend or with the worker, never in two
hands (`Held`, `WorkerHolds`), its status fits the place it is at, rows of a document
that is not stored are deleted, and without a fault each job that is not over is in a
hand (`NothingLost`). `IndexingStoresItsRun` (the action property `IndexedWhenDone`):
after the upsert the vectors are those of the run the worker read, unless a deletion has
begun (`IndexedRun`). `QuietDeletionLeavesNothing`: in `QuietSpec`, where deletion and
worker exclude each other (`HandsOff`), a deletion has read every artifact there is
(`ArtifactsHaveRows`, `DeletionSees`), and a document that is deleted has nothing left
(`NoneLeft`); `QuietSpec` only leaves out steps of `Next` (`QuietIsNext`), so the two
other invariants hold in it.

The last part of the module is about Chunking. What a piece will be is decided over
several turns of two loops, so the four properties need to say where each text is
meanwhile. `CutInv`: pending, the rest of the section and the loop index are three
consecutive intervals of the document without a heading in them (`InStep`), everything
before them is in the pieces or is a heading (`PiecesBefore(pieces, Frontier)`), what is
pending fits and is counted at least as long as it is (`PendingFits`: the separator that
is counted too much after a flush is harmless), and the path is the one of the headings
before the loop (`PathFor(at, path)`). `HeadingTaken` is the slice of `heading_path`: where
no level is skipped the titles it keeps are the latest headings of the levels above;
`PiecesAdded` that new pieces of the next texts keep the order. From it
`PiecesNeverOverflow`, `PiecesHoldTheDocument` and `PiecesStandUnderTheirHeadings`.
`TreeInv` adds that each parent holds exactly the pieces placed so far below its path
(`Holds`, `PieceHeld`), and that a clash is one of two paths of pieces: `TreeIsThePieces`.

**EvaluationTurn_proofs.** Four inductive invariants.
`BreakerCounts`: `BreakerInv` is the type of the entry with the property; every
step uses the breaker through its methods only (`BreakerMethods`,
`BreakerOutcomes`), so the order of the calls does not matter.
`ReportInputIsWhole`: the matrix is complete because the branches that are back
are exactly the work items that are neither waiting nor running, one result each
(`ReturnedOnce`), because the work items stay those of the engine's candidates
and the validated plan (`ItemsOfTurn`), and because the added channel comes in
empty (`NothingYet`), which is what the reset in `begin_turn` is for. `Channels`
has the types. `ScoresRestOnFacts`: assessments are made once, from the accepted
judgements of branches with facts (`AcceptedJudgements`), and what they rest on
does not change while they are there (`ScoresKept`).
`RankingFollowsScores`: every candidate has one assessment per dimension (`Judged`), so
the sums of two candidates have the same terms to compare (`SumsCompare`, `TermsCompare`)
and the better one has the higher score, or covers more where it is better only in
having a score of 0 at all; sorting by a total order puts an assessment behind exactly those that come before it in
the order (`RankedSorts`, `DominanceRanks`). Scores are between 0 and 5, that is all the
proof takes from the configuration.

The last part of the module is about ToolExecutor. `BreakerCountsFailedCalls`: three steps
talk to the breaker (`Tells`), and `streak`, the calls that gave up since the last success
or recovery, is its count below the threshold (`FailuresInv`). `AuditTellsWhatHappened`:
`CallOK` says what a call holds at each line of `execute`, `Recorded` that a call has its
record when it returned and none when it raised; the thread a timeout left behind changes
nothing of a call that no longer waits for it (`EndsKeeps`).

**RequestGraph_proofs.** `RequestTypeCorrect` first, with one lemma for nodes that
return (`ReturnsTyped`) and one for nodes that ask (`AskTyped`). On top of it three
inductive invariants. `QuestionInv` (`AnswersFitTheirNode`): the manager's copy of a
question is the one the waiting node would ask in the state it will see again,
because nothing but the resumed node changes that state (`NodeSteps`). `PlanInv`
(`EvaluationStartsFromLastText`): what each node finds in the channels it reads; the
part that a revision could break is that no job is selected from `interpret_input` to
`confirm_job`. `TurnInv` (`RequestHasWholeTurn`): whatever of the turn is not the last
message is in the request compiled so far, and the window has the last message
(`WindowIsOfMessages`), whatever its size.

**EvaluationCases_proofs.** `CaptureInv`: the lock of a key is free or held by one call
that is under way, and the rows of a key have the numbers 1 to their count (`KeyOK`), so
the number a call read under the lock is still free when it inserts (`CommitsKeeps`):
`CasesAreNumbered`, and `RecordingCostsNothing`, that a call goes on whatever its
recorder met. `ReviewInv` relates what the judges and the confirmations have told their
callers to the rows, where a 500 leaves open whether the confirmation is stored:
`CasesAnnotatedOnce`, `ConfirmedIsItem`. Cases are only added
(`CasesStay`), so the two invariants do not disturb each other.

**EvidenceSearch_proofs.** `Merged` has each fact once, with the sources of all its
repetitions (`MergedKeeps`), and finds a conflict exactly where the extraction says yes
and no of one known scope (`ConflictsAreDisputes`): `FactsAreKept`, `StatusIsBorneOut`.
`PacksAreTrusted`: `SInv` says what is loaded at each point of the loop over the hits
(`LoadedSoFar`, `LoadedAll`) and that each source was found for every requirement it is
given to (`Trusted`), while documents close and reopen between its steps.

**Model-checked only.** Liveness, which no installed prover handles (`RunsEndOrAsk`,
`PageCatchesUp`, `JobsEnd`, `UploadSettles`, `CallsReturn`). Every invariant and every
action property of a passing run is also a theorem. `BreakerConsistent` and
`RequestTypeOK` are proved and checked by no run of their own.

## 8. Findings and remarks

`orphans`: `delete_document_bundle` against a worker that is past its checks leaves
artifacts or vectors of a deleted document, against `src/README.md:109`. They stay in
the index; EvidenceSearch shows that they do not get into an evidence pack.

The models also show the following, which the passing properties take into account
and no text of the repository rules out:

* Stream: `generate()` tests `is_stream_finished` after yields it was suspended in
  (`talent_run_api.py:99`); a terminal event logged meanwhile is not sent in that
  response. The page is saved by reconnecting (`PageCatchesUp`); a client that reads
  one response, as `scripts/verify_evaluation_case.py:51` does, is not.
* Revisions: `_emit_projected` drops the completion of a step that was completed in
  an earlier round (`talent_run_stream.py:476-477`), so page and row keep the first
  round's outcome of it.
* Page: when `run.completed` is sent and cannot be stored, the manager ends the run as
  failed (`talent_run_stream.py:309,323`), but the page has closed at `run.completed` and
  shows a completed run until somebody opens it from the history; a run whose first write
  fails shows as failed with a free composer, while
  its conversation admits no turn until somebody cancels it; a run that waited when
  the server restarted is shown as waiting for ever, with the composer locked and a
  cancel button that gets 404; a waiting run opened from the history shows no
  question, a live one is not followed; after `no_job_match` the step
  `understand_request` of a completed run stays "running".
* Deletion: when the delete statements fail on a foreign key after Milvus and MinIO
  were emptied (`document_cleanup.py:43-50`), the rows come back and the vectors do
  not: the page shows `可召回` (`main.tsx:180`) for a document no search finds.
* Tools: a call whose result was delivered raises when the audit cannot be written
  (`talent_tools.py:216`).
* Chunks: a section under skipped levels ("#", "###", "##") has a path as long as
  the levels seen, so a "##" can come under the "###" before it; after a flush
  `pending_length` counts a separator that is not there, so pieces may be two
  characters shorter than they could be; a title with a slash can collide with the
  path it spells (`chunk_service.py:216`), and the run fails and leaves no row.
* Cases: a module that returns something other than an object makes the draft raise
  in `finally`, and the caller gets that instead of the result
  (`evaluation_case.py:184`); an output that does not fit the schema is annotated as
  by the model, which was not asked (`evaluation_api.py:142`); a 500 to a confirmation
  does not tell whether it is stored (`evaluation_api.py:185-190`), and the repetition
  that would tell is answered 409 if it is; a confirmation that
  loses to a judge is told another confirmation won (`evaluation_api.py:189`).
* Evidence: without `include_evidence_pack` the response is what the index returned,
  deleted documents included (`api.py:671-687`).

## 9. Not modelled

* How job names are matched and what a model writes into a draft: RequestGraph takes
  any result of both.
* Two answers of `openHistory` in flight, the local state of buttons and drawers, the
  polling of the material page.
* What a cancelled task still writes to the checkpoint of its thread while it unwinds
  (LangGraph decides it), and whether an outcome kept from the first round of a revision
  fits the report of the last.
* Lines below the title in an element of kind heading: they go into the heading path and
  into no piece, and TextsInOrder takes them as part of the heading.
* What happens to a job after the backend died between its commit and `rpush` (`ApiCrash`
  is in DocumentPipeline, the properties about forgotten jobs end at the first fault), and
  for how long further failures of an open breaker can put off its recovery.
* How Milvus, RRF and the reranker choose and order hits, how a query plan is
  compiled: EvidenceSearch and RequestGraph take any result.
* Parsers: calls to programs outside, and conversions whose result is text; what
  comes out of them is any list of elements in Chunking.
* Feedback on cases, the lists and reading endpoints: they append or format rows.
* MCP facade (but for requests without a context), configuration, logging, database
  and client wrappers, demo data, scripts, styles: no state or protocol of their own.
* The older single graph (`talent_decision_graph.py`) and functions nothing calls.

## 10. Plan

The modules of section 3 are what can be modelled with a question worth asking, and what
their runs check is proved as far as the installed provers go. What would change that:

1. A prover for `ENABLED` and the temporal rules of fairness would make the five liveness
   properties provable; the invariants they rest on are there.
2. When the repository decides what happens to a revision of a turn that fails, or how the
   page should poll or follow a run it opened from the history, the three hazards without a
   property get one.

## 11. How to run

In this directory: `tlc -workers 2 -config TalentRunTurns.cfg MCRunPage` (and so on
for the rows of section 4; each takes between a second and a few minutes),
`tlapm M_proofs.tla` for the modules `TalentRun_proofs`, `RunPage_proofs`,
`RunStream_proofs`, `DocumentPipeline_proofs`, `RequestGraph_proofs`,
`EvaluationTurn_proofs`, `EvidenceSearch_proofs` and `EvaluationCases_proofs`.
