# TLA+ models of the ingest orchestrator

The service accepts documents over HTTP, parses them with Docling in worker
processes, and delivers the parsed result to sinks: files on disk and an
Elasticsearch index. A job's progress is a row in a SQLite database, which
requests, worker processes, their dispatcher threads and their heartbeat
threads all read and write. Parsing is bounded by process pools and by leases
on engines that hold models in GPU memory.

Paths below are relative to `src/src/ingest_orquestator_server/` unless they
start with `docs/` or `tests/` (those are in `src/`).

## Components

| Component | State it keeps | Operations that change state | Model |
| --- | --- | --- | --- |
| Dispatch hand-off queue (`application/services/parsed_document_dispatch_queue_service.py`) | `_items`, `_job_index`, bounded FIFO, one lock | enqueue_parse_result, remove_by_job_id, dequeue_batch, mark_completed, mark_batch_failed | `DispatchQueue` |
| Dispatch service (`.../parsed_document_dispatch_service.py`) | dispatcher threads, wake event | start, notify, enqueue_parse_result, _run_loop, dispatch_next_batch, _save_item_state, stop, dispatch_item | `DispatchService`; publishing and `dispatch_item` in `DramatiqPipeline` (not stop) |
| Job parse coordinator (`.../job_parse_coordinator.py`) | none; saves the row | process_job, _retry_or_fail_job, _fail_job | parse phase in `LocalPipeline`, hand-over in `DispatchService` |
| Parser worker service (`.../parser_worker_service.py`, `api/dependencies.py`) | process pool, `_submitted`, the global service and its key | submit_job, recover_active_jobs, future callbacks, shutdown, lazy creation | `LocalPipeline` |
| Docling engines (`infrastructure/docling/docling_engine.py`) | `_engines`, `_leased_engine_ids`, semaphore, lock | acquire_engine, release_engine, evict_idle, warmup, convert | `EnginePool`, abstractly `LeasePool` |
| Progress reporting (`job_progress_reporter.py`, `docling_progress.py`) | heartbeat thread; saves the row | report, stop | `LocalPipeline` |
| Job removal (`job_removal_service.py`) | none | remove_job: SIGTERM, queue, artifacts, row and run | all of it in `Ingestion`; the broken pool in `LocalPipeline`, races with dispatching in `DispatchService`, queue in `DispatchQueue`, the actor's child in `DramatiqPipeline` |
| File ingestion (`file_ingestion_service.py`) | none; saves documents, runs, rows, files | enqueue_upload, enqueue_uploads, enqueue_document_run | `Ingestion`; the submission to pools in `LocalPipeline` (not ingest_upload, process_queued_job: no route calls them) |
| Checks of requests (`application/validation/`, `parser_chunking_service.py`, `docling_parser_request_validator.py`) and of parses (`docling_document_parser.py`) | none | none; accept or refuse | `ParseRequests` |
| Job repository (`infrastructure/sqlite/`) | jobs, documents, runs, settings | save with its run snapshot, upsert_document, create_run_for_job, delete | `Ingestion`; rows also in the modules that write them |
| Elastic sink (`infrastructure/elastic/`) | the index | submit_batch | a step of `DispatchService` that accepts all or fails |
| Dramatiq backend (`infrastructure/queue/`) | broker, actors, child processes | enqueue, run in subprocess, time limit, retry, redelivery | `DramatiqPipeline` |
| Storage cleanup (`storage_cleanup_service.py`) | none; deletes files | cleanup | `Ingestion` |
| File storage (`infrastructure/filesystem/`) | uploads, output directories | save, write | `Ingestion` |
| Runtime settings (`config/settings.py`, `ingestor_settings_service.py`) | overrides | update, key by key | `RuntimeSettings`; their effect on requests and workers in `Ingestion`, on pools in `LocalPipeline` |
| Docling formats, routes and options (`infrastructure/docling/`) | none | conversion of settings and a name into a converter | `DoclingRoutes` (whether it can be built and which classes it has, not the options' values) |
| Chunks, records, normalisation | none | sequential conversion of data | not modelled |
| HTTP routes, queries, metrics | none | none of their own | not modelled |

### How they interact

    request -> file ingestion -> row PARSER_QUEUED -> ParserWorkerService.submit_job
      -> process pool -> JobParseCoordinator.process_job (in a worker process)
           row PARSING; engine lease -> Docling; heartbeats save the row meanwhile
           failure: row RETRYING or FAILED -> callback in the API resubmits
           success: row PARSED -> hand-off queue -> row DISPATCH_QUEUED
      -> dispatcher threads of that process: row DISPATCHING, STORED_LOCAL,
           COMPLETED, or back to DISPATCH_QUEUED, or FAILED
    DELETE: SIGTERM to the pid in a PARSING row, then the row goes
    changed settings: new service and pool; the old pool keeps its work
    with queue_backend=dramatiq instead of the pool: a message to the parser
      actor -> child process -> the same process_job, whose hand-off also sends
      a message to the dispatch actor -> sinks, row
    re-run: document row -> its file -> a new job and run of the same document
    cleanup: lists active jobs, then deletes old files of all others

### What is hard here

- **Whole-row saves.** Every writer reads a row, changes some of it and saves
  all of it in a later database call. Nothing orders two writers.
- **Two owners of one job.** After a change of settings, a restart or two
  first requests at once, two pools can have the same job.
- **Blocking under a lock.** The queue's lock is held around a blocking `put`.
- **Batches.** Retry decisions and failures are per batch, budgets per item.
- **Error paths.** Permits, leases and ids must be given back exactly once on
  every way out of an operation.
- **Death in the middle.** SIGTERM of a pool member, dispatcher threads ended
  by a database error, restarts; with Dramatiq, child processes that outlive
  their worker, redelivered messages, time limits.
- **Checks made twice.** The API checks a request when it comes, the worker
  checks the stored file when it parses it, under the settings of then; the
  metadata of the output is computed a second time, too.
- **Shared files.** All runs of a document write one output directory file by
  file and read one upload; removals and cleanup delete either.
- **Key by key.** An update of the settings is validated as a whole and
  written in one transaction per key.

What makes each component correct: the queue loses and duplicates nothing and
its verdicts are final; the rows never claim a delivery, a failure or a
worker that is not there, and no job is left to nobody; the pool of engines
is exclusive, bounded and leaks nothing; what the API accepts is parsed, the
stored settings can always be used, runs follow their jobs, an upload waits
safely for its parse; no message is lost and no two processes parse one
document. The properties below say this precisely; `PROJECT.json` lists the hazards line by line.

## Modules

| Module | What it is |
| --- | --- |
| `HandOff` | abstract: what the queue promises the parser, the API and the dispatcher threads |
| `DispatchQueue` | the hand-off queue with its dispatcher threads; implements `HandOff`, alone and in `DispatchService` |
| `DispatchQueueProofs` | its inductive invariant, theorems, and the refinement |
| `DispatchService` | extends `DispatchQueue` by the coordinator's hand-over, the threads' walk through `_dispatch_batch`, rows, sinks, deletions, database errors |
| `MCDispatchService` | its instance for TLC |
| `DispatchServiceProofs` | its inductive invariant, theorems, and the refinement of `HandOff`, on top of the queue's |
| `LeasePool` | abstract: what the engine registry promises its users |
| `EnginePool` | the registry, the scheduler's and warmup's use of it; implements `LeasePool` |
| `EnginePoolProofs` | its inductive invariant, theorems, the refinement, and the progress argument |
| `LocalPipeline` | upload requests, the parser worker service and its pools, the parse phase, heartbeats, removal, reconfiguration, restart |
| `LocalPipelineProofs` | its invariants and theorems |
| `RuntimeSettings` | the fields of `Settings`, their validators, the stored overrides, and `update` in its steps |
| `DoclingRoutes` | formats, pipelines, routes, what a converter is built with and what the metadata reports; operators only |
| `ParseRequests` | the checks of the API and those of the worker; operators only |
| `Ingestion` | uploads, batches and re-runs, documents, rows, runs, files, removal, cleanup, a coarse worker |
| `MCIngestion` | its scenarios for TLC |
| `IngestionBookProofs` | rows, runs, calls and workers of `Ingestion`: invariant, theorem on runs and jobs |
| `IngestionFileProofs` | on top of it: uploaded files, output directories |
| `IngestionProofs` | the invariant of the settings' editors; theorems on `Ingestion`'s settings, types, attempt numbers, parses and metadata |
| `AtLeastOnce` | abstract: what a queue backend promises an uploader |
| `DramatiqPipeline` | the Dramatiq backend: API, broker, parser actors, child processes, dispatch actors; implements `AtLeastOnce` |
| `DramatiqProofs` | its inductive invariant, theorems, and the refinement |

Composition: `DispatchService` extends `DispatchQueue` and conjoins the
queue's actions with its own. `LocalPipeline` stands one level above: what
`DispatchService` does is a single step there (`Dispatch`), from
DISPATCH_QUEUED to COMPLETED or FAILED. `RuntimeSettings`, `DoclingRoutes`,
`ParseRequests` and `Ingestion` extend each other in this order: the actions
of `RuntimeSettings` are disjuncts of `Ingestion`'s next-state relation
(`Update`), and every check is evaluated under the overrides stored at its
time. `Ingestion`'s worker does in one step what `LocalPipeline` and
`DispatchService` take apart; files are its own. `DramatiqPipeline` takes the
place of `LocalPipeline` when `queue_backend` is `dramatiq`.

Three modules are abstract and only ever instantiated, each by the module that
implements it: `HandOff` has items, holders and verdicts but no FIFO, lock or
loop; `LeasePool` has engines and leases but no lock, addresses or build;
`AtLeastOnce` has accepted jobs and verdicts but no message, actor or process.
Each is the `Promise` of its module, and `PromiseKept` the property.

### DispatchQueue

`status` is `_items` (the key's presence and the item's status), `jobIndex`
is `_job_index`, `fifo` is `_queue`. `enqueue_parse_result` is three actions,
one per way out (`EnqueueExisting`, `EnqueueNew`, `EnqueueFull`, the last of
which includes the rollback). `dequeue_batch` and the re-queueing half of
`mark_batch_failed` loop while they hold `_lock`; each is an acquisition, a
step per iteration and a return, with `lock` naming the holder.
`RequeueItem` waits for room, as `Queue.put` does; with the lock held. A
thread's copies of items have no state of their own beyond `batch`, because
only the thread that has an item writes it. `WithStatus` keeps the code's
re-insertion of an item that was removed meanwhile.

### DispatchService

`co[j]` is the coordinator's position: PARSED saved, item enqueued, row
saved by the dispatch service, row saved again by the coordinator, notified.
`stage[w]` is the thread's position in `_dispatch_batch`: every pass over the
batch (claim, store, submit, complete, fail) is a loop of `ReadRow` and
`SaveRow`, which are separate because `_save_item_state` reads and saves in
two database calls. `delivered` is history: which sinks accepted the job's
document. `DbError` makes any repository call of a thread raise; outside the
`try` that ends the thread. `DeleteRow` is the API. The wake event
the threads share has no variable: waiting for it has a timeout
(`dispatch_idle_interval_seconds`), so a notification that another thread
cleared delays a dispatch and prevents none. The model's threads poll.

### EnginePool

Engines are memory addresses, since leases are recorded by `id(engine)`: a
new engine may live where a dead one did. `TakePermit`, `Reuse`,
`StartBuild`, `Built`, `BuildFails` and `RefundPermit` are `acquire_engine`;
`WorkEnds`, `ReturnLease` and `ReturnPermit` the use and `release_engine`.
`BeginEvicting` is a conversion that starts with `evict_idle`, `Begin` one
that does not (warmup). `_lock` is held during the build of a cached engine,
so that build has a start and an end.

### LocalPipeline

A request reads the effective settings, then uses the current service or
creates one (`CreateService`: the old pool is shut down without waiting; the
global is set before its key), recovers active jobs, saves the row and
submits. `pool[s].submitted` is `_submitted`, `pool[s].pending` the
executor's queue. A worker process is `worker[w]`, walking `process_job`
database call by database call. `beat[w]` is a progress report under way: the
copy of the row it will save. `late` says that its conversion has ended,
which `stop()` allows after one second; `report` holds the reporter's lock,
so a successful conversion, which reports twice more, waits for it, and a
failing one does not. The hand-over is three steps, because others see what
is between them: `Enqueue` puts the document into the queue of the process,
where `Dispatch` may find it at once; `SaveQueued` is the save of
DISPATCH_QUEUED in `enqueue_parse_result`, `SaveAgain` the coordinator's of the
same copy; either may overwrite the verdict of the dispatcher. `EnqueueFails`
is the queue's refusal. `Dispatch` ends in COMPLETED, in FAILED, or, of a row
that is gone, in nothing ("skipped"). `HandleSubmittedJobResult` is the
callback.
`PoolBreaks` is what the executor does when a member dies, and the callbacks
of all its futures. `ProcessEnds` is a process of a replaced pool that has
nothing left to do: its dispatcher threads are daemons and end with it,
whatever is in their queue. `RemovalReads` and `RemovalActs` are `remove_job`; a
process id of before the restart may be another process's by now (`Hit`).
`Restart` keeps rows and settings. `failures` and `outcome` are history.

### RuntimeSettings, DoclingRoutes, ParseRequests

`stored` is the table `ingestor_settings`. `Acceptable` and `Canonical` are
the validators, field by field (`LeastOf` and `AtMost` the bounds of numbers); `Constructs` is `Settings(**values)` not
raising. `Validate`, `WriteKey` and `Answer` are `update`: the merged
overrides are validated as they are read, then each key is a transaction.
`spoiled` is history: the updates another one overlapped. `FormatRoutes` is
the loop of `build_format_options`, which gives every allowed format a route
and builds the options of all of them (`ConverterBuilds`): a setting the
validators accept and the builders do not, as an OCR engine nobody has
installed, fails every parse once a PDF-like format is allowed. `Reported` is
what the metadata says instead, from `route_metadata_for` and
`_active_options`; `BuildFormatOption` what a converter is really given, which
for many routes is neither a pipeline nor a backend class. `UploadAccepted` and `RerunAccepted` are the API's checks,
`ParseRefusal` and `ResultRefusal` the worker's, in the order of the code.

### Ingestion

`call[j]` is how far the request of job `j` is, and what it has read:
overrides (`seen`), input file, attempt number. `CheckUpload`, `StoreUpload`
and `UpsertDocument` are `enqueue_upload` up to the job;
`ReadDocument` and `ReadStoragePath` the two reads of `enqueue_document_run`;
`SaveJob`, `ReadAttempt`, `InsertRun`, `Enqueue` and `EnqueueFails` are
common. Uploads are coroutines and hold the event loop from their last await
on (`HoldsLoop`); everything else runs in threads or other processes.
`rows`, `runs` and `docs` are the tables, `Save` writes a row and its run as
the repository does. `uploads[j]` is the stored file, `dirs[c]` the output
directory of a document: which job wrote each file, and whether the
directory's modification time is older than the retention. `Take`, `Refuse`,
`ConversionFails`, `Convert`, `Dispatch`, `WriteFile`, `StoredLocal` and
`Complete` are the worker. A file fails to be written because the directory
has vanished (`WriteFails`) or for any other reason (`WriteBreaks`), which
leaves what the run wrote before, and perhaps a part of the file; either way
`DispatchFails` is the handler, and the dispatch is tried again or not.
`RecoverActiveJobs` is another request that has to build a new
`ParserWorkerService`: it submits every unfinished job, also one whose call
has saved the row and not inserted its run, and one that a worker has
(`Busy`). `Ingestion` lets the second submission wait for the first parse; two
parses of one job side by side are `LocalPipeline`'s subject. `RemovalStarts`,
`RemoveArtifacts` and `DeleteRow` `remove_job`, `CleanupLists`,
`CleanupScans`, `SweepUpload` and `SweepDir` `cleanup`. `DaysPass` makes all
files old. `past` is history; it names the cases the properties except.
`budget` bounds the disturbances of a behaviour: recoveries, failing writes
and all others, each on their own.

### DramatiqPipeline

`parserQueue` and `dispatchQueue` count the messages nobody holds.
`parent[p]` is a parser actor with a message: it starts a child (`Receive`),
takes its result (`TakeResult`), republishes a retry (`Republish`), and
acknowledges; if the child ended without a result it raises and dramatiq
delivers the message again (`Raised`). `child[k]` walks `process_job`;
`copy` is the row the coordinator saves a second time (`SaveAgain`), `own` is
the item in the child's own hand-off queue, which the child's dispatcher
threads claim, deliver and complete as far as they get before it ends
(`OwnThread`, `OwnDeliveryFails`). `sender[d]` is a dispatch actor, which
acknowledges in a step of its own (`AcknowledgeItem`). dramatiq's time limit
covers the whole actor until its message is acknowledged (`TimeLimit`): while
it watches, the child is ended first (`Terminated`); before the retry is sent
the message comes back in its place, as when sending it fails; after it was
sent, there are two messages (`Resent`). The death of a worker leaves its
child an orphan (`ParentDies`); so does a limit that strikes between the start
of the child and the `try`. `past` is history: what was delivered, failed,
removed, or could not be published, how often a child was orphaned, how often
an actor ended after sending a retry.

## Runs

All passing runs check their type invariant. The counts are distinct states.

| Run (cfg) | Instance | What it shows |
| --- | --- | --- |
| `DispatchQueue` (0.33 million) | 2 jobs, 3 ids, 2 threads, FIFO of 2, batches of 2, at most 2 attempts | no item is held twice or lost, the index never dangles, the queue implements `HandOff` (first come first served, one thread per item, a failure of the whole batch, final verdicts); under fairness a waiting item is taken unless a thread blocks in `put` |
| `DispatchQueueBlockedPut` | the same | **violated**: a failed batch is always given back. Producers fill the FIFO, the thread blocks in `put` and keeps the lock everybody needs |
| `DispatchServiceSafety` | 2 jobs (one local, one with both sinks), 2 threads and a replacement, 1 retry, 1 database error, 1 deletion | COMPLETED means delivered; FAILED means budget spent; retries bounded; DISPATCHING is worked on; a completed row is not redone |
| `DispatchServiceLiveness` | 1 thread and a replacement, a FIFO of 1, otherwise the same | every item handed over gets a verdict, unless its thread, or every thread, died of a database error, or a thread blocks in `put` with the lock taken, which happens here: one item in hand and one in the FIFO |
| `DispatchServiceStaleRow` | no errors | **violated**: DISPATCH_QUEUED means that something waits. The coordinator's second save overwrites COMPLETED |
| `DispatchServiceBatchMate` | no retries, no errors | **violated**: a job all of whose sinks accepted its document is not FAILED. The bulk request of a batch mate failed |
| `EnginePool` | 3 threads, 2 permits, one cached and one uncached key, 4 addresses | permits add up, leases are exclusive and match, pools are bounded, the registry implements `LeasePool`; once no work arrives, nobody waits for ever |
| `LocalPipeline` (3.2 million) | 2 uploads, a pool of 1, 1 retry, 2 services, and one of: restart, removal, late heartbeat | a service never has a job in two places; failure counts and FAILED are honest; no unfinished row without somebody to finish it, but a DISPATCH_QUEUED saved after the dispatcher's verdict; completed jobs stay completed, but for that save |
| `LocalReconfigure` | 1 upload, 1 other request, 2 services, a change of settings or a restart | every unfinished job gets a verdict although two pools parse it side by side |
| `LocalPipelineBrokenPool` | 2 uploads, a pool of 2, 1 removal | **violated**: PARSING means that a worker process is parsing. Removing one job breaks the pool under the other |
| `ingestion` (1.9 million) | 3 jobs, 2 contents, 2 updates of settings, 1 retry; eight families of scenarios | what the API accepts is not refused by the worker under the same settings and name; the metadata names what was built; stored settings can be used and an update alone is whole; runs mirror jobs; the latest run is the newest; the file of a waiting upload survives; an output directory is one run's |
| `dramatiq` (0.76 million) | 1 job, 2 parser actors, 2 children, 1 dispatch actor, 1 retry, 2 faults | the backend implements `AtLeastOnce` (no accepted document is put down without a verdict, none comes back); messages multiply only where an actor ends between sending a retry and acknowledging; a row in a parser status has somebody at work; one parse at a time; every document is settled |

The four violated properties state what the repository's documentation says,
quoted above each in its module, and are findings in `PROJECT.json`.

**Why the bounds are enough.** Two jobs are needed for batches, for a job
that shares a queue or pool with another, and for two first requests. Three
ids allow a job to be removed and enqueued again next to a second job. A FIFO
of two fills up with one batch in hand. Three threads at two permits make one
wait for a permit while two compete for an engine; four addresses are the
most that live at a time, so addresses are reused whenever that is possible.
One retry has all three cases of the budget: left, spent by the last failure,
exceeded. Two services are needed for old and new pool side by side; with a
pool of one in the safety run, the second worker process is that of the other
service. `MaxFaults` bounds what the environment does in a behaviour: one disturbance
at a time. In `LocalReconfigure` two requests make at most two services, one
before a change or restart and one after it, so that a third service would
find no request to recover for.
`MaxFailures` only bounds how far a history variable counts.
In `ingestion` a scenario fixes the requests, the edits of settings and the
number of disturbances (recoveries; failing writes; and failed conversions and
submissions, removals, cleanups, the passing of the retention); the order of
everything is free.
`Formats` has every extension with every pipeline and `Chunking` every
chunking option, each before, during and after each edit a parse can notice;
`Editing` has every pair of 23 edits, refused and odd ones among them;
`Refused` the requests at a limit; `Sharing` two runs of one content, a re-run
or a second upload under another name, with a recovery or with a failing write
and another disturbance, the re-run also with two other disturbances;
`Recovering` one upload with two recoveries and a failing write, or with one
recovery and two other disturbances, wherever its call is; `Crowd` three runs
of one or two contents, which is what it takes to have an older run next to
two that collide (where all three are of one content the second of them
writes no files, two writers of one directory being `Sharing`'s); `Removing`
three runs, one removed in between, so that counting runs differs from their maximum. The
families are separate because the product of their dimensions adds states and
no new kind of interaction. In `dramatiq` one job is enough, since jobs share
only actors and children. There are two parser actors and two children, so
that a redelivered message can overtake, and one dispatch actor, next to which
a child's own dispatcher can deliver the same document; two faults let one
follow from another (a dead worker and then its orphan), three failures of a conversion exceed the budget of one
retry.

**Fairness.** `DispatchQueue` and `EnginePool`: weak fairness per thread; a
thread that can run is scheduled and a conversion ends. `DispatchService`:
weak fairness for the coordinator, strong fairness for a dispatcher thread,
which waits for the queue's lock only while others are inside it, polls for
ever, and sleeps between two polls of an empty queue (`_run_loop`).
`LocalPipeline`: weak fairness per request, process, reporter, dispatching of
a job, callback and broken pool. `DramatiqPipeline`: weak fairness for
requests, actors and children, because dramatiq polls and processes run; none
for faults, and none for the dispatcher threads of a child, which end when it
does. Nobody has to upload, remove, change settings, restart, or make a
database call fail.

`CHECK_DEADLOCK FALSE` is set where the system may stop: the queue alone
(blocked in `put`, or out of ids), the dispatch service with all threads
dead, and the pipelines and `Ingestion` when all requests are decided.

What `LocalPipeline` does **not** promise, because the code does not: that a
job put off (RETRYABLE_FAILURE) is taken up before the next service recovers
it; that a removed job stays removed (`get(job_id) or running_job`, or a
heartbeat's save, brings its row back); that a heartbeat that outlives its
failed conversion does not overwrite a newer status; that a retry asked for
by a worker of a replaced pool is resubmitted (the callback's `submit` raises
and the id stays in `_submitted`; the new service's own submission is what
decides the job); that a document still in the queue of a replaced pool's
process is dispatched before the process ends; that the row of a dispatched
document says so, since the two saves of DISPATCH_QUEUED may come last
(`Overtaken`, the race of `DispatchServiceStaleRow`; it needs no disturbance,
and the row is wrong until the next service recovers the job).
`Undisturbed`, `Overtaken` and the disjuncts of `EveryUploadIsDecided` name
these cases.

What `Ingestion` and `DramatiqPipeline` do not promise, because the code does
not; each is a behaviour the models have, named in a property's exception:

- Two re-runs, or a re-run and an upload, may count the runs at once and get
  one attempt number (`past.clashed`); which of them is the latest is open.
- Two runs of a document that write at once, a process killed while it
  writes, or a write that fails after others succeeded, leave a directory of
  mixed files (`past.mixed`), until a run writes it alone; an HTML file of an
  earlier run stays although the last run wrote none.
- A recovery in another request's thread may submit a job between the save of
  its row and the insertion of its run, and the run then says PARSER_QUEUED,
  whatever the job has come to, until the job is saved again
  (`past.overtaken`). Every recovery may have a job parsed once more, which
  is why failures may exceed the retries by one for each.
- A removal deletes the upload and the output directory other runs of the
  document use (`past.removed`); one between the insertion of row and run
  leaves a run without a job (`past.early`), and a worker that was parsing
  brings the row back, without its run.
- Cleanup never protects output directories, and a re-run that rewrites the
  files does not make the directory's time newer, so fresh outputs can go.
- A name of which the sanitizer keeps no character but the extension loses
  the extension's dot: accepted by the API, refused by the worker.
- With Dramatiq, a first message that could not be sent leaves
  RETRYABLE_FAILURE, or PARSER_QUEUED if the API died, and nothing takes such
  a job up again: there is no recovery with this backend
  (`past.unpublished`).
- An actor that runs into its time limit, fails or dies after it has sent a
  retry and before it has acknowledged leaves two messages, hence possibly two
  parses of one job at a time (`past.resent`).
- The orphan of a killed worker parses beside the redelivered message and can
  save PARSING over a settled row (`past.orphaned`); the child's own dispatcher
  thread can leave DISPATCHING over COMPLETED when the child ends. The
  document is delivered, the row is wrong.
- A message's item always has no attempts counted, so `dispatch_item` always
  asks for a retry; after dramatiq's own retries are exhausted, which the
  model leaves out, the row stays DISPATCH_QUEUED.

## Proofs

`tlapm` checks every theorem for every value of the constants that satisfies
the named assumptions.

**`DispatchQueueProofs`** (from `SizesAreLegal`, `SentinelsAreFresh`,
`IdsAreFinite`). None of the checked invariants is inductive alone. `QInv`
adds that the lock is held exactly by a thread inside a loop (`LockInv`),
that an idle thread has no batch (`IdleHoldsNothing`), what statuses ids in
the FIFO and in batches can have (`FifoContents`, `BatchContents`: an id whose
item was removed stays in the FIFO until it is skipped, and must not come
back as another job's), and that unused ids have no item (`UnusedIsAbsent`,
so a new id is in no structure). One lemma per action; `PutFacts`, `GotFacts`
and `PopFacts` say what happens to the positions of the FIFO. `QueueInvariant`
gives `QueueTypeCorrect`, `ItemsAreHeldOnce`, `QueueLosesNothing` and
`IndexNeverDangles`; `VerdictsAreFinal` is an action property: `VerdictStep`
uses the invariant (a thread that reports has an item that is DISPATCHING or
was removed, never a finished one).

`QueueKeepsPromise` is the refinement of `HandOff`. The holder of an id is the
thread whose batch it is in (`HolderOf`), the dropped ids are those the index
no longer leads to (`DroppedIds`), and `Ahead` orders the waiting ids by their
places in the FIFO, skipping what is there without an item. `PutIsJoins` and
`StopIsLeaves` carry `Ahead` through the sequence operations: a `put` lines an
id up behind all that wait, and taking or removing one leaves the order of the
others. In `QueueStepIsSeen` an enqueue is `Accept`, a removal `Drop`, an
iteration of `dequeue_batch` `Take` or a stutter (an id without an item is
skipped), an iteration of the re-queueing half of `mark_batch_failed`
`GiveBack`, completion and the failing half `Settle`; acquiring and releasing
the lock, the refused enqueue and its rollback are not seen. Two bounds come
with it: `BatchesStaySmall`, and `PutBlocksOnBacklogOnly`, which is the exact
boundary of the finding about the blocked `put`: a thread can block there only
while more items are without a verdict than the FIFO has places.

**`DispatchServiceProofs`** (from the queue's assumptions,
`ServiceConstants`, and `NoReadIsFresh`: no row is the absence of a read). Jobs, threads, ids, sink modes, retries, deletions and
repository failures are arbitrary. The rows are saved whole by writers that
exclude nobody, so each property of a row needs to know what every writer
still has in hand. `SInv` has six parts.

- `PlaceInv`: `QInv`, which every step of the threads keeps because it does
  an operation of the queue or none (`QueueSteps`); where each thread is in the
  queue's operations at each stage of `_dispatch_batch`, and that what it walks
  over is in its batch (`ThreadIsSound`); and that a job has one item
  (`OneItem`). A batch member is DISPATCHING (`HeldIsDispatching`), ids keep
  their jobs and verdicts are final (`Grows`).
- `BudgetInv`: what a thread reports as failed is `failed` in the queue with
  its budget spent; verdicts are final, so a late report stays true.
- `DeliveryInv`: what members of a batch have had delivered at each stage.
  `CompletedMeansDelivered` follows because only the last loop saves COMPLETED.
- `OwingInv`: a row half way has a thread that owes it a save (`Owes`), which
  is stronger than `DispatchingIsWorkedOn`: a thread that completes or reports
  owes only the rows it has still to visit (`DebtsArePaid`).
- `FinishInv`: the item of a completed row is completed or in a batch that is
  about to be. With `HeldOnce` no other thread has it, and with `BudgetInv`
  none reports it as failed, which is `CompletedIsNotRedone`.
- `ChargeInv`: each round an item has been given back was charged to a member
  of its batch with budget left, and no two rounds to the same attempt of the
  same member. The pairs charged are at most retries times items handed over
  (`PairsFit`), which is `AttemptsAreBounded`.

Since each step is one of the queue's operations or none, the queue's
refinement carries over: `ServiceKeepsPromise`, with `BulkRequestsAreSmall`
and `RetryBlocksOnBacklogOnly`. Three theorems say how far the damage of
whole-row saves reaches, which no run checks:

- `DeletedStaysDeleted`: a deleted row comes back only from a read made before
  the deletion. `Gone` says that nobody has such a read and the coordinator is
  through, and no step leaves it.
- `CompletedStaysCompleted`: a completed row is overwritten only by a save
  that was under way when it was completed (`Over`, in the same way).
- `DeliveredFailsOnlyWithMates`: the boundary of the batch-mate finding. While
  the repository answers, and batches are of one or no job has sinks besides
  Elastic, a document all its sinks accepted is not reported as failed.
  `ServedInv` says which stages a thread can reach with an item that was
  delivered; only what can still fail after it (`PastFailing`) is in question.

**`EnginePoolProofs`** (from `PermitsArePositive`, `SetsAreFinite`,
`NobodyIsFresh`). `Inv` adds that the lock is held by the builder, who found
no free engine (`BuilderHasLock`; nothing can come free before `Built`, since
`release_engine` needs the lock), that uncached builders have uncached keys,
that a holder's engine is of its key (`HoldersHaveEngines`), and that pools
are disjoint. `PoolStaysSmall` is the deepest: a build happens when every
pooled engine of the key is leased; leases map one to one to permit holders
(`FewerHolders`, by an injection), and the builder holds a permit without an
engine, so there was room (`RoomForOneMore`). `RegistryKeepsPromise` is
refinement: under the mapping of `Promise`, `Reuse` is `LeaseReady`, `Built`
is `LeaseNew`, the end of work may be `Spoil`, `ReturnLease` is `GiveBack` or
`Dispose`, eviction is `Drop`, and all else is stuttering (`Unseen`).
`SameCardinality` is there because the instance brings its own copy of
`Cardinality`.

The safety half of the liveness property `WaitingEnds` is proved in two
theorems. `WaitsAreNotCircular`: who waits for the lock waits for a builder,
and a builder waits for nothing; who waits for a permit waits for a holder that
waits for nothing but the lock; so while a call is under way some thread in a
call can go on, and semaphore and lock never wait on each other.
`CallsGoForward`: every step starts a call or takes one call at least one step
nearer its end (`StepsLeft`) and does not touch the others'. What remains is
that a thread that can go on does, which is fairness.

**`Ingestion`** (from `RetriesAssumption`, `ScenariosAssumption`: the
requests and edits are such as the API's types let through, and
`AbsenceAssumption`: the absence of a row, run or job is none). Jobs,
contents, editors, and how many of each, are arbitrary. The proofs share one
invariant and add to it what each property needs.

- `SettingsInv` (`IngestionProofs`) says why interleaved updates cannot
  spoil each other: a validator looks at one field, so each single write of an
  accepted update leaves overrides from which `Settings` construct
  (`WritesAreSafe`); validating the merge as a whole is what makes the writes
  safe, and is not needed for the order they come in. `CanonicalTwice` (what
  was respelled stays) makes a stored value acceptable when it is read again.
  `StoredSettingsAlwaysConstruct` follows. `UpdatesAreAlwaysWhole` adds
  `AloneWrites`: of an update no other overlaps, each write is still in the
  list or stands in the table. Of updates that do overlap,
  `OwnKeysAlwaysStand` says that they mix key by key and no further: a key
  only one of them names is, from that update's last write on, as it asked
  (`OwnWrites`, and `WritesOfOneKey`, without which an update could undo
  itself). `OverridesWereAlwaysAsked`: no override is there that no accepted
  update asked for. Steps of `Ingestion` are steps of
  `RuntimeSettings` or leave it alone (`StepsAreSettingsSteps`).
- `BookInv` (`IngestionBookProofs`) relates the call, the worker, the row and
  the run of each job: which rows may be without a run and the reverse, that a
  worker's copy of a row has the budget and the input of its call, and that a
  removal is about a job that was saved. `RunMirrorsJob` alone is not
  inductive, because a worker saves a copy it took earlier, when the row may be
  gone. What a recovery submitted before its run was inserted is
  `past.overtaken` from the moment it is taken (`WorkIsSound`, `RowIsSound`);
  each way to a parse, in the queue or in a worker (`Pending`), is paid for by
  the call or a recovery, which bounds failures (`BudgetIsSound`). One lemma per
  action; `WorkStep` is common to the worker's.
  `RunsAlwaysMirrorJobs` follows.
- `OrderInv` (`IngestionProofs`): attempt numbers grow in the order runs are made, the number a
  call holds is above all of its document's, and of calls that hold one there
  is one at a time where `past.clashed` does not say otherwise. Together they
  carry the maximum from `ReadAttempt` to `InsertRun`, past removals.
- `FileInv` (`IngestionFileProofs`): a file an upload waits for went with a removed job that read it,
  or is young, or is old and no cleanup is under way that did not list its
  job. Young until the call answers, because days pass only between calls.
- `OutputInv` (there too): outside `past.mixed` there is one writer of a directory; what
  it has left to write says which files are already its own (`Partial`), and
  when nobody writes the directory is one run's (`Whole`). A write that fails in
  between puts the directory into `past.mixed`; the first file of a run that
  writes alone takes it out again.
- `PlaceInv`: types of what the others leave out, for `IngestionTypes`, whose
  bound on failures is part of `BookInv`.
- `AcceptInv` (`IngestionProofs`): an accepted request stays valid under the
  overrides it saw, which construct (`AcceptedIsValid`); what a call reads was
  uploaded by a call past `ReadDocument`, so its name is final
  (`InputIsStarted`); a worker's job is its call's, with the same input
  (`HasJob`). From there `SoundRefusals` turns a refusal by the worker, for
  format or chunking and under the same overrides, into one by the API. With
  `ParseFits`, that a document handed over has an allowed format and a
  pipeline, the lemmas on the tables (`RouteKinds`, `RouteOptions`,
  `ReportsWhatIsBuilt`) give `MetadataNamesWhatWasBuilt`. The names of
  extensions, formats and settings are arbitrary here, the tables are the
  code's; `NoneAssumption` says None is no chunking strategy, and
  `PipelineAssumption` that it is no pipeline class. The property compares two
  computations of the code: what `_build_format_option` passes to Docling, and
  what `_active_options` and `route_metadata_for` say later.

**`LocalPipelineProofs`** (from `PipelineBounds`, `PipelineIsFinite`: jobs
and the processes of a pool can be counted, and `AbsenceIsNone`: the absence
of a row, job, process id, removal or heartbeat is none). Jobs, visitors, pool
sizes, retries, services, changes, restarts, removals and late heartbeats are
arbitrary. Five invariants, each resting on those before it.

- `PlaceInv`: the types, and where anything can be going on at all: only in
  pools made since the API was started (`BusyFacts`), only for requests given
  such a pool, and a process is dead or a pool broken only once a removal has
  killed (`KillInv`). A removal may kill once between its read and its delete,
  which is why kills stay within removals.
- `OnceInv`: a pool has a job once in its queue or its processes, and then in
  `_submitted`. `SubmittedOnce` counts the places (`OnePlace`). The hard steps
  are the callback, which releases the id and submits it again in one step,
  and a recovery, which submits what `_submitted` does not know (`ListLine`).
- `FailsInv`: not only the row but every copy of it, in a worker process or a
  heartbeat, bounds the failures from below, even when the failures a process
  has seen and not yet saved are added (`Failing`); so a stale copy saved over
  a newer row loses a failure and never invents one. `VerdictInv` says the
  same of FAILED. Together they are `FailuresAreReported`.
- `NewInv`: before its row is saved, only its request knows a job.
- `QuietInv` holds only while the system is `Undisturbed`: one service, no
  kill, no late heartbeat. Its parts need each other: a recovery finds every
  pool idle (`OneRecovery`), so everything unfinished enters the queue; a job
  in a dispatch queue is nowhere else but in the process that is handing it
  over (`HandedOnce`), so when it is completed nothing of it is under way but
  the end of that hand-over (`Underway`, `CompletedIsFree`), so no heartbeat
  can read its row (`BeatsAreActive`), so nobody but the hand-over writes it
  again. What the hand-over has put into the queue is there or has its verdict
  in `outcome` (`HandedOverIsSeen`), so a DISPATCH_QUEUED saved late is
  `Overtaken` (`AgainIsOvertaken`). `ActiveIsOwned` follows a job from hand to
  hand (`HoldersKept`, `UnderwayFrom`) and is `NobodyIsForgotten`, with that
  exception; `CompletedIsLeft` is `CompletedForGood`, which excepts the
  two saves themselves. A restart
  brings back the state all this starts from (`RestsAtFirst`).

Two theorems are the boundary of the finding about the broken pool.
`ParsingFailsOnlyInTrouble`: while the system is `Untroubled` (no kill, no
heartbeat that outlives its conversion, no restart), the documented claim
`ParsingIsRunning` holds, with any number of services side by side and any
changes of settings. `ParsingInv` adds which copies of a row say PARSING and
that the process that has the job is at work while such a copy exists.
`RowNamesItsProcess` adds the process id (`PidInv`), which is what a removal
sends SIGTERM to; it is about one service, because with two both may have the
job, and the row names the one that saved last.

**`DramatiqProofs`** (from `DramatiqBounds`, `ParentsAreFinite`: a job's
messages can be counted, and `AbsenceIsNothing`: the absence of a row, job or
process is none). Jobs, processes, dispatch actors and faults are arbitrary,
and so is the number of threads of parser actors. `PipelineInv` has five
parts, each used by the next.

- `LinkInv`: an actor that watches has a process of its own job, and no two
  actors the same (`WatchedByOne`); a process that has converted holds a row
  outside the parser's statuses, which is what its second save writes
  (`ProcessIsSound`).
- `TokenInv`: messages in the queue and actors with a message not yet settled
  (`Open`) are at most one for a job, and one more for each actor that ended
  between sending a retry and acknowledging (`past.resent`). A retry is sent
  before its message is acknowledged, so the count has to pass from the one to
  the other in the step of `Republish`; an actor that ends earlier puts its
  own message back and counts for nothing. An accepted job
  without a row was removed (`RequestIsSound`).
- `NoOrphans`: unless a worker died while it watched, every process is watched: an actor leaves its
  process only once it has seen it end or has ended it.
- `WorkInv`, `LossInv`: who leads to a parse (`WillParse`) and to a delivery
  (`WillDeliver`). `ParsingIsWorkedOn` and `NothingIsLost` are weaker and not
  inductive: an actor that watches a process which has ended without a retry
  works on nothing.

`BackendKeepsPromise` is the refinement of `AtLeastOnce`: a job is held while
a message, an actor or a process is about it (`InHand`), and its verdicts are
what happened to it (`past`). `HandsMove` says who may take a job over from
whom, so that nothing put down comes back; `SettledHasVerdict` turns
`LossInv` into a verdict at the moment a job is put down; each action is then
an abstract one or is not seen (`QuietStepIsSeen`, `TellingStepIsSeen`,
`SenderIsSeen`, `ApiIsSeen`, `RemovalIsSeen`). `NothingIsEverLost`, the
state form of the same promise, is proved on its own.

Every action of a process or of its threads is a `ChildMoves` and every
action of a dispatch actor a `SenderMoves`, which say what the invariants
need; the actions that make a parser actor leave share `ActorLeaves`. Two
processes of one job would need two open actors, which is `OneParseAlways`;
the others follow part by part.

**Only model-checked.** The five liveness properties
(`WaitingIsTakenUnlessPutBlocks`, `HandedOverIsSettled`, `WaitingEnds`,
`EveryUploadIsDecided`, `SettledEventually`): the provers cannot reason about
fairness and ENABLED. Of `WaitingEnds` the part that is about states and steps
is proved. Every invariant and action property of a passing run is the
property of a theorem. The four violated claims are false, so nothing can be
proved of them but their boundaries: for the blocked `put`
(`PutBlocksOnBacklogOnly`, `RetryBlocksOnBacklogOnly`), the batch mate
(`DeliveredFailsOnlyWithMates`) and the broken pool
(`ParsingFailsOnlyInTrouble`) there is one. For the stale row there is none:
the coordinator's second save can come after any progress of the dispatcher
thread, with every mode of the sinks and any size of a batch.

## What is left out

- *In `DispatchService`*: `stop()` when settings change. A bulk request
  accepts all documents or raises, although Elasticsearch may accept some of
  them.
- *In `LocalPipeline`*: that the first document of a process waits for the
  first `notify()`, which starts its dispatcher threads; repository errors; a job without an input path;
  exceptions that are not `Exception`s; worker processes that survive a kill
  of the API alone. Recovery lists the jobs and submits them in one step.
- *In `EnginePool`*: the engine's own semaphore, idle times, snapshots.
- *In `DispatchQueue`*: the FIFO capacity a removed item's id still takes up
  is modelled, the memory of completed items is not bounded by the code.
- *In `RuntimeSettings`*: how a text is trimmed and a number parsed; the
  environment, which stands still; labels, groups and options of the answer.
- *In `DoclingRoutes` and `ParseRequests`*: the values of Docling's options;
  `parse_many` and `parse_files`, which no service of the repository calls;
  errors inside Docling other than "the conversion fails".
- *In `Ingestion`*: two parses of one job side by side (`LocalPipeline` has
  them); a tokenizer directory that disappears between check and use;
  `ingest_upload` and `process_queued_job`; elastic
  delivery and its failures; errors of the repository; a dry run of cleanup,
  which changes nothing.
- *In `DramatiqPipeline`*: RabbitMQ's consumer timeout, the exhaustion of
  dramatiq's retries, the row's progress reports (`LocalPipeline` has them),
  a repository that fails.
- Document contents, chunks and records, logs, HTTP, queries and metrics, and
  everything marked `not_modelled` in `PROJECT.json`, with the reason there.
  These convert data or only read; no order of steps or state of theirs can
  go wrong that the modules above do not have.

## Plan

The order was chosen so that what all documents go through comes first.

1. done: `DispatchQueue`, `DispatchService`, `EnginePool` with `LeasePool`,
   `LocalPipeline`; proofs about queue and engines.
2. done: `RuntimeSettings`, `DoclingRoutes`, `ParseRequests`, `Ingestion`,
   `DramatiqPipeline`.
3. done: proofs about `Ingestion` and the settings in it, about
   `DramatiqPipeline`, and about `DispatchService`.
4. done: proofs about `LocalPipeline`.
5. done: `HandOff` and `AtLeastOnce` and their refinements; boundaries of the
   findings; the safety half of the engine pool's liveness.
6. done: the budget and the statuses of a row in `LocalPipeline`, updates of
   the settings that overlap.
7. next: the same two questions, which status may follow which and how often
   a job is parsed, for `DramatiqPipeline`, where a redelivered message makes
   the answer weaker; and for the rows of `DispatchService`.
8. Beyond the runs: partial bulk responses of Elasticsearch, `stop()` of the
   dispatch service.
