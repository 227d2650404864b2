----------------------------- MODULE Ingestion -----------------------------
(***************************************************************************)
(* Documents, runs and files: FileIngestionService (uploads, batches and   *)
(* re-runs), the rows of jobs, documents and runs in SQLite, the upload    *)
(* and output directories, StorageCleanupService, JobRemovalService, and a *)
(* worker that parses and stores what was accepted, under settings that    *)
(* RuntimeSettings lets the editors change meanwhile.                      *)
(*                                                                         *)
(* An upload runs on the event loop of the API: from the last await, the   *)
(* one that stores the file, to its answer no other upload moves.  A       *)
(* re-run, a removal and an update run in threads, cleanup wherever it is  *)
(* called, the workers in processes of their own: they interleave freely.  *)
(*                                                                         *)
(* Abstractions.  A document is its content, a run and a job share their   *)
(* id, a file is named by the job that uploaded it.  The worker is coarse, *)
(* LocalPipeline and DispatchService have its steps: here it reads a row   *)
(* and writes it in one step, and its dispatch succeeds at once.  A file   *)
(* is new, or older than the retention.                                    *)
(***************************************************************************)
EXTENDS ParseRequests

CONSTANTS
  Jobs, Contents,
  Scenarios,       \* the requests, edits and numbers of disturbances of each behaviour
  MaxRetries,      \* settings.parser_max_retry_attempts
  NoRow, NoRun, NoDoc, NoDir, NoJob

ASSUME RetriesAssumption == MaxRetries \in Nat

(* What may come between: a recovery, an error of writing a file, or any   *)
(* other (a failing conversion or queue, a removal, a cleanup, time).      *)
Disturbances == {"recovery", "write", "other"}

(* What a scenario asks of the service. *)
IsRequest(r) ==
  /\ r = [f \in DOMAIN r |-> r[f]] /\ {"kind", "content", "name"} \subseteq DOMAIN r
  /\ r.content \in Contents

ASSUME ScenariosAssumption ==
  \A sc \in Scenarios :
    /\ sc.disturbances \in [Disturbances -> Nat]
    /\ \A e \in Editors : sc.edits[e] # None => IsUpdate(sc.edits[e])
    /\ sc.requests = [j \in Jobs |-> sc.requests[j]]
    /\ \A j \in Jobs : sc.requests[j] # None => IsRequest(sc.requests[j])

VARIABLES
  request,   \* the request of each job's call; None where there is no call
  budget,    \* bound of the model: disturbances of each kind left
  call,      \* how far the API call of each job is, and what it has read
  docs,      \* ingestion_documents by content: name, and the job of storage_path
  rows,      \* ingestion_jobs
  runs,      \* ingestion_runs
  uploads,   \* uploads_dir: the stored file of each job
  dirs,      \* outputs_dir: which job wrote each file of a document's directory
  queue,     \* jobs submitted to the workers
  worker,    \* what the worker of each job is doing, and under which settings
  cleanup, removal,
  past       \* history: what the properties have to know of the past

vars == <<settingsVars, request, budget, call, docs, rows, runs, uploads, dirs, queue, worker,
          cleanup, removal, past>>

Uploading(j) == request[j].kind = "upload"
ContentOf(j) == request[j].content

(* A call: how far it is, the overrides it was checked under, the job whose *)
(* upload it parses, and the attempt number its run will get.               *)
CallAt(at, seen, input, attempt) ==
  [at |-> at, seen |-> seen, input |-> input, attempt |-> attempt]

Init ==
  \E sc \in Scenarios :
    /\ SettingsInit(sc.edits)
    /\ request = sc.requests
    /\ budget = sc.disturbances
    /\ call = [j \in Jobs |->
                 CallAt(IF sc.requests[j] = None THEN "none" ELSE "waiting", <<>>, NoJob, 0)]
    /\ docs = [c \in Contents |-> NoDoc]
    /\ rows = [j \in Jobs |-> NoRow]
    /\ runs = [j \in Jobs |-> NoRun]
    /\ uploads = [j \in Jobs |-> "none"]
    /\ dirs = [c \in Contents |-> NoDir]
    /\ queue = {}
    /\ worker = [j \in Jobs |-> [at |-> "idle", using |-> <<>>, job |-> NoRow, left |-> <<>>]]
    /\ cleanup = [at |-> "idle", active |-> {}, todo |-> {}]
    /\ removal = [at |-> "idle", job |-> NoJob, row |-> NoRow]
    /\ past = [runsMade |-> 0, clashed |-> {}, mixed |-> {}, removed |-> {}, early |-> {},
               overtaken |-> {}, recoveries |-> 0, recovered |-> {},
               refused |-> [j \in Jobs |-> [reason |-> "no", using |-> <<>>]]]

Spends(d) == budget[d] > 0 /\ budget' = [budget EXCEPT ![d] = @ - 1]

(***************************************************************************)
(* Faulty variants of definitions below                                    *)
(***************************************************************************)
SnapshotWithoutStatus(j, row) == runs
CountsRuns(c) == Cardinality({k \in Jobs : runs[k] # NoRun /\ runs[k].doc = c}) + 1
QueuedIsNotActive ==
  {"PARSING", "PARSED", "DISPATCH_QUEUED", "DISPATCHING", "STORED_LOCAL", "INDEXED_ELASTIC",
   "RETRYABLE_FAILURE"}
NoEmptyRagFile(j) ==
  (IF request[j].enabled = TRUE THEN <<"markdown", "rag">> ELSE <<"markdown">>)
  \o (IF request[j].html THEN <<"html">> ELSE <<>>) \o <<"metadata">>
OneRetryMore(failures) == failures <= MaxRetries + 1

----------------------------------------------------------------------------
(* SqliteIngestionJobRepository *)

(* _save_run_snapshot: the run of the job, if it has one, follows it. *)
RunSnapshot(j, row) ==
  IF runs[j] = NoRun THEN runs ELSE [runs EXCEPT ![j].status = row.status]

(* save: insert or update the row and its run in one transaction. *)
Save(j, row) ==
  /\ rows' = [rows EXCEPT ![j] = row]
  /\ runs' = RunSnapshot(j, row)

RunsOf(c) == {k \in Jobs : runs[k] # NoRun /\ runs[k].doc = c}

NextAttempt(c) ==
  IF RunsOf(c) = {} THEN 1
  ELSE 1 + runs[CHOOSE k \in RunsOf(c) : \A l \in RunsOf(c) : runs[l].attempt <= runs[k].attempt].attempt

(* list_active_job_ids; RETRYING is not among them. *)
ActiveStatuses ==
  {"PENDING", "QUEUED", "RUNNING", "PARSER_QUEUED", "PARSING", "PARSED", "DISPATCH_QUEUED",
   "DISPATCHING", "STORED_LOCAL", "INDEXED_ELASTIC", "RETRYABLE_FAILURE"}

(* get_document and list_documents: the first run by attempt_number DESC. *)
LatestRuns(c) == {k \in RunsOf(c) : \A l \in RunsOf(c) : runs[l].attempt <= runs[k].attempt}

(* delete: the run, then the job, in one transaction. *)
RunsWithout(j) == [runs EXCEPT ![j] = NoRun]

----------------------------------------------------------------------------
(* The API calls *)

Settings(overrides) == Effective(overrides)
NewRow(status, input, doc) ==
  [status |-> status, input |-> input, doc |-> doc, outputs |-> FALSE, failures |-> 0]

quietFiles == <<docs, uploads, dirs>>
quietWork == <<settingsVars, request, queue, worker, cleanup, removal>>

(* A refused upload of a batch leaves a FAILED job without a document, a   *)
(* refused single upload an error response only.                           *)
Reject(j) ==
  /\ call' = [call EXCEPT ![j] = CallAt("refused", stored, @.input, @.attempt)]
  /\ IF request[j].batch
     THEN Save(j, NewRow("FAILED", NoJob, NoDoc))
     ELSE UNCHANGED <<rows, runs>>

(* An upload past its last await holds the event loop. *)
HoldsLoop(k) == request[k] # None /\ Uploading(k) /\ call[k].at \in {"checked", "saved", "counted", "created"}
LoopFree == \A k \in Jobs : ~HoldsLoop(k)

(* enqueue_upload up to the await that stores the file. *)
CheckUpload(j) ==
  /\ call[j].at = "waiting" /\ Uploading(j) /\ LoopFree
  /\ IF UploadAccepted(Settings(stored), request[j])
     THEN /\ call' = [call EXCEPT ![j] = CallAt("receiving", stored, @.input, @.attempt)]
          /\ UNCHANGED <<rows, runs>>
     ELSE Reject(j)
  /\ UNCHANGED <<quietFiles, quietWork, budget, past>>

(* LocalUploadStorage.save: a file that grows too large is unlinked. *)
StoreUpload(j) ==
  /\ call[j].at = "receiving" /\ LoopFree
  /\ IF SizeValid(Settings(call[j].seen), request[j])
     THEN /\ uploads' = [uploads EXCEPT ![j] = "new"]
          /\ call' = [call EXCEPT ![j] = CallAt("stored", @.seen, j, @.attempt)]
          /\ UNCHANGED <<rows, runs>>
     ELSE Reject(j) /\ UNCHANGED uploads
  /\ UNCHANGED <<docs, dirs, quietWork, budget, past>>

(* upsert_document: the row of the same content moves to the newest file. *)
UpsertDocument(j) ==
  /\ call[j].at = "stored" /\ LoopFree
  /\ docs' = [docs EXCEPT ![ContentOf(j)] = [name |-> request[j].name, file |-> j]]
  /\ call' = [call EXCEPT ![j].at = "checked"]
  /\ UNCHANGED <<rows, runs, uploads, dirs, quietWork, budget, past>>

(* enqueue_document_run: get_document, validated by its name ... *)
ReadDocument(j) ==
  /\ call[j].at = "waiting" /\ ~Uploading(j) /\ docs[ContentOf(j)] # NoDoc
  /\ LET r == [request[j] EXCEPT !.name = docs[ContentOf(j)].name]
     IN  /\ request' = [request EXCEPT ![j] = r]
         /\ call' = [call EXCEPT ![j] =
              CallAt(IF RerunAccepted(Settings(stored), r) THEN "found" ELSE "refused",
                     stored, @.input, @.attempt)]
  /\ UNCHANGED <<settingsVars, quietFiles, rows, runs, queue, worker, cleanup, removal, budget, past>>

(* ... and get_document_storage_path, a read of its own. *)
ReadStoragePath(j) ==
  /\ call[j].at = "found"
  /\ call' = [call EXCEPT ![j] = CallAt("checked", @.seen, docs[ContentOf(j)].file, @.attempt)]
  /\ UNCHANGED <<quietFiles, rows, runs, quietWork, budget, past>>

SaveJob(j) ==
  /\ call[j].at = "checked"
  /\ Save(j, NewRow("PARSER_QUEUED", call[j].input, ContentOf(j)))
  /\ call' = [call EXCEPT ![j].at = "saved"]
  /\ UNCHANGED <<quietFiles, quietWork, budget, past>>

(* create_run_for_job: the maximum is read before the transaction of the   *)
(* INSERT begins.                                                          *)
ReadAttempt(j) ==
  /\ call[j].at = "saved"
  /\ call' = [call EXCEPT ![j] = CallAt("counted", @.seen, @.input, NextAttempt(ContentOf(j)))]
  /\ past' = [past EXCEPT !.clashed =
                IF \E k \in Jobs : call[k].at = "counted" /\ ContentOf(k) = ContentOf(j)
                THEN @ \union {ContentOf(j)} ELSE @]
  /\ UNCHANGED <<quietFiles, rows, runs, quietWork, budget>>

InsertRun(j) ==
  /\ call[j].at = "counted"
  /\ runs' = [runs EXCEPT ![j] = [doc |-> ContentOf(j), attempt |-> call[j].attempt,
                                  status |-> "PARSER_QUEUED", made |-> past.runsMade + 1]]
  /\ past' = [past EXCEPT !.runsMade = @ + 1]
  /\ call' = [call EXCEPT ![j].at = "created"]
  /\ UNCHANGED <<quietFiles, rows, quietWork, budget>>

Busy == {k \in Jobs : worker[k].at \in {"parsing", "handed", "writing", "stored"}}

(* submit_job: nothing if the same service has submitted it already, which *)
(* recovery may have done.                                                 *)
Enqueue(j) ==
  /\ call[j].at = "created"
  /\ queue' \in {queue \union {j}} \union (IF j \in Busy THEN {queue} ELSE {})
  /\ call' = [call EXCEPT ![j].at = "answered"]
  /\ UNCHANGED <<settingsVars, request, quietFiles, rows, runs, worker, cleanup, removal, budget, past>>

(* The queue refuses the job: the row built above is saved once more. *)
EnqueueFails(j) ==
  /\ call[j].at = "created"
  /\ Spends("other")
  /\ Save(j, NewRow("RETRYABLE_FAILURE", call[j].input, ContentOf(j)))
  /\ call' = [call EXCEPT ![j].at = "answered"]
  /\ UNCHANGED <<quietFiles, quietWork, past>>

Call(j) ==
  \/ CheckUpload(j) \/ StoreUpload(j) \/ UpsertDocument(j)
  \/ ReadDocument(j) \/ ReadStoragePath(j)
  \/ SaveJob(j) \/ ReadAttempt(j) \/ InsertRun(j) \/ Enqueue(j) \/ EnqueueFails(j)

----------------------------------------------------------------------------
(* The workers *)

workOnly == <<settingsVars, request, call, docs, uploads, cleanup, removal>>

(* list_by_status of recover_active_jobs. *)
RecoveredStatuses == (ActiveStatuses \ {"PENDING", "RUNNING"}) \union {"RETRYING"}

(* A request finds a new ParserWorkerService to be built, which submits    *)
(* every job that looks unfinished: also one whose call has saved its row  *)
(* and not come to its run or its own submission, or that is worked on.    *)
RecoverActiveJobs ==
  /\ Spends("recovery")
  /\ queue' = queue \union {j \in Jobs : rows[j] # NoRow /\ rows[j].status \in RecoveredStatuses}
  /\ past' = [past EXCEPT !.recoveries = @ + 1, !.recovered = @ \union {stored}]
  /\ UNCHANGED <<settingsVars, request, call, quietFiles, rows, runs, worker, cleanup, removal>>

(* process_job: a removed job is dropped, any other is PARSING, with the   *)
(* settings of the request or recovery that submitted it or those of now.  *)
Take(j) ==
  /\ j \in queue /\ j \notin Busy
  /\ queue' = queue \ {j}
  /\ IF rows[j] = NoRow THEN UNCHANGED <<rows, runs, worker>>
     ELSE \E using \in {call[j].seen, stored} \union past.recovered :
            LET running == [rows[j] EXCEPT !.status = "PARSING"]
            IN  /\ Save(j, running)
                /\ worker' = [worker EXCEPT ![j] =
                     [at |-> "parsing", using |-> using, job |-> running, left |-> <<>>]]
  /\ past' = [past EXCEPT !.overtaken =
                IF call[j].at \in {"saved", "counted"} THEN @ \union {j} ELSE @]
  /\ UNCHANGED <<workOnly, dirs, budget>>

(* `get(job_id) or running_job`: a row removed meanwhile comes back. *)
LatestJob(j) == IF rows[j] = NoRow THEN worker[j].job ELSE rows[j]

HasBudget(failures) == failures <= MaxRetries

(* _retry_or_fail_job *)
RetryOrFail(j, reason) ==
  LET failures == LatestJob(j).failures + 1
      again == HasBudget(failures)
  IN  /\ Save(j, [LatestJob(j) EXCEPT !.failures = failures,
                    !.status = IF again THEN "RETRYING" ELSE "FAILED"])
      /\ queue' = IF again THEN queue \union {j} ELSE queue
      /\ worker' = [worker EXCEPT ![j].at = "idle"]
      /\ past' = [past EXCEPT !.refused[j] = [reason |-> reason, using |-> worker[j].using]]

InputName(j) == request[worker[j].job.input].name

RefusalOf(j) ==
  ParseRefusal(Settings(worker[j].using), request[j],
               uploads[worker[j].job.input] # "none", StoredExtension(InputName(j)))

Refuse(j) ==
  /\ worker[j].at = "parsing" /\ RefusalOf(j) # "no"
  /\ RetryOrFail(j, RefusalOf(j))
  /\ UNCHANGED <<workOnly, dirs, budget>>

ConversionFails(j) ==
  /\ worker[j].at = "parsing" /\ RefusalOf(j) = "no"
  /\ Spends("other")
  /\ RetryOrFail(j, "conversion")
  /\ UNCHANGED <<workOnly, dirs>>

(* The conversion went well: its result is refused, or handed over. *)
Convert(j) ==
  /\ worker[j].at = "parsing" /\ RefusalOf(j) = "no"
  /\ LET reason == ResultRefusal(Settings(worker[j].using), request[j])
     IN  IF reason # "no" THEN RetryOrFail(j, reason)
         ELSE /\ Save(j, [LatestJob(j) EXCEPT !.status = "DISPATCH_QUEUED"])
              /\ worker' = [worker EXCEPT ![j].at = "handed"]
              /\ UNCHANGED <<queue, past>>
  /\ UNCHANGED <<workOnly, dirs, budget>>

(* LocalParseOutputWriter.write: which files, in which order. *)
WriteOrder(j) ==
  IF request[j].html THEN <<"markdown", "rag", "html", "metadata">> ELSE <<"markdown", "rag", "metadata">>

(* _dispatch_batch of this document alone; a removed job is skipped. *)
Dispatch(j) ==
  /\ worker[j].at = "handed"
  /\ IF rows[j] = NoRow
     THEN worker' = [worker EXCEPT ![j].at = "idle"] /\ UNCHANGED <<rows, runs>>
     ELSE /\ Save(j, [rows[j] EXCEPT !.status = "DISPATCHING"])
          /\ worker' = [worker EXCEPT ![j] =
               [at |-> "writing", using |-> @.using, job |-> @.job,
                left |-> IF StoresLocal(Settings(@.using), request[j]) THEN WriteOrder(j) ELSE <<>>]]
  /\ UNCHANGED <<workOnly, dirs, queue, budget, past>>

MidWrite(k) == worker[k].at = "writing" /\ worker[k].left \notin {<<>>, WriteOrder(k)}

NewDir == [age |-> "new", markdown |-> NoJob, rag |-> NoJob, html |-> NoJob, metadata |-> NoJob]

DirOf(c) == IF dirs[c] = NoDir THEN NewDir ELSE dirs[c]
OtherMidWrite(j) == \E k \in Jobs \ {j} : MidWrite(k) /\ ContentOf(k) = ContentOf(j)

(* What the next write_text of a job leaves: only a new entry makes the    *)
(* directory young again.                                                  *)
DirWith(j) ==
  LET dir == DirOf(ContentOf(j))
      file == Head(worker[j].left)
  IN  [dir EXCEPT ![file] = j, !.age = IF dir[file] = NoJob THEN "new" ELSE @]

(* mkdir comes before the first file, and for no other. *)
CanWrite(j) ==
  /\ worker[j].at = "writing" /\ worker[j].left # <<>>
  /\ dirs[ContentOf(j)] # NoDir \/ Head(worker[j].left) = "markdown"

(* One file.  The first file of a run that writes alone begins the         *)
(* directory anew, whatever was left of others.                            *)
WriteFile(j) ==
  LET c == ContentOf(j)
  IN  /\ CanWrite(j)
      /\ dirs' = [dirs EXCEPT ![c] = DirWith(j)]
      /\ worker' = [worker EXCEPT ![j].left = Tail(@)]
      /\ past' = [past EXCEPT !.mixed =
                    IF OtherMidWrite(j) THEN @ \union {c}
                    ELSE IF Head(worker[j].left) = "markdown" THEN @ \ {c} ELSE @]
      /\ UNCHANGED <<workOnly, rows, runs, queue, budget>>

(* The handler of _dispatch_batch: the dispatch is tried again, or not, as *)
(* dispatch_max_retries says.                                              *)
DispatchFails(j) ==
  \E again \in BOOLEAN :
    /\ worker' = [worker EXCEPT ![j].at = IF again THEN "handed" ELSE "idle"]
    /\ IF rows[j] = NoRow THEN UNCHANGED <<rows, runs>>
       ELSE Save(j, [rows[j] EXCEPT !.status = IF again THEN "DISPATCH_QUEUED" ELSE "FAILED"])

(* The directory vanished between two files. *)
WriteFails(j) ==
  /\ worker[j].at = "writing" /\ worker[j].left # <<>> /\ ~CanWrite(j)
  /\ DispatchFails(j)
  /\ UNCHANGED <<workOnly, dirs, queue, budget, past>>

(* Any other exception at a file: a full disk, text that cannot be         *)
(* encoded.  The directory is as before, made, or has a part of the file,  *)
(* and the files the run wrote before stay there.                          *)
WriteBreaks(j) ==
  LET c == ContentOf(j)
  IN  /\ CanWrite(j)
      /\ Spends("write")
      /\ \E dir \in {dirs[c], DirOf(c), DirWith(j)} : dirs' = [dirs EXCEPT ![c] = dir]
      /\ past' = [past EXCEPT !.mixed =
                    IF MidWrite(j) \/ dirs'[c] # dirs[c] THEN @ \union {c} ELSE @]
      /\ DispatchFails(j)
      /\ UNCHANGED <<workOnly, queue>>

(* Written: the row names the outputs, STORED_LOCAL, before it is COMPLETED. *)
StoredLocal(j) ==
  /\ worker[j].at = "writing" /\ worker[j].left = <<>>
  /\ StoresLocal(Settings(worker[j].using), request[j])
  /\ worker' = [worker EXCEPT ![j].at = "stored"]
  /\ IF rows[j] = NoRow THEN UNCHANGED <<rows, runs>>
     ELSE Save(j, [rows[j] EXCEPT !.status = "STORED_LOCAL", !.outputs = TRUE])
  /\ UNCHANGED <<workOnly, dirs, queue, budget, past>>

Complete(j) ==
  /\ \/ worker[j].at = "stored"
     \/ worker[j].at = "writing" /\ ~StoresLocal(Settings(worker[j].using), request[j])
  /\ worker' = [worker EXCEPT ![j].at = "done"]
  /\ IF rows[j] = NoRow THEN UNCHANGED <<rows, runs>>
     ELSE Save(j, [rows[j] EXCEPT !.status = "COMPLETED"])
  /\ UNCHANGED <<workOnly, dirs, queue, budget, past>>

Work(j) ==
  \/ Take(j) \/ Refuse(j) \/ ConversionFails(j) \/ Convert(j)
  \/ Dispatch(j) \/ WriteFile(j) \/ WriteFails(j) \/ WriteBreaks(j)
  \/ StoredLocal(j) \/ Complete(j)

----------------------------------------------------------------------------
(* JobRemovalService.remove_job *)

(* The row is read; a parser process it names is killed, and with it       *)
(* whatever other documents that process was parsing or dispatching.       *)
RemovalStarts(j) ==
  /\ removal.at = "idle" /\ rows[j] # NoRow
  /\ Spends("other")
  /\ removal' = [at |-> "files", job |-> j, row |-> rows[j]]
  /\ \E killed \in IF rows[j].status = "PARSING" /\ j \in Busy
                   THEN {k \in SUBSET Busy : j \in k} ELSE {{}} :
       /\ worker' = [k \in Jobs |-> IF k \in killed THEN [worker[k] EXCEPT !.at = "lost"] ELSE worker[k]]
       /\ past' = [past EXCEPT !.mixed = @ \union {ContentOf(k) : k \in {l \in killed : MidWrite(l)}}]
  /\ UNCHANGED <<settingsVars, request, call, quietFiles, rows, runs, queue, cleanup>>

(* _remove_artifacts: the input and, if there are outputs, their           *)
(* directory, whoever else uses them.                                      *)
RemoveArtifacts ==
  /\ removal.at = "files"
  /\ uploads' = IF removal.row.input = NoJob THEN uploads
                ELSE [uploads EXCEPT ![removal.row.input] = "none"]
  /\ dirs' = IF removal.row.outputs THEN [dirs EXCEPT ![removal.row.doc] = NoDir] ELSE dirs
  /\ removal' = [removal EXCEPT !.at = "row"]
  /\ UNCHANGED <<settingsVars, request, call, docs, rows, runs, queue, worker, cleanup, budget, past>>

DeleteRow ==
  LET j == removal.job
  IN  /\ removal.at = "row"
      /\ removal' = [at |-> "idle", job |-> NoJob, row |-> NoRow]
      /\ rows' = [rows EXCEPT ![j] = NoRow]
      /\ runs' = IF rows[j] = NoRow THEN runs ELSE RunsWithout(j)
      /\ past' = [past EXCEPT !.removed = @ \union {j},
                    !.early = IF call[j].at \in {"saved", "counted"} THEN @ \union {j} ELSE @]
      /\ UNCHANGED <<settingsVars, request, call, quietFiles, queue, worker, cleanup, budget>>

----------------------------------------------------------------------------
(* StorageCleanupService.cleanup(dry_run=False), and time *)

ActiveJobs == {j \in Jobs : rows[j] # NoRow /\ rows[j].status \in ActiveStatuses}

quietSweep == <<settingsVars, request, call, docs, rows, runs, queue, worker, removal>>

CleanupLists ==
  /\ cleanup.at = "idle"
  /\ Spends("other")
  /\ cleanup' = [at |-> "listed", active |-> ActiveJobs, todo |-> {}]
  /\ UNCHANGED <<quietSweep, uploads, dirs, past>>

CleanupOver == [at |-> "idle", active |-> {}, todo |-> {}]
Left(todo) == IF todo = {} THEN CleanupOver ELSE [cleanup EXCEPT !.at = "sweeping", !.todo = todo]

CleanupScans ==
  /\ cleanup.at = "listed"
  /\ cleanup' = Left({<<"upload", j>> : j \in {k \in Jobs : uploads[k] # "none"}}
                     \union {<<"dir", c>> : c \in {d \in Contents : dirs[d] # NoDir}})
  /\ UNCHANGED <<quietSweep, uploads, dirs, budget, past>>

(* A file is protected by the job that uploaded it, whichever job reads    *)
(* it.  stat of one that has vanished raises: the cleanup is over.         *)
SweepUpload(j) ==
  /\ cleanup.at = "sweeping" /\ <<"upload", j>> \in cleanup.todo
  /\ uploads' = IF j \notin cleanup.active /\ uploads[j] = "old"
                THEN [uploads EXCEPT ![j] = "none"] ELSE uploads
  /\ cleanup' = IF j \notin cleanup.active /\ uploads[j] = "none" THEN CleanupOver
                ELSE Left(cleanup.todo \ {<<"upload", j>>})
  /\ UNCHANGED <<quietSweep, dirs, budget, past>>

(* Directories come after the uploads; no job's id begins their names.     *)
SweepDir(c) ==
  /\ cleanup.at = "sweeping" /\ <<"dir", c>> \in cleanup.todo
  /\ \A path \in cleanup.todo : path[1] = "dir"
  /\ dirs' = IF dirs[c] # NoDir /\ dirs[c].age = "old" THEN [dirs EXCEPT ![c] = NoDir] ELSE dirs
  /\ cleanup' = IF dirs[c] = NoDir THEN CleanupOver ELSE Left(cleanup.todo \ {<<"dir", c>>})
  /\ UNCHANGED <<quietSweep, uploads, budget, past>>

Cleanup ==
  \/ CleanupLists \/ CleanupScans
  \/ \E j \in Jobs : SweepUpload(j)
  \/ \E c \in Contents : SweepDir(c)

(* The retention passes while nothing is at work. *)
DaysPass ==
  /\ cleanup.at = "idle" /\ removal.at = "idle" /\ Busy = {}
  /\ \A j \in Jobs : call[j].at \in {"none", "waiting", "refused", "answered"}
  /\ Spends("other")
  /\ uploads' = [j \in Jobs |-> IF uploads[j] = "none" THEN "none" ELSE "old"]
  /\ dirs' = [c \in Contents |-> IF dirs[c] = NoDir THEN NoDir ELSE [dirs[c] EXCEPT !.age = "old"]]
  /\ UNCHANGED <<quietSweep, cleanup, past>>

----------------------------------------------------------------------------
Update ==
  /\ SettingsNext
  /\ UNCHANGED <<request, budget, call, docs, rows, runs, uploads, dirs, queue, worker, cleanup,
                 removal, past>>

Next ==
  \/ Update
  \/ \E j \in Jobs : Call(j) \/ Work(j) \/ RemovalStarts(j)
  \/ RecoverActiveJobs \/ RemoveArtifacts \/ DeleteRow
  \/ Cleanup \/ DaysPass

Spec == Init /\ [][Next]_vars

----------------------------------------------------------------------------
(* Properties *)

CallSteps == {"none", "waiting", "receiving", "stored", "found", "checked", "saved", "counted",
              "created", "answered", "refused"}
Statuses == {"PARSER_QUEUED", "PARSING", "RETRYING", "DISPATCH_QUEUED", "DISPATCHING",
             "STORED_LOCAL", "COMPLETED", "FAILED", "RETRYABLE_FAILURE"}
Owners == Jobs \union {NoJob}
Row == [status : Statuses, input : Owners, doc : Contents \union {NoDoc}, outputs : BOOLEAN,
        failures : Nat]
Run == [doc : Contents, attempt : Nat, status : Statuses, made : Nat]

ASSUME AbsenceAssumption == NoRow \notin Row /\ NoRun \notin Run /\ NoJob \notin Jobs

(* Types: in particular a row never counts more failures than the retries  *)
(* allow and one, and one more for every recovery, which may submit a job  *)
(* a second time, whatever puts it back into the queue.                    *)
ITypeOK ==
  /\ budget \in [Disturbances -> Nat] /\ queue \subseteq Jobs
  /\ DOMAIN stored \subseteq Fields
  /\ \A j \in Jobs : call[j].at \in CallSteps /\ call[j].input \in Owners
  /\ rows \in [Jobs -> Row \union {NoRow}]
  /\ \A j \in Jobs : rows[j] # NoRow => rows[j].failures <= MaxRetries + 1 + past.recoveries
  /\ \A j \in Jobs : runs[j] # NoRun => runs[j].doc \in Contents /\ runs[j].status \in Statuses
  /\ uploads \in [Jobs -> {"none", "new", "old"}]
  /\ \A c \in Contents : dirs[c] # NoDir =>
       \A file \in DOMAIN dirs[c] \ {"age"} : dirs[c][file] \in Owners
  /\ \A j \in Jobs : worker[j].at \in {"idle", "parsing", "handed", "writing", "stored", "done", "lost"}
  /\ cleanup.active \subseteq Jobs /\ removal.job \in Owners

(* What the API accepts, the worker parses: a job refused for its format,  *)
(* its pipeline or its chunking runs under other settings than it was      *)
(* accepted under, or its stored file does not have the name the API saw   *)
(* (a name the sanitizer left no extension of, or a re-run of a document   *)
(* that another upload renamed).  Two code paths have to agree for that.   *)
AcceptedIsParsed ==
  \A j \in Jobs :
    LET sameName == InputName(j).extension = StoredExtension(InputName(j))
                    /\ InputName(j) = request[j].name
        refused == past.refused[j]
    IN  /\ refused.reason = "format" => refused.using # call[j].seen \/ ~sameName
        /\ refused.reason = "chunking" => refused.using # call[j].seen

(* The metadata of a parsed document names the format option its converter *)
(* was built with, and the pipeline and backend classes that option was    *)
(* given, where it was given any, except for the two formats it reports as *)
(* Docling's default; mode, kind and active options, which come of tables  *)
(* of their own, go with them.  The metadata is complete when the document *)
(* is handed over and does not change afterwards.                          *)
MetadataNamesWhatWasBuilt ==
  \A j \in Jobs : worker[j].at = "handed" =>
    LET extension == StoredExtension(InputName(j))
        report == ReportOf(Settings(worker[j].using), request[j], extension)
        built == BuildOf(Settings(worker[j].using), request[j], extension)
    IN  /\ DetectInputFormat(extension) \notin {"mets_gbs", "audio"} =>
             /\ report.option = built.option
             /\ report.pipeline = built.pipeline \/ built.pipeline = None
             /\ report.backend = built.backend \/ built.backend = None
             /\ report.active \in {None, built.option}
        /\ report.mode = "vlm" <=> built.pipeline = "IngestProgressVlmPipeline"
        /\ report.mode = "vlm" <=> report.kind = "vlm"

(* A run is its job's second face: it has the job's status whenever both   *)
(* are there, but for a job that a recovery got parsed before its call had *)
(* inserted the run, whose run says PARSER_QUEUED until the job is saved   *)
(* again.  A run without a job comes of a removal between the two inserts, *)
(* and a job of a document lacks its run only until it is inserted or      *)
(* after a removal.                                                        *)
RunMirrorsJob ==
  \A j \in Jobs :
    /\ runs[j] # NoRun /\ rows[j] # NoRow =>
         \/ runs[j].status = rows[j].status
         \/ j \in past.overtaken /\ runs[j].status = "PARSER_QUEUED"
    /\ runs[j] # NoRun /\ rows[j] = NoRow => j \in past.early
    /\ rows[j] # NoRow /\ runs[j] = NoRun =>
         rows[j].doc = NoDoc \/ call[j].at \in {"saved", "counted"} \/ j \in past.removed

(* The latest run of a document, the one its page and the status filter of *)
(* list_documents show, is the one made last, unless two re-runs or a      *)
(* re-run and an upload counted the runs at the same time: removals of     *)
(* runs in between may not bring an older one to the top.                  *)
LatestRunIsNewest ==
  \A c \in Contents \ past.clashed :
    \A k, l \in RunsOf(c) : k \in LatestRuns(c) => runs[l].made <= runs[k].made

(* The file of an upload that waits for its first parse is there, however  *)
(* long it waits and whatever cleanup or other jobs do, unless a job that  *)
(* read the same file was removed.                                         *)
InputSurvives ==
  \A j \in Jobs :
    LET waits == rows[j] # NoRow /\ rows[j].status \in {"PARSER_QUEUED", "RETRYABLE_FAILURE"}
    IN  (waits /\ Uploading(j) /\ ~(removal.at = "row" /\ removal.row.input = j)
           /\ \A k \in past.removed : call[k].input # j) => uploads[j] # "none"

(* The files of a document's directory are of one run once no job writes   *)
(* there: text, records and metadata belong together, an HTML file may be  *)
(* an earlier run's if the last one wrote none.  Two runs that wrote at    *)
(* the same time, a process killed or a write that failed in between may   *)
(* leave a mixture, until a run writes the directory alone.                *)
OutputsAreOneRuns ==
  \A c \in Contents :
    (dirs[c] # NoDir /\ c \notin past.mixed
       /\ \A k \in Jobs : MidWrite(k) => ContentOf(k) # c) =>
    LET owner == dirs[c].markdown
    IN  /\ owner # NoJob /\ dirs[c].rag = owner /\ dirs[c].metadata = owner
        /\ dirs[c].html \notin {NoJob, owner} => ~request[owner].html
=============================================================================
