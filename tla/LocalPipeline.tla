--------------------------- MODULE LocalPipeline ---------------------------
(***************************************************************************)
(* A job's way through the `local` queue backend: the API request that     *)
(* uploads it, ParserWorkerService with its process pool, the parse phase  *)
(* of JobParseCoordinator in a worker process, the progress heartbeat next *)
(* to it, the removal of jobs, the change of settings that replaces the    *)
(* service, and a restart.                                                 *)
(*                                                                         *)
(* They all read and write the job's row, whole and in separate database   *)
(* calls.  The service and its pool are created by the first request that  *)
(* needs them, and created anew when the effective settings have changed;  *)
(* the old pool is shut down without waiting and keeps working.            *)
(*                                                                         *)
(* Abstractions.  A row is its status, the failure count of its metadata   *)
(* and, while it says PARSING, the process id it names.  The document is   *)
(* left out; a conversion may always fail.  Dispatching, the subject of    *)
(* DispatchService, is one step here, to COMPLETED or FAILED, inside the   *)
(* process that parsed the document.  It may come as soon as the document  *)
(* is in the queue of the process: its threads run from the first notify() *)
(* on, and the model does not tell a first document, which waits for that, *)
(* from later ones.  A restart ends the API and its worker processes       *)
(* together, as stopping the container does.                               *)
(***************************************************************************)
EXTENDS Naturals, Sequences, FiniteSets

CONSTANTS
  Jobs,          \* the uploads, one request and one job each
  Visitors,      \* requests that need the service but are refused by validation
  Slots,         \* settings.parser_process_count worker processes of a pool
  MaxRetries,    \* settings.parser_max_retry_attempts
  MaxServices,   \* bound of the model: services created
  MaxChanges,    \* bound of the model: changes of the effective settings
  MaxRestarts,   \* bound of the model: restarts
  MaxRemovals,   \* bound of the model: jobs removed through the API
  MaxLateBeats,  \* bound of the model: heartbeats that outlive their conversion
  MaxFaults,     \* bound of the model: all of these together
  MaxFailures,   \* bound of the model: failed conversions of a job counted
  NoRow, NoJob, NoBeat, NoPid, NoRemoval

ASSUME PipelineBounds ==
  /\ MaxRetries \in Nat /\ MaxServices \in Nat /\ MaxChanges \in Nat
  /\ MaxRestarts \in Nat /\ MaxRemovals \in Nat /\ MaxLateBeats \in Nat /\ MaxFaults \in Nat
  /\ MaxFailures \in Nat /\ MaxFailures > MaxRetries

Requests == Jobs \union Visitors
Services == 1..MaxServices
Workers == Services \X Slots   \* worker processes; also their process ids

VARIABLES
  row,      \* the job rows; NoRow before the upload and after a removal
  request,  \* how far each upload request is, and the service it was given
  removal,  \* what DELETE read of the job's row: a process id or NoPid
  service,  \* _parser_worker_service, its key, and the settings in effect
  pool,     \* each service's executor and its _submitted
  worker,   \* what each worker process is doing
  handed,   \* the jobs in the dispatch queue of each worker process
  beat,     \* the progress report of each worker process that is under way
  failures, \* history: conversions of the job that failed, counted up to MaxFailures
  outcome,  \* history: the verdicts the job has got from parsing and dispatching
  faults    \* how often what the environment may do has happened

vars == <<row, request, removal, service, pool, worker, handed, beat,
          failures, outcome, faults>>

RowStatus == {"parser_queued", "parsing", "retrying", "parsed", "dispatch_queued",
              "completed", "failed", "retryable_failure"}
\* The statuses recover_active_jobs asks for (those of a row of this model).
Active == {"parser_queued", "parsing", "retrying", "parsed", "dispatch_queued",
           "retryable_failure"}
Row == [status : RowStatus, fails : Nat, pid : Workers \union {NoPid}]
Beat == [job : Jobs, copy : Row \union {NoRow}, late : BOOLEAN]

ASSUME PipelineIsFinite == IsFiniteSet(Jobs) /\ IsFiniteSet(Slots)
ASSUME AbsenceIsNone ==
  /\ NoRow \notin Row /\ NoJob \notin Jobs /\ NoPid \notin Workers
  /\ NoRemoval \notin Workers \union {NoPid} /\ NoBeat \notin Beat

RequestSteps == {"new", "settings", "recover", "resolved", "saved", "rejected", "answered", "aborted"}
WorkerSteps == {"free", "start", "convert", "failed", "failing", "converted", "parsed",
                "hand_over", "enqueued", "saved", "done", "retry", "dead"}

RequestState == [step : RequestSteps, key : 0..MaxChanges + 1, to : 0..MaxServices]
ServiceState == [current : 0..MaxServices, key : 0..MaxChanges + 1, made : 0..MaxServices,
                 settings : 1..MaxChanges + 1, boot : 0..MaxServices]
PoolState == [open : BOOLEAN, broken : BOOLEAN, submitted : SUBSET Jobs, pending : Seq(Jobs)]
WorkerState == [step : WorkerSteps, job : Jobs \union {NoJob}, fails : Nat]
FaultState == [changes : 0..MaxChanges, restarts : 0..MaxRestarts, removals : 0..MaxRemovals,
               kills : 0..MaxRemovals, late : 0..MaxLateBeats]

\* What parsing and dispatching may say of a job; "skipped": its row was gone.
Verdicts == {"completed", "refused", "skipped", "given_up", "put_off"}

LTypeOK ==
  /\ row \in [Jobs -> Row \union {NoRow}]
  /\ request \in [Requests -> RequestState]
  /\ removal \in [Jobs -> Workers \union {NoPid, NoRemoval}]
  /\ service \in ServiceState
  /\ pool \in [Services -> PoolState]
  /\ worker \in [Workers -> WorkerState]
  /\ handed \in [Workers -> SUBSET Jobs]
  /\ beat \in [Workers -> Beat \union {NoBeat}]
  /\ failures \in [Jobs -> 0..MaxFailures]
  /\ outcome \in [Jobs -> SUBSET Verdicts]
  /\ faults \in FaultState

NewPool == [open |-> TRUE, broken |-> FALSE, submitted |-> {}, pending |-> << >>]
Asking(step) == [step |-> step, key |-> 0, to |-> 0]
Free == [step |-> "free", job |-> NoJob, fails |-> 0]

Init ==
  /\ row = [j \in Jobs |-> NoRow]
  /\ request = [r \in Requests |-> Asking("new")]
  /\ removal = [j \in Jobs |-> NoRemoval]
  /\ service = [current |-> 0, key |-> 0, made |-> 0, settings |-> 1, boot |-> 0]
  /\ pool = [s \in Services |-> NewPool]
  /\ worker = [w \in Workers |-> Free]
  /\ handed = [w \in Workers |-> {}]
  /\ beat = [w \in Workers |-> NoBeat]
  /\ failures = [j \in Jobs |-> 0]
  /\ outcome = [j \in Jobs |-> {}]
  /\ faults = [changes |-> 0, restarts |-> 0, removals |-> 0, kills |-> 0, late |-> 0]

Save(j, status, fails, pid) ==
  row' = [row EXCEPT ![j] = [status |-> status, fails |-> fails, pid |-> pid]]
RowIs(j, s) == row[j] # NoRow /\ row[j].status = s

\* Faulty variants of definitions below, for seeing which property notices.
SubmittedAgain(p, j) == [p EXCEPT !.submitted = @ \union {j}, !.pending = Append(@, j)]
Resubmits(w) == TRUE
NeverResubmits(w) == FALSE
GivesUpEarly(n) == n + 1 < MaxRetries

-----------------------------------------------------------------------------
(* ParserWorkerService.                                                    *)

Accepts(p) == p.open /\ ~p.broken
Known(p, j) == j \in p.submitted
\* executor.submit raises, after submit_job has noted the id.
Raises(p, j) == ~Known(p, j) /\ ~Accepts(p)

SubmitJob(p, j) ==
  [p EXCEPT !.submitted = @ \union {j},
            !.pending = IF Known(p, j) \/ ~Accepts(p) THEN @ ELSE Append(@, j)]

ReleaseJob(p, j) == [p EXCEPT !.submitted = @ \ {j}]

MayFail == faults.changes + faults.restarts + faults.removals + faults.late < MaxFaults

ActiveJobs == {j \in Jobs : row[j] # NoRow /\ row[j].status \in Active}

\* The orders in which a set of jobs may be listed.
Listings(S) ==
  {f \in [1..Cardinality(S) -> S] : \A a, b \in DOMAIN f : f[a] = f[b] => a = b}

-----------------------------------------------------------------------------
(* A request that uploads a document: its dependencies, then enqueue_upload. *)

At(r, step) == request[r].step = step
Moves(r, step) == request' = [request EXCEPT ![r].step = step]
\* The same, when what the request knows is of no use any more.
Reaches(r, step) == request' = [request EXCEPT ![r] = Asking(step)]
PipelineUnchanged == UNCHANGED <<worker, handed, beat, failures, outcome>>

ReadSettings(r) ==
  /\ At(r, "new")
  /\ request' = [request EXCEPT ![r].step = "settings", ![r].key = service.settings]
  /\ PipelineUnchanged /\ UNCHANGED <<row, removal, service, pool, faults>>

UpToDate(r) == service.current # 0 /\ service.key = request[r].key

UseService(r) ==
  /\ At(r, "settings") /\ UpToDate(r)
  /\ request' = [request EXCEPT ![r] = [step |-> "resolved", key |-> 0, to |-> service.current]]
  /\ PipelineUnchanged /\ UNCHANGED <<row, removal, service, pool, faults>>

\* The new service is visible to other requests before its key is set, so
\* they replace it once more.
CreateService(r) ==
  /\ At(r, "settings") /\ ~UpToDate(r)
  /\ service.made < MaxServices
  /\ service' = [service EXCEPT !.current = service.made + 1, !.made = @ + 1]
  /\ pool' = IF service.current = 0 THEN pool
             ELSE [pool EXCEPT ![service.current].open = FALSE]
  /\ Moves(r, "recover")
  /\ PipelineUnchanged /\ UNCHANGED <<row, removal, faults>>

RecoverActiveJobs(r) ==
  LET s == service.current
      new == ActiveJobs \ pool[s].submitted
  IN /\ At(r, "recover") /\ s # 0 /\ Accepts(pool[s])
     /\ \E order \in Listings(new) :
          pool' = [pool EXCEPT ![s].submitted = @ \union new, ![s].pending = @ \o order]
     /\ outcome' = [j \in Jobs |-> IF j \in new THEN outcome[j] \ {"put_off"} ELSE outcome[j]]
     /\ service' = [service EXCEPT !.key = request[r].key]
     /\ request' = [request EXCEPT ![r] = [step |-> "resolved", key |-> 0, to |-> s]]
     /\ UNCHANGED <<row, removal, worker, handed, beat, failures, faults>>

SaveUpload(j) ==
  /\ At(j, "resolved")
  /\ Save(j, "parser_queued", 0, NoPid)
  /\ Moves(j, "saved")
  /\ PipelineUnchanged /\ UNCHANGED <<removal, service, pool, faults>>

SubmitUpload(j) ==
  LET s == request[j].to
  IN /\ At(j, "saved")
     /\ pool' = [pool EXCEPT ![s] = SubmitJob(@, j)]
     /\ Reaches(j, IF Raises(pool[s], j) THEN "rejected" ELSE "answered")
     /\ PipelineUnchanged /\ UNCHANGED <<row, removal, service, faults>>

SaveRejected(j) ==
  /\ At(j, "rejected")
  /\ Save(j, "retryable_failure", 0, NoPid)
  /\ outcome' = [outcome EXCEPT ![j] = @ \union {"put_off"}]
  /\ Reaches(j, "answered")
  /\ UNCHANGED <<removal, service, pool, worker, handed, beat, failures, faults>>

GetService(r) ==
  ReadSettings(r) \/ UseService(r) \/ CreateService(r) \/ RecoverActiveJobs(r)

Upload(j) == SaveUpload(j) \/ SubmitUpload(j) \/ SaveRejected(j)

-----------------------------------------------------------------------------
(* A worker process: run_parser_job, that is JobParseCoordinator.process_job. *)

Doing(w, step) == worker[w].step = step
Becomes(w, step) == worker' = [worker EXCEPT ![w].step = step]
Returns(w, step) == worker' = [worker EXCEPT ![w].step = step, ![w].fails = 0]
ServiceUnchanged == UNCHANGED <<request, removal, service, pool>>

\* The executor hands out its work first in, first out, also after shutdown.
Take(w) ==
  LET s == w[1]
      j == Head(pool[s].pending)
  IN /\ Doing(w, "free")
     /\ pool[s].pending # << >> /\ ~pool[s].broken
     /\ pool' = [pool EXCEPT ![s].pending = Tail(@)]
     /\ worker' = [worker EXCEPT ![w] =
          IF row[j] = NoRow THEN [step |-> "done", job |-> j, fails |-> 0]
          ELSE [step |-> "start", job |-> j, fails |-> row[j].fails]]
     /\ UNCHANGED <<row, request, removal, service, handed, beat, failures, outcome, faults>>

Start(w) ==
  /\ Doing(w, "start")
  /\ Save(worker[w].job, "parsing", worker[w].fails, w)
  /\ Becomes(w, "convert")
  /\ ServiceUnchanged /\ UNCHANGED <<handed, beat, failures, outcome, faults>>

\* Ends the heartbeat; stop() waits for its thread no longer than a second.
StopBeat(w) ==
  beat' = [beat EXCEPT ![w] = IF @ = NoBeat THEN @ ELSE [@ EXCEPT !.late = TRUE]]

ConvertFails(w) ==
  /\ Doing(w, "convert")
  /\ Becomes(w, "failed")
  /\ StopBeat(w)
  /\ failures' = [failures EXCEPT ![worker[w].job] = IF @ = MaxFailures THEN @ ELSE @ + 1]
  /\ ServiceUnchanged /\ UNCHANGED <<row, handed, outcome, faults>>

Reporting(w) == beat[w] # NoBeat /\ beat[w].copy # NoRow

\* After the conversion the parser reports twice more, under the lock of the
\* reporter: a heartbeat that was reading or saving the row has finished.
ConvertSucceeds(w) ==
  /\ Doing(w, "convert")
  /\ Reporting(w) => beat[w].late
  /\ Becomes(w, "converted")
  /\ StopBeat(w)
  /\ ServiceUnchanged /\ UNCHANGED <<row, handed, failures, outcome, faults>>

\* latest_job = get(job_id) or running_job
ReadLatest(w) ==
  LET j == worker[w].job
      latest == IF row[j] = NoRow THEN worker[w].fails ELSE row[j].fails
      next == IF Doing(w, "failed") THEN "failing" ELSE "parsed"
  IN /\ Doing(w, "failed") \/ Doing(w, "converted")
     /\ worker' = [worker EXCEPT ![w] = [step |-> next, job |-> j, fails |-> latest]]
     /\ ServiceUnchanged /\ UNCHANGED <<row, handed, beat, failures, outcome, faults>>

FailureCount(n) == n + 1
HasBudget(n) == FailureCount(n) <= MaxRetries

RetryOrFailJob(w) ==
  LET j == worker[w].job
      n == worker[w].fails
  IN /\ Doing(w, "failing")
     /\ \/ /\ HasBudget(n)
           /\ Save(j, "retrying", FailureCount(n), NoPid)
           /\ Returns(w, "retry")
           /\ UNCHANGED outcome
        \/ /\ ~HasBudget(n)
           /\ Save(j, "failed", FailureCount(n), NoPid)
           /\ Returns(w, "done")
           /\ outcome' = [outcome EXCEPT ![j] = @ \union {"given_up"}]
     /\ ServiceUnchanged /\ UNCHANGED <<handed, beat, failures, faults>>

SaveParsed(w) ==
  /\ Doing(w, "parsed")
  /\ Save(worker[w].job, "parsed", worker[w].fails, NoPid)
  /\ Becomes(w, "hand_over")
  /\ ServiceUnchanged /\ UNCHANGED <<handed, beat, failures, outcome, faults>>

\* enqueue_parse_result: the document is in the queue of the process, where
\* its dispatcher threads see it, before the row says so.
Enqueue(w) ==
  /\ Doing(w, "hand_over")
  /\ handed' = [handed EXCEPT ![w] = @ \union {worker[w].job}]
  /\ Becomes(w, "enqueued")
  /\ ServiceUnchanged /\ UNCHANGED <<row, beat, failures, outcome, faults>>

\* The queue refuses the document, and the coordinator saves that.
EnqueueFails(w) ==
  LET j == worker[w].job
  IN /\ Doing(w, "hand_over")
     /\ Save(j, "retryable_failure", worker[w].fails, NoPid)
     /\ outcome' = [outcome EXCEPT ![j] = @ \union {"put_off"}]
     /\ Returns(w, "done")
     /\ ServiceUnchanged /\ UNCHANGED <<handed, beat, failures, faults>>

\* The save inside enqueue_parse_result.
SaveQueued(w) ==
  /\ Doing(w, "enqueued")
  /\ Save(worker[w].job, "dispatch_queued", worker[w].fails, NoPid)
  /\ Becomes(w, "saved")
  /\ ServiceUnchanged /\ UNCHANGED <<handed, beat, failures, outcome, faults>>

\* The coordinator saves the row it was returned once more, then notifies.
SaveAgain(w) ==
  /\ Doing(w, "saved")
  /\ Save(worker[w].job, "dispatch_queued", worker[w].fails, NoPid)
  /\ Returns(w, "done")
  /\ ServiceUnchanged /\ UNCHANGED <<handed, beat, failures, outcome, faults>>

HandOver(w) == Enqueue(w) \/ EnqueueFails(w) \/ SaveQueued(w) \/ SaveAgain(w)

\* The dispatcher threads of the process settle the job, or skip it when its
\* row is gone.
Dispatch(w, j) ==
  /\ j \in handed[w]
  /\ handed' = [handed EXCEPT ![w] = @ \ {j}]
  /\ \E verdict \in {"completed", "refused", "skipped"} :
       /\ verdict = "skipped" <=> row[j] = NoRow
       /\ outcome' = [outcome EXCEPT ![j] = @ \union {verdict}]
       /\ CASE verdict = "completed" -> Save(j, "completed", row[j].fails, NoPid)
            [] verdict = "refused" -> Save(j, "failed", row[j].fails, NoPid)
            [] verdict = "skipped" -> UNCHANGED row
  /\ ServiceUnchanged /\ UNCHANGED <<worker, beat, failures, faults>>

\* JobProgressReporter.report, called by the heartbeat thread or between two
\* stages of the conversion: read the row, and save it back whole.
BeatStarts(w) ==
  /\ Doing(w, "convert")
  /\ beat[w] = NoBeat
  /\ beat' = [beat EXCEPT ![w] = [job |-> worker[w].job, copy |-> NoRow, late |-> FALSE]]
  /\ ServiceUnchanged /\ UNCHANGED <<row, worker, handed, failures, outcome, faults>>

BeatReads(w) ==
  /\ beat[w] # NoBeat /\ ~Reporting(w)
  /\ beat' = [beat EXCEPT ![w] =
       IF row[@.job] = NoRow THEN NoBeat ELSE [beat[w] EXCEPT !.copy = row[beat[w].job]]]
  /\ ServiceUnchanged /\ UNCHANGED <<row, worker, handed, failures, outcome, faults>>

BeatSaves(w) ==
  /\ Reporting(w)
  /\ row' = [row EXCEPT ![beat[w].job] = beat[w].copy]
  /\ beat' = [beat EXCEPT ![w] = NoBeat]
  /\ IF beat[w].late
       THEN MayFail /\ faults.late < MaxLateBeats /\ faults' = [faults EXCEPT !.late = @ + 1]
       ELSE UNCHANGED faults
  /\ ServiceUnchanged /\ UNCHANGED <<worker, handed, failures, outcome>>

Process(w) ==
  \/ Take(w) \/ Start(w) \/ ConvertFails(w) \/ ConvertSucceeds(w) \/ ReadLatest(w)
  \/ RetryOrFailJob(w) \/ SaveParsed(w) \/ HandOver(w)

Reporter(w) == BeatReads(w) \/ BeatSaves(w)

-----------------------------------------------------------------------------
(* The executor's management thread, which runs the callbacks.             *)

RetryRequested(w) == Doing(w, "retry")

HandleSubmittedJobResult(w) ==
  LET s == w[1]
      j == worker[w].job
      released == ReleaseJob(pool[s], j)
  IN /\ Doing(w, "done") \/ Doing(w, "retry")
     /\ ~pool[s].broken
     /\ pool' = [pool EXCEPT ![s] =
          IF RetryRequested(w) THEN SubmitJob(released, j) ELSE released]
     /\ worker' = [worker EXCEPT ![w] = Free]
     /\ UNCHANGED <<row, request, removal, service, handed, beat, failures, outcome, faults>>

\* A worker process is gone: the others are terminated, and every future that
\* is not done fails; its callback releases the id and leaves the row alone.
PoolBreaks(s) ==
  LET mine == {w \in Workers : w[1] = s}
      lost == {worker[w].job : w \in mine} \union {pool[s].pending[i] : i \in 1..Len(pool[s].pending)}
  IN /\ \E w \in mine : Doing(w, "dead")
     /\ ~pool[s].broken
     /\ pool' = [pool EXCEPT ![s].broken = TRUE, ![s].submitted = @ \ lost, ![s].pending = << >>]
     /\ worker' = [w \in Workers |-> IF w \in mine THEN [Free EXCEPT !.step = "dead"] ELSE worker[w]]
     /\ handed' = [w \in Workers |-> IF w \in mine THEN {} ELSE handed[w]]
     /\ beat' = [w \in Workers |-> IF w \in mine THEN NoBeat ELSE beat[w]]
     /\ UNCHANGED <<row, request, removal, service, failures, outcome, faults>>

\* A process of a pool that was shut down ends once the executor has nothing
\* left to do, and its daemon threads with it, whatever is in their queue.
ProcessEnds(w) ==
  LET s == w[1]
  IN /\ ~pool[s].open /\ ~pool[s].broken /\ pool[s].pending = << >>
     /\ \A v \in Workers : v[1] = s => Doing(v, "free")
     /\ handed[w] # {} \/ beat[w] # NoBeat
     /\ handed' = [handed EXCEPT ![w] = {}]
     /\ beat' = [beat EXCEPT ![w] = NoBeat]
     /\ ServiceUnchanged /\ UNCHANGED <<row, worker, failures, outcome, faults>>

-----------------------------------------------------------------------------
(* What operators do.                                                      *)

RemovalReads(j) ==
  /\ removal[j] = NoRemoval
  /\ row[j] # NoRow
  /\ faults.removals < MaxRemovals /\ MayFail
  /\ removal' = [removal EXCEPT ![j] = row[j].pid]
  /\ faults' = [faults EXCEPT !.removals = @ + 1]
  /\ PipelineUnchanged /\ UNCHANGED <<row, request, service, pool>>

\* The processes SIGTERM for process id p can reach.  A process of before the
\* restart is gone, but another one may have its id by now.
Running == {w \in Workers : service.boot < w[1] /\ w[1] <= service.made /\ ~Doing(w, "dead")}
\* Faulty: the signal goes to the whole process group.
HitGroup(p) == IF p = NoPid THEN {{}} ELSE {Running}
Hit(p) ==
  IF p = NoPid THEN {{}}
  ELSE IF p[1] > service.boot THEN {Running \intersect {p}}
  ELSE {{}} \union {{w} : w \in Running}

RemovalActs(j) ==
  /\ removal[j] # NoRemoval
  /\ \E hit \in Hit(removal[j]) :
       /\ worker' = [w \in Workers |-> IF w \in hit THEN [worker[w] EXCEPT !.step = "dead"] ELSE worker[w]]
       /\ handed' = [w \in Workers |-> IF w \in hit THEN {} ELSE handed[w]]
       /\ beat' = [w \in Workers |-> IF w \in hit THEN NoBeat ELSE beat[w]]
       /\ faults' = [faults EXCEPT !.kills = @ + Cardinality(hit)]
  /\ row' = [row EXCEPT ![j] = NoRow]
  /\ removal' = [removal EXCEPT ![j] = NoRemoval]
  /\ UNCHANGED <<request, service, pool, failures, outcome>>

ChangeSettings ==
  /\ faults.changes < MaxChanges /\ MayFail
  /\ service' = [service EXCEPT !.settings = @ + 1]
  /\ faults' = [faults EXCEPT !.changes = @ + 1]
  /\ PipelineUnchanged /\ UNCHANGED <<row, request, removal, pool>>

\* Rows and settings are in the database, everything else is gone.
Restart ==
  /\ faults.restarts < MaxRestarts /\ MayFail
  /\ faults' = [faults EXCEPT !.restarts = @ + 1]
  /\ service' = [service EXCEPT !.current = 0, !.key = 0, !.boot = service.made]
  /\ pool' = [s \in Services |-> IF s <= service.made THEN [NewPool EXCEPT !.open = FALSE] ELSE pool[s]]
  /\ worker' = [w \in Workers |-> Free]
  /\ handed' = [w \in Workers |-> {}]
  /\ beat' = [w \in Workers |-> NoBeat]
  /\ request' = [r \in Requests |-> IF At(r, "new") \/ At(r, "answered") THEN request[r]
                                ELSE Asking("aborted")]
  /\ removal' = [j \in Jobs |-> NoRemoval]
  /\ UNCHANGED <<row, failures, outcome>>

-----------------------------------------------------------------------------
Next ==
  \/ \E r \in Requests : GetService(r)
  \/ \E j \in Jobs : Upload(j) \/ RemovalReads(j) \/ RemovalActs(j)
  \/ \E w \in Workers :
       \/ Process(w) \/ HandleSubmittedJobResult(w)
       \/ ProcessEnds(w) \/ BeatStarts(w) \/ Reporter(w)
       \/ \E j \in Jobs : Dispatch(w, j)
  \/ \E s \in Services : PoolBreaks(s)
  \/ ChangeSettings \/ Restart

Spec == Init /\ [][Next]_vars

\* Requests, worker processes, their threads and the executor's management
\* thread are scheduled, and a conversion ends.  Nobody has to upload another
\* document, remove one, change the settings or restart.
FairSpec ==
  /\ Spec
  /\ \A r \in Requests : WF_vars(GetService(r))
  /\ \A j \in Jobs : WF_vars(Upload(j)) /\ WF_vars(RemovalActs(j))
  /\ \A w \in Workers :
       /\ WF_vars(Process(w)) /\ WF_vars(HandleSubmittedJobResult(w)) /\ WF_vars(Reporter(w))
       /\ \A j \in Jobs : WF_vars(Dispatch(w, j))
  /\ \A s \in Services : WF_vars(PoolBreaks(s))

-----------------------------------------------------------------------------
(* Properties                                                              *)

Places(s, j) ==
  Cardinality({i \in 1..Len(pool[s].pending) : pool[s].pending[i] = j})
  + Cardinality({w \in Workers : w[1] = s /\ worker[w].job = j})

\* One service has at most one unfinished future for a job, and knows it: no
\* mixture of uploads, retries, recoveries and failed pools makes two of its
\* worker processes parse the same job.
SubmittedOnce ==
  \A s \in Services, j \in Jobs :
    /\ Places(s, j) <= 1
    /\ Places(s, j) = 1 => j \in pool[s].submitted

\* The failure count of a row never exceeds the conversions that failed, and
\* a row says FAILED only when they exhausted the budget, or when the sinks
\* refused the document: late and lost updates of the row only grant more
\* attempts.
FailuresAreReal ==
  \A j \in Jobs :
    /\ row[j] # NoRow /\ failures[j] < MaxFailures => row[j].fails <= failures[j]
    /\ RowIs(j, "failed") /\ "refused" \notin outcome[j] => failures[j] > MaxRetries

\* Since the API was started, nothing reached into the pipeline from outside:
\* one service, no process killed, no heartbeat saved after its conversion.
Undisturbed ==
  /\ service.made <= service.boot + 1
  /\ faults.kills = 0 /\ faults.late = 0

Owned(j) ==
  \/ At(j, "saved") \/ At(j, "rejected")
  \/ \E s \in Services : \E i \in 1..Len(pool[s].pending) : pool[s].pending[i] = j
  \/ \E w \in Workers :
       \/ worker[w].job = j /\ ~Doing(w, "done")
       \/ j \in handed[w]

\* What the dispatcher threads were done with before the row said they had it.
Overtaken(j) ==
  /\ RowIs(j, "dispatch_queued")
  /\ outcome[j] \intersect {"completed", "refused", "skipped"} # {}

\* No job is stranded: a row in an unfinished status has somebody who will
\* take it further, through retries, removals that race the parser and, once
\* a service exists again, restarts.  Two exceptions: RETRYABLE_FAILURE waits
\* for the next service, and the coordinator's saves of DISPATCH_QUEUED may
\* come after the verdict of its own dispatcher, or after it found no row; that
\* row stays as it is, though nothing of the document is left to do.
NoJobIsStranded ==
  Undisturbed /\ service.key # 0 =>
    \A j \in ActiveJobs : RowIs(j, "retryable_failure") \/ Owned(j) \/ Overtaken(j)

\* A finished job is not taken up again, unless it is removed: only the saves
\* of the very hand-over that delivered it may write over COMPLETED.
FinishedStaysFinished ==
  [][\A j \in Jobs :
       RowIs(j, "completed") /\ Undisturbed /\ Undisturbed' =>
         \/ row'[j] = NoRow \/ row'[j].status = "completed"
         \/ /\ row'[j].status = "dispatch_queued"
            /\ \E w \in Workers : worker[w].job = j /\ worker[w].step \in {"enqueued", "saved"}]_vars

\* Every job that is unfinished while there is a service gets a verdict, also
\* when the settings change under it and two pools parse it side by side, or
\* when the service was started after a crash.  What this does not promise: a
\* verdict for jobs that were put off (RETRYABLE_FAILURE waits for the next
\* service to recover them), or after a removal, which may break a pool or be undone by a save,
\* or after a heartbeat that overwrote a newer row.
EveryUploadIsDecided ==
  \A j \in Jobs :
    j \in ActiveJobs /\ service.key # 0 ~>
      \/ outcome[j] # {} \/ j \notin ActiveJobs
      \/ service.current = 0 \/ faults.removals + faults.late > 0

-----------------------------------------------------------------------------
(* What the documentation says and the code does not do.                   *)

\* docs/embedding-handoff.md:46, "`parsing` | A parser worker is running
\* Docling or another parser.": a row that says
\* so is of a job some worker process has.
ParsingIsRunning ==
  \A j \in Jobs :
    RowIs(j, "parsing") => \E w \in Workers : worker[w].job = j
=============================================================================
