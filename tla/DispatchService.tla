-------------------------- MODULE DispatchService --------------------------
(***************************************************************************)
(* The hand-off of parsed documents to the output sinks inside one parser  *)
(* process: the tail of JobParseCoordinator.process_job, class             *)
(* ParsedDocumentDispatchService with its dispatcher threads, the queue    *)
(* between them (DispatchQueue), the job rows they all write, and the API  *)
(* deleting rows.                                                          *)
(*                                                                         *)
(* The repository saves whole rows: a writer reads the row, builds a new   *)
(* one and saves it in a later step, and no step excludes another writer.  *)
(* The process runs one parser job at a time (run_parser_job) next to      *)
(* dispatch_worker_count dispatcher threads, which are started before the  *)
(* job is parsed.                                                          *)
(*                                                                         *)
(* Abstractions.  A row is its status and whether outputs are recorded in  *)
(* it.  The sinks are history variables: which sinks have accepted the     *)
(* job's document as a whole.  The members of a batch are visited in any   *)
(* order.                                                                  *)
(***************************************************************************)
EXTENDS DispatchQueue

CONSTANTS
  SinkMode,      \* dispatch sink mode of each job
  MaxRetries,    \* settings.dispatch_max_retries
  WorkerCount,   \* settings.dispatch_worker_count
  FirstWorkers,  \* the threads started with the service
  MaxDbErrors,   \* bound of the model: failing repository calls
  MaxDeletes,    \* bound of the model: rows deleted by the API
  Deleted

SinkModes == {"local", "elastic", "local_and_elastic"}

ASSUME ServiceConstants ==
  /\ SinkMode \in [Jobs -> SinkModes]
  /\ MaxRetries \in Nat /\ MaxDbErrors \in Nat /\ MaxDeletes \in Nat
  /\ WorkerCount \in Nat \ {0}
  /\ FirstWorkers \subseteq Workers /\ Cardinality(FirstWorkers) = WorkerCount

\* To have read a row is told from having read none.
ASSUME NoReadIsFresh == NoId \notin [id : QueueIds, outputs : BOOLEAN]

VARIABLES
  row,        \* the job rows of the database; Deleted when there is none
  co,         \* how far the coordinator is with each job
  stage,      \* where each dispatcher thread is in _dispatch_batch
  todo,       \* the items its current loop has not handled yet
  seen,       \* the item whose row it has read and not saved back, with what it keeps of it
  delivered,  \* history: the sinks that accepted each job's document
  faults      \* how many rows were deleted and repository calls failed

svars == <<row, co, stage, todo, seen, delivered, faults>>
vars == <<qvars, svars>>

RowStatus == {"parsing", "parsed", "dispatch_queued", "dispatching", "stored_local",
              "completed", "failed", "retryable_failure"}
Row == [status : RowStatus, outputs : BOOLEAN]
CoStates == {"parsing", "parsed", "put", "rejected", "saved", "notify", "done"}
SaveStages == {"claim", "complete", "report_retry", "report_failed"}
Stages == SaveStages \union
          {"unborn", "loop", "check", "write", "submit", "decide", "requeue", "dead"}

STypeOK ==
  /\ QTypeOK
  /\ row \in [Jobs -> Row \union {Deleted}]
  /\ co \in [Jobs -> CoStates]
  /\ stage \in [Workers -> Stages]
  /\ todo \in [Workers -> SUBSET QueueIds]
  /\ seen \in [Workers -> [id : QueueIds, outputs : BOOLEAN] \union {NoId}]
  /\ delivered \in [Jobs -> SUBSET {"local", "elastic"}]
  /\ faults \in [deletes : 0..MaxDeletes, dbErrors : 0..MaxDbErrors]

SInit ==
  /\ QInit
  /\ row = [j \in Jobs |-> [status |-> "parsing", outputs |-> FALSE]]
  /\ co = [j \in Jobs |-> "parsing"]
  /\ stage = [w \in Workers |-> IF w \in FirstWorkers THEN "loop" ELSE "unborn"]
  /\ todo = [w \in Workers |-> {}]
  /\ seen = [w \in Workers |-> NoId]
  /\ delivered = [j \in Jobs |-> {}]
  /\ faults = [deletes |-> 0, dbErrors |-> 0]

\* The row status each saving loop of _dispatch_batch writes.
StatusMap(w, claim, write, complete, retry, failed) ==
  CASE stage[w] = "claim" -> claim
    [] stage[w] = "write" -> write
    [] stage[w] = "complete" -> complete
    [] stage[w] = "report_retry" -> retry
    [] OTHER -> failed

\* Faulty variants of definitions below, for seeing which property notices.
SendsElasticOnly(q) == SinkMode[jobOf[q]] = "elastic"
RetriesLess(w) == \E q \in batch[w] : attempts[q] < MaxRetries
RetriesAlways(w) == TRUE
StatusOfTheItem(w) == StatusMap(w, "dispatching", "stored_local", "completed", "queued", "failed")
StatusInverted(w) ==
  StatusMap(w, "dispatching", "stored_local", "completed", "failed", "dispatch_queued")
StatusAsStored(w) ==
  StatusMap(w, "dispatching", "stored_local", "stored_local", "dispatch_queued", "failed")

StoresLocal(q) == SinkMode[jobOf[q]] \in {"local", "local_and_elastic"}
SendsElastic(q) == SinkMode[jobOf[q]] \in {"elastic", "local_and_elastic"}
LocalItems(w) == {q \in batch[w] : StoresLocal(q)}
ElasticItems(w) == {q \in batch[w] : SendsElastic(q)}
RequiredSinks(j) ==
  CASE SinkMode[j] = "local" -> {"local"}
    [] SinkMode[j] = "elastic" -> {"elastic"}
    [] OTHER -> {"local", "elastic"}

Save(j, s, outs) == row' = [row EXCEPT ![j] = [status |-> s, outputs |-> outs]]

-----------------------------------------------------------------------------
(* The coordinator, from the end of a successful parse.  It saves the row  *)
(* it built from its own copy, whatever the row has become.                *)

CoGoes(j, from, to) == co[j] = from /\ co' = [co EXCEPT ![j] = to]
OneJobAtATime(j) == \A k \in Jobs \ {j} : co[k] \in {"parsing", "done"}
ThreadsUnchanged == UNCHANGED <<stage, todo, seen>>

SaveParsed(j) ==
  /\ OneJobAtATime(j)
  /\ CoGoes(j, "parsing", "parsed")
  /\ Save(j, "parsed", FALSE)
  /\ ThreadsUnchanged /\ UNCHANGED <<qvars, delivered, faults>>

HandOver(j) ==
  /\ CoGoes(j, "parsed", "put")
  /\ EnqueueNew(j)
  /\ ThreadsUnchanged /\ UNCHANGED <<row, delivered, faults>>

\* The payload is larger than max_payload_bytes, or the queue is full.
HandOverRejected(j) ==
  /\ CoGoes(j, "parsed", "rejected")
  /\ ThreadsUnchanged /\ UNCHANGED <<qvars, row, delivered, faults>>

\* The first save, by the service: the item can be dispatched already.
SaveQueued(j) ==
  /\ CoGoes(j, "put", "saved")
  /\ Save(j, "dispatch_queued", FALSE)
  /\ ThreadsUnchanged /\ UNCHANGED <<qvars, delivered, faults>>

\* The second save, by the coordinator, of the job the service returned.
SaveReturned(j) ==
  /\ \/ CoGoes(j, "saved", "notify") /\ Save(j, "dispatch_queued", FALSE)
     \/ CoGoes(j, "rejected", "notify") /\ Save(j, "retryable_failure", FALSE)
  /\ ThreadsUnchanged /\ UNCHANGED <<qvars, delivered, faults>>

\* notify() calls start(), which replaces the threads that died.
Alive == {w \in Workers : stage[w] \notin {"unborn", "dead"}}

Notify(j) ==
  /\ CoGoes(j, "notify", "done")
  /\ \E fresh \in SUBSET {w \in Workers : stage[w] = "unborn"} :
       /\ Cardinality(fresh) = WorkerCount - Cardinality(Alive)
       /\ stage' = [w \in Workers |-> IF w \in fresh THEN "loop" ELSE stage[w]]
  /\ UNCHANGED <<qvars, row, todo, seen, delivered, faults>>

Coordinator(j) ==
  \/ SaveParsed(j) \/ HandOver(j) \/ HandOverRejected(j)
  \/ SaveQueued(j) \/ SaveReturned(j) \/ Notify(j)

-----------------------------------------------------------------------------
(* The API deletes a row.  It runs in another process, whose own queue     *)
(* never held the item, so this queue is not told.                         *)

DeleteRow(j) ==
  /\ row[j] # Deleted
  /\ faults.deletes < MaxDeletes
  /\ row' = [row EXCEPT ![j] = Deleted]
  /\ faults' = [faults EXCEPT !.deletes = @ + 1]
  /\ ThreadsUnchanged /\ UNCHANGED <<qvars, co, delivered>>

-----------------------------------------------------------------------------
(* A dispatcher thread.  Goes(w, s, ids) starts the loop of stage s over   *)
(* the items ids; Handled(w, q) ends the iteration for q.                  *)

Goes(w, s, ids) ==
  stage' = [stage EXCEPT ![w] = s] /\ todo' = [todo EXCEPT ![w] = ids]
Handled(w, q) == todo' = [todo EXCEPT ![w] = @ \ {q}]

\* One turn of the loop of dequeue_batch.
TakeBatch(w) ==
  /\ stage[w] = "loop"
  /\ Dequeue(w)
  /\ IF pc'[w] = "busy"
       THEN Goes(w, "check", {})
       ELSE UNCHANGED <<stage, todo>>
  /\ UNCHANGED <<row, co, seen, delivered, faults>>

\* The items whose job row is gone are completed without being delivered.
\* (The code looks the rows up one by one before it marks the items; no other
\* thread can tell, since nobody else touches the items of this batch.)
CheckRows(w) ==
  LET gone == {q \in batch[w] : row[jobOf[q]] = Deleted}
  IN /\ stage[w] = "check"
     /\ IF gone = {} THEN UNCHANGED qvars ELSE MarkCompleted(w, gone)
     /\ IF gone = batch[w] THEN Goes(w, "loop", {}) ELSE Goes(w, "claim", batch[w] \ gone)
     /\ UNCHANGED <<row, co, seen, delivered, faults>>

\* _save_item_state: get the row, return if there is none, save it back
\* whole.  The save is an upsert, so it brings back a row deleted meanwhile.
StageStatus(w) ==
  StatusMap(w, "dispatching", "stored_local", "completed", "dispatch_queued", "failed")

SetsOutputs(w, q) == stage[w] \in {"write", "complete"} /\ StoresLocal(q)

Get(w, q) ==
  IF row[jobOf[q]] = Deleted
    THEN Handled(w, q) /\ UNCHANGED seen
    ELSE seen' = [seen EXCEPT ![w] = [id |-> q, outputs |-> row[jobOf[q]].outputs]] /\ UNCHANGED todo

ReadRow(w) ==
  /\ stage[w] \in SaveStages /\ seen[w] = NoId
  /\ \E q \in todo[w] : Get(w, q)
  /\ UNCHANGED <<qvars, row, co, stage, delivered, faults>>

SaveRow(w) ==
  /\ seen[w] # NoId
  /\ LET q == seen[w].id
     IN /\ Save(jobOf[q], StageStatus(w), seen[w].outputs \/ SetsOutputs(w, q))
        /\ Handled(w, q)
  /\ seen' = [seen EXCEPT ![w] = NoId]
  /\ UNCHANGED <<qvars, co, stage, delivered, faults>>

LoopDone(w, s) == stage[w] = s /\ todo[w] = {} /\ seen[w] = NoId
QueueAndRowsUnchanged == UNCHANGED <<qvars, row, co, seen, faults>>

ClaimDone(w) ==
  /\ LoopDone(w, "claim")
  /\ Goes(w, "write", LocalItems(w))
  /\ QueueAndRowsUnchanged /\ UNCHANGED delivered

\* _store_local: write the files of an item, then record it (SaveRow).
WriteFiles(w) ==
  /\ stage[w] = "write" /\ seen[w] = NoId
  /\ \E q \in todo[w] :
       /\ delivered' = [delivered EXCEPT ![jobOf[q]] = @ \union {"local"}]
       /\ Get(w, q)
  /\ UNCHANGED <<qvars, row, co, stage, faults>>

WriteDone(w) ==
  /\ LoopDone(w, "write")
  /\ IF ElasticItems(w) = {} THEN Goes(w, "complete", batch[w]) ELSE Goes(w, "submit", {})
  /\ QueueAndRowsUnchanged /\ UNCHANGED delivered

\* One bulk request for all Elastic items of the batch.
Submit(w) ==
  /\ stage[w] = "submit"
  /\ Goes(w, "complete", batch[w])
  /\ delivered' = [j \in Jobs |-> IF \E q \in ElasticItems(w) : jobOf[q] = j
                                  THEN delivered[j] \union {"elastic"} ELSE delivered[j]]
  /\ QueueAndRowsUnchanged

\* Writing files or the bulk request raised; the handler takes over.
SinkFails(w) ==
  /\ \/ stage[w] = "write" /\ todo[w] # {} /\ seen[w] = NoId
     \/ stage[w] = "submit"
  /\ Goes(w, "decide", {})
  /\ QueueAndRowsUnchanged /\ UNCHANGED delivered

Completed(w) ==
  /\ LoopDone(w, "complete")
  /\ MarkCompleted(w, batch[w])
  /\ Goes(w, "loop", {})
  /\ UNCHANGED <<row, co, seen, delivered, faults>>

\* One decision for the whole batch: it is retried while any member of it
\* has budget left.
Retries(w) == \E q \in batch[w] : attempts[q] <= MaxRetries

GiveUp(w) ==
  /\ stage[w] = "decide" /\ ~Retries(w)
  /\ MarkBatchFailed(w)
  /\ Goes(w, "report_failed", batch[w])
  /\ UNCHANGED <<row, co, seen, delivered, faults>>

Retry(w) ==
  /\ stage[w] = "decide" /\ Retries(w)
  /\ RequeueAcquire(w)
  /\ Goes(w, "requeue", batch[w])
  /\ UNCHANGED <<row, co, seen, delivered, faults>>

GiveBack(w) ==
  /\ stage[w] = "requeue"
  /\ \/ RequeueItem(w) /\ UNCHANGED <<stage, todo>>
     \/ RequeueReturn(w) /\ Goes(w, "report_retry", todo[w])
  /\ UNCHANGED <<row, co, seen, delivered, faults>>

Reported(w) ==
  /\ LoopDone(w, "report_retry") \/ LoopDone(w, "report_failed")
  /\ Goes(w, "loop", {})
  /\ QueueAndRowsUnchanged /\ UNCHANGED delivered

\* A repository call raises.  While storing locally the handler of the sinks
\* catches it; anywhere else it leaves _run_loop and the thread is gone.
InCall(w) == stage[w] = "check" \/ (stage[w] \in SaveStages /\ todo[w] # {})

DbError(w) ==
  /\ faults.dbErrors < MaxDbErrors
  /\ \/ InCall(w) /\ Goes(w, "dead", {})
     \/ stage[w] = "write" /\ seen[w] # NoId /\ Goes(w, "decide", {})
  /\ faults' = [faults EXCEPT !.dbErrors = @ + 1]
  /\ seen' = [seen EXCEPT ![w] = NoId]
  /\ UNCHANGED <<qvars, row, co, delivered>>

\* One of the coordinator's own saves raises: it gives the job up as it is.
CoordinatorDbError(j) ==
  /\ faults.dbErrors < MaxDbErrors
  /\ co[j] \in {"parsing", "put", "saved", "rejected"} /\ OneJobAtATime(j)
  /\ co' = [co EXCEPT ![j] = "done"]
  /\ faults' = [faults EXCEPT !.dbErrors = @ + 1]
  /\ ThreadsUnchanged /\ UNCHANGED <<qvars, row, delivered>>

-----------------------------------------------------------------------------
Thread(w) ==
  \/ TakeBatch(w) \/ CheckRows(w)
  \/ ReadRow(w) \/ SaveRow(w) \/ ClaimDone(w)
  \/ WriteFiles(w) \/ WriteDone(w) \/ Submit(w) \/ SinkFails(w)
  \/ Completed(w) \/ GiveUp(w) \/ Retry(w) \/ GiveBack(w) \/ Reported(w)

SNext ==
  \/ \E j \in Jobs : Coordinator(j) \/ DeleteRow(j) \/ CoordinatorDbError(j)
  \/ \E w \in Workers : Thread(w) \/ DbError(w)

Spec == SInit /\ [][SNext]_vars

\* The coordinator is an ordinary running thread.  A dispatcher thread polls
\* for ever; it waits for the queue's lock only while others are inside a
\* queue operation, and between two polls of an empty queue they sleep for
\* dispatch_idle_interval_seconds, so it gets the lock when it keeps asking.
\* Deletions and database errors are never required to happen.
FairSpec ==
  /\ Spec
  /\ \A j \in Jobs : WF_vars(Coordinator(j))
  /\ \A w \in Workers : SF_vars(Thread(w))

-----------------------------------------------------------------------------
(* Properties                                                              *)

RowIs(j, s) == row[j] # Deleted /\ row[j].status = s

\* A row says COMPLETED only when every sink its mode asks for has accepted
\* the document, and then it names the outputs that were stored: no mixture
\* of saves by the coordinator, the threads and the API completes a row early
\* or completes it without its outputs.
CompletedMeansDelivered ==
  \A j \in Jobs :
    RowIs(j, "completed") =>
      /\ RequiredSinks(j) \subseteq delivered[j]
      /\ "local" \in RequiredSinks(j) => row[j].outputs

\* A row says FAILED only when the queue has given the item up and the item
\* has used its first attempt and all its retries.
FailedMeansBudgetSpent ==
  \A j \in Jobs :
    RowIs(j, "failed") =>
      \E q \in QueueIds :
        jobOf[q] = j /\ status[q] = "failed" /\ attempts[q] > MaxRetries

\* A retry of a batch spends budget of at least one of its members, so even
\* an item carried along by younger ones is not attempted without bound.
RetriesAreBounded ==
  \A q \in QueueIds :
    attempts[q] <= 1 + MaxRetries * Cardinality({r \in QueueIds : jobOf[r] # NoJob})

\* No row is left half dispatched: as long as the repository does not fail, a
\* row that says DISPATCHING or STORED_LOCAL is in the hands of a thread that
\* has still to save its next status, whatever late saves came in between.
DispatchingIsWorkedOn ==
  \A j \in Jobs :
    (RowIs(j, "dispatching") \/ RowIs(j, "stored_local")) /\ faults.dbErrors = 0 =>
      \E w \in Workers : \E q \in batch[w] \union todo[w] : jobOf[q] = j

\* What a completed row can become: another save of the same kind, nothing,
\* or DISPATCH_QUEUED by a save that was decided on before the completion.  It
\* is never dispatched again and never turns into a failure.
CompletedRowIsNotRedone ==
  [][\A j \in Jobs : RowIs(j, "completed") =>
       \/ row'[j] = Deleted
       \/ row'[j].status \in {"completed", "dispatch_queued"}]_vars

\* Every item handed over reaches a verdict in the queue, retries included,
\* unless the thread that holds it died of a repository error, or all the
\* threads did: only the next job's notify() starts new ones; or a thread that
\* gives a failed batch back waits for room in a full FIFO with the lock taken.
Lost(q) == \E w \in Workers : stage[w] = "dead" /\ q \in batch[w]

HandedOverIsSettled ==
  \A q \in QueueIds :
    status[q] = "queued" ~> status[q] \in Terminal \/ Lost(q) \/ Alive = {} \/ PutBlocked

-----------------------------------------------------------------------------
(* What the documentation says and the code does not do.                   *)

\* docs/embedding-handoff.md:48, "`dispatch_queued` | The full parsed result
\* is waiting for the dispatcher.": while nobody is about to save the row, a
\* row that says so has an item the dispatcher has not settled.
AboutToSave(j) ==
  \/ co[j] \notin {"notify", "done"}
  \/ \E w \in Workers : \E q \in todo[w] : jobOf[q] = j

DispatchQueuedIsWaiting ==
  \A j \in Jobs :
    RowIs(j, "dispatch_queued") /\ ~AboutToSave(j) =>
      \E q \in QueueIds : jobOf[q] = j /\ status[q] \in {"queued", "dispatching"}

\* docs/embedding-handoff.md:53-54, "`completed` | All configured sinks
\* finished successfully." and "`failed` | Parsing, local storage, or Elastic
\* dispatch failed after retry handling.": a job all of whose sinks accepted
\* its document is not reported as failed.
DeliveredIsNotFailed ==
  \A j \in Jobs : RowIs(j, "failed") => ~(RequiredSinks(j) \subseteq delivered[j])
=============================================================================
