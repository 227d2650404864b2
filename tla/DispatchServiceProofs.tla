----------------------- MODULE DispatchServiceProofs ------------------------
(***************************************************************************)
(* Theorems about DispatchService, for any jobs, threads, sink modes and   *)
(* retries, on top of the invariant of the queue it extends.               *)
(***************************************************************************)
EXTENDS DispatchService, DispatchQueueProofs

(* Where a dispatcher thread is in the queue's operations, and what it has *)
(* in hand there.                                                          *)
ThreadIsSound(w) ==
  /\ stage[w] \in {"unborn", "report_retry", "report_failed"} => pc[w] = "idle"
  /\ stage[w] = "loop" => pc[w] \in {"idle", "dequeue"}
  /\ stage[w] \in {"check", "claim", "write", "submit", "complete", "decide"} => pc[w] = "busy"
  /\ stage[w] = "requeue" => pc[w] = "requeue"
  /\ stage[w] = "check" => batch[w] # {}
  /\ stage[w] \in {"claim", "write", "complete"} => todo[w] \subseteq batch[w]
  /\ stage[w] = "requeue" => batch[w] \subseteq todo[w]
  /\ stage[w] \in {"unborn", "loop", "check", "submit", "decide", "dead"} => todo[w] = {}
  /\ seen[w] # NoId => stage[w] \in SaveStages \union {"write"} /\ seen[w].id \in todo[w]
  /\ \A q \in todo[w] : jobOf[q] # NoJob

(* A job has one item, made when its coordinator put it.                   *)
OneItem ==
  /\ \A q \in QueueIds : jobOf[q] # NoJob => jobIndex[jobOf[q]] = q
  /\ \A j \in Jobs : co[j] \in {"parsing", "parsed", "rejected"} => jobIndex[j] = NoId

(* The inductive invariant of who is where.                                *)
PlaceInv ==
  /\ QInv /\ STypeOK /\ OneItem
  /\ \A w \in Workers : ThreadIsSound(w)

(* What a thread reports as failed has used its budget.                    *)
BudgetInv ==
  /\ \A w \in Workers : stage[w] = "report_failed" =>
       \A q \in todo[w] : status[q] = "failed" /\ attempts[q] > MaxRetries
  /\ FailedMeansBudgetSpent

(* What the members of a batch have had delivered when the thread gets to  *)
(* a stage.                                                                *)
DeliveryInv ==
  /\ \A w \in Workers :
       /\ stage[w] = "write" =>
            /\ \A q \in LocalItems(w) \ todo[w] : "local" \in delivered[jobOf[q]]
            /\ seen[w] # NoId => "local" \in delivered[jobOf[seen[w].id]]
       /\ stage[w] = "submit" => \A q \in LocalItems(w) : "local" \in delivered[jobOf[q]]
       /\ stage[w] = "complete" =>
            \A q \in batch[w] : RequiredSinks(jobOf[q]) \subseteq delivered[jobOf[q]]
  /\ CompletedMeansDelivered

(* A thread that has still to save the row of an item.                     *)
Owes(w, q) ==
  \/ stage[w] \in {"claim", "write", "submit", "decide"} /\ q \in batch[w]
  \/ stage[w] \in {"complete", "requeue", "report_retry", "report_failed"} /\ q \in todo[w]
HalfWay(j) == RowIs(j, "dispatching") \/ RowIs(j, "stored_local")
OwingInv ==
  faults.dbErrors = 0 =>
    \A j \in Jobs : HalfWay(j) => \E w \in Workers, q \in QueueIds : Owes(w, q) /\ jobOf[q] = j

(* The item of a completed row is completed, or about to be.               *)
Finished(q) ==
  \/ status[q] = "completed"
  \/ \E w \in Workers : stage[w] \in {"complete", "dead"} /\ q \in batch[w]
FinishInv ==
  \A j \in Jobs : RowIs(j, "completed") => jobIndex[j] # NoId /\ Finished(jobIndex[j])

(* Retries that were charged: an item has been given back once for each    *)
(* attempt but the one under way, and each round was charged to a member   *)
(* of its batch that had budget left.                                      *)
GivenBack(q) ==
  status[q] = "queued" \/ \E w \in Workers : stage[w] = "requeue" /\ q \in batch[w]
Rounds(q) == IF GivenBack(q) THEN attempts[q] ELSE attempts[q] - 1
Used == {q \in QueueIds : jobOf[q] # NoJob}
Charged == {c \in Used \X (1..MaxRetries) : c[2] <= Rounds(c[1])}
ChargeInv ==
  /\ \A q \in QueueIds : Rounds(q) <= Cardinality(Charged)
  /\ \A q \in QueueIds : jobOf[q] = NoJob => attempts[q] = 0
  /\ \A w \in Workers : \A q \in batch[w] : attempts[q] > 0

-----------------------------------------------------------------------------
(* The queue underneath                                                    *)

(* Ids keep their jobs, jobs their items, and verdicts and their attempts  *)
(* are final: nothing of this process removes an item.                     *)
Grows ==
  /\ \A q \in QueueIds : jobOf[q] # NoJob => jobOf'[q] = jobOf[q]
  /\ \A j \in Jobs : jobIndex[j] # NoId => jobIndex'[j] = jobIndex[j]
  /\ \A q \in QueueIds : status[q] \in Terminal =>
       status'[q] = status[q] /\ attempts'[q] = attempts[q]

(* What is nobody else's business in a step of a thread.                   *)
Alone(w) ==
  /\ \A v \in Workers \ {w} :
       /\ stage'[v] = stage[v] /\ todo'[v] = todo[v] /\ seen'[v] = seen[v]
       /\ batch'[v] = batch[v] /\ pc'[v] = pc[v]
  /\ UNCHANGED <<jobOf, jobIndex, co>>

(* An item in a batch is dispatching: it has not been removed.             *)
LEMMA HeldIsDispatching ==
  ASSUME PlaceInv, NEW w \in Workers, NEW q \in batch[w]
  PROVE  q \in QueueIds /\ status[q] = "dispatching" /\ jobOf[q] \in Jobs
<1>1. q \in QueueIds /\ status[q] \in {"dispatching", "absent"} /\ jobOf[q] # NoJob
  BY DEF PlaceInv, QInv, BatchContents, QTypeOK
<1>2. jobOf[q] \in Jobs /\ jobIndex[jobOf[q]] = q
  BY <1>1 DEF PlaceInv, OneItem, QInv, QTypeOK
<1>3. status[q] # "absent"
  BY <1>1, <1>2, SentinelsAreFresh DEF PlaceInv, QInv, IndexIsLive
<1> QED BY <1>1, <1>2, <1>3

(* A queue operation of a thread keeps the queue's invariant and what      *)
(* grows.                                                                  *)
LEMMA QueueSteps ==
  ASSUME PlaceInv, NEW w \in Workers,
         \/ UNCHANGED qvars
         \/ Dequeue(w)
         \/ \E marked \in SUBSET batch[w] : MarkCompleted(w, marked)
         \/ MarkBatchFailed(w) \/ RequeueAcquire(w) \/ RequeueItem(w) \/ RequeueReturn(w)
  PROVE  QInv' /\ Grows /\ UNCHANGED <<jobOf, jobIndex>>
         /\ \A v \in Workers \ {w} : batch'[v] = batch[v] /\ pc'[v] = pc[v]
<1>1. QInv /\ QTypeOK
  BY DEF PlaceInv, QInv
<1>2. CASE UNCHANGED qvars
  <2>1. QInv'
    BY <1>1, <1>2, QInvStep
  <2> QED BY <1>2, <2>1 DEF qvars, Grows
<1>3. CASE DequeueTake(w)
  <2>1. status[Head(fifo)] = "queued" /\ Head(fifo) \in QueueIds
    BY <1>1, <1>3, PopFacts DEF DequeueTake, Takes
  <2>2. QInv'
    BY <1>1, <1>3, DequeueTakeStep
  <2>3. \A q \in QueueIds : status[q] \in Terminal => q # Head(fifo)
    BY <2>1 DEF Terminal
  <2>4. /\ status' = [status EXCEPT ![Head(fifo)] = "dispatching"]
        /\ attempts' = [attempts EXCEPT ![Head(fifo)] = @ + 1]
        /\ batch' = [batch EXCEPT ![w] = @ \union {Head(fifo)}]
        /\ UNCHANGED <<jobOf, jobIndex, pc>>
    BY <1>3 DEF DequeueTake
  <2> QED BY <1>1, <2>2, <2>3, <2>4 DEF Grows, QTypeOK
<1>4. CASE DequeueAcquire(w) \/ DequeueSkip(w) \/ DequeueReturn(w)
  <2>1. QInv'
    BY <1>1, <1>4, DequeueAcquireStep, DequeueSkipStep, DequeueReturnStep
  <2>2. UNCHANGED <<status, attempts, jobOf, jobIndex, batch>>
    BY <1>4 DEF DequeueAcquire, DequeueSkip, DequeueReturn
  <2>3. \A v \in Workers \ {w} : pc'[v] = pc[v]
    BY <1>1, <1>4 DEF DequeueAcquire, DequeueSkip, DequeueReturn, QTypeOK
  <2> QED BY <2>1, <2>2, <2>3 DEF Grows
<1>5. ASSUME NEW marked \in SUBSET batch[w], MarkCompleted(w, marked)
      PROVE  QInv' /\ Grows /\ UNCHANGED <<jobOf, jobIndex>>
             /\ \A v \in Workers \ {w} : batch'[v] = batch[v] /\ pc'[v] = pc[v]
  <2>1. QInv'
    BY <1>1, <1>5, MarkCompletedStep
  <2>2. \A q \in marked : status[q] \notin Terminal
    BY HeldIsDispatching DEF Terminal
  <2>3. status' = WithStatus(marked, "completed") /\ UNCHANGED <<attempts, jobOf, jobIndex>>
    BY <1>5 DEF MarkCompleted
  <2>4. \A v \in Workers \ {w} : batch'[v] = batch[v] /\ pc'[v] = pc[v]
    BY <1>1, <1>5 DEF MarkCompleted, QTypeOK
  <2> QED BY <2>1, <2>2, <2>3, <2>4 DEF Grows, WithStatus
<1>6. CASE MarkBatchFailed(w)
  <2>1. QInv'
    BY <1>1, <1>6, MarkBatchFailedStep
  <2>2. \A q \in batch[w] : status[q] \notin Terminal
    BY HeldIsDispatching DEF Terminal
  <2>3. status' = WithStatus(batch[w], "failed") /\ UNCHANGED <<attempts, jobOf, jobIndex>>
    BY <1>6 DEF MarkBatchFailed
  <2>4. \A v \in Workers \ {w} : batch'[v] = batch[v] /\ pc'[v] = pc[v]
    BY <1>1, <1>6 DEF MarkBatchFailed, QTypeOK
  <2> QED BY <2>1, <2>2, <2>3, <2>4 DEF Grows, WithStatus
<1>7. CASE RequeueAcquire(w) \/ RequeueReturn(w)
  <2>1. QInv'
    BY <1>1, <1>7, RequeueAcquireStep, RequeueReturnStep
  <2>2. UNCHANGED <<status, attempts, jobOf, jobIndex, batch>>
    BY <1>7 DEF RequeueAcquire, RequeueReturn
  <2>3. \A v \in Workers \ {w} : pc'[v] = pc[v]
    BY <1>1, <1>7 DEF RequeueAcquire, RequeueReturn, QTypeOK
  <2> QED BY <2>1, <2>2, <2>3 DEF Grows
<1>8. CASE RequeueItem(w)
  <2>1. QInv'
    BY <1>1, <1>8, RequeueItemStep
  <2>2. PICK q \in batch[w] : /\ status' = [status EXCEPT ![q] = "queued"]
                              /\ batch' = [batch EXCEPT ![w] = @ \ {q}]
    BY <1>8 DEF RequeueItem
  <2>3. status[q] \notin Terminal
    BY HeldIsDispatching DEF Terminal
  <2>4. UNCHANGED <<attempts, jobOf, jobIndex, pc>>
    BY <1>8 DEF RequeueItem
  <2> QED BY <1>1, <2>1, <2>2, <2>3, <2>4 DEF Grows, QTypeOK
<1> QED BY <1>2, <1>3, <1>4, <1>5, <1>6, <1>7, <1>8 DEF Dequeue

(* A step of a thread does at most one such operation.                     *)
LEMMA ThreadOperation ==
  ASSUME NEW w \in Workers, Thread(w) \/ DbError(w)
  PROVE  \/ UNCHANGED qvars
         \/ Dequeue(w)
         \/ \E marked \in SUBSET batch[w] : MarkCompleted(w, marked)
         \/ MarkBatchFailed(w) \/ RequeueAcquire(w) \/ RequeueItem(w) \/ RequeueReturn(w)
<1>1. CASE CheckRows(w)
  <2> DEFINE gone == {q \in batch[w] : row[jobOf[q]] = Deleted}
  <2>1. UNCHANGED qvars \/ MarkCompleted(w, gone)
    BY <1>1 DEF CheckRows
  <2>2. gone \in SUBSET batch[w]
    OBVIOUS
  <2> QED BY <2>1, <2>2
<1>2. CASE Completed(w)
  <2>1. MarkCompleted(w, batch[w]) /\ batch[w] \in SUBSET batch[w]
    BY <1>2 DEF Completed
  <2> QED BY <2>1
<1>3. CASE ~(CheckRows(w) \/ Completed(w))
  BY <1>3 DEF Thread, DbError, TakeBatch, ReadRow, SaveRow, ClaimDone, WriteFiles, WriteDone,
     Submit, SinkFails, GiveUp, Retry, GiveBack, Reported, QueueAndRowsUnchanged
<1> QED BY <1>1, <1>2, <1>3

(* Every step of a thread does such an operation, and is its own business. *)
LEMMA ThreadSteps ==
  ASSUME PlaceInv, NEW w \in Workers, Thread(w) \/ DbError(w)
  PROVE  QInv' /\ Grows /\ Alone(w)
<1>1. \/ UNCHANGED qvars
      \/ Dequeue(w)
      \/ \E marked \in SUBSET batch[w] : MarkCompleted(w, marked)
      \/ MarkBatchFailed(w) \/ RequeueAcquire(w) \/ RequeueItem(w) \/ RequeueReturn(w)
  BY ThreadOperation
<1>2. /\ QInv' /\ Grows /\ UNCHANGED <<jobOf, jobIndex>>
      /\ \A v \in Workers \ {w} : batch'[v] = batch[v] /\ pc'[v] = pc[v]
  BY <1>1, QueueSteps
<1>3. /\ stage \in [Workers -> Stages] /\ todo \in [Workers -> SUBSET QueueIds]
      /\ DOMAIN seen = Workers
  BY DEF PlaceInv, STypeOK
<1>4. \A v \in Workers \ {w} : stage'[v] = stage[v] /\ todo'[v] = todo[v] /\ seen'[v] = seen[v]
  <2>1. CASE TakeBatch(w) \/ CheckRows(w)
    BY <1>3, <2>1 DEF TakeBatch, CheckRows, Goes
  <2>2. CASE ReadRow(w) \/ SaveRow(w) \/ ClaimDone(w) \/ WriteFiles(w) \/ WriteDone(w)
    BY <1>3, <2>2 DEF ReadRow, SaveRow, ClaimDone, WriteFiles, WriteDone, Get, Handled, Goes,
       QueueAndRowsUnchanged
  <2>3. CASE Submit(w) \/ SinkFails(w) \/ Completed(w) \/ GiveUp(w) \/ Retry(w) \/ GiveBack(w)
             \/ Reported(w) \/ DbError(w)
    BY <1>3, <2>3 DEF Submit, SinkFails, Completed, GiveUp, Retry, GiveBack, Reported, DbError,
       Goes, QueueAndRowsUnchanged
  <2> QED BY <2>1, <2>2, <2>3 DEF Thread
<1>5. UNCHANGED co
  BY DEF Thread, DbError, TakeBatch, CheckRows, ReadRow, SaveRow, ClaimDone, WriteFiles, WriteDone,
     Submit, SinkFails, Completed, GiveUp, Retry, GiveBack, Reported, QueueAndRowsUnchanged
<1> QED BY <1>2, <1>4, <1>5 DEF Alone

-----------------------------------------------------------------------------
(* Where the threads are, action by action                                 *)

\* What the steps of a thread start from.
LEMMA ThreadFacts ==
  ASSUME PlaceInv, NEW w \in Workers
  PROVE  /\ stage \in [Workers -> Stages] /\ todo \in [Workers -> SUBSET QueueIds]
         /\ pc \in [Workers -> {"idle", "dequeue", "busy", "requeue"}]
         /\ batch \in [Workers -> SUBSET QueueIds] /\ batch[w] \subseteq QueueIds
         /\ seen \in [Workers -> [id : QueueIds, outputs : BOOLEAN] \union {NoId}]
         /\ ThreadIsSound(w)
         /\ pc[w] = "idle" => batch[w] = {}
         /\ \A q \in batch[w] : jobOf[q] \in Jobs
BY HeldIsDispatching DEF PlaceInv, STypeOK, QTypeOK, QInv, IdleHoldsNothing

\* The row of a job becomes one with a status of the code's.
SavesARow ==
  \/ UNCHANGED row
  \/ \E j \in Jobs, s \in RowStatus, outs \in BOOLEAN : Save(j, s, outs)

\* A step of a thread keeps the places if it keeps its own.
LEMMA PlacesKept ==
  ASSUME PlaceInv, NEW w \in Workers, QInv', Grows, Alone(w), SavesARow,
         stage' \in [Workers -> Stages], todo' \in [Workers -> SUBSET QueueIds],
         seen' \in [Workers -> [id : QueueIds, outputs : BOOLEAN] \union {NoId}],
         delivered' \in [Jobs -> SUBSET {"local", "elastic"}],
         faults' \in [deletes : 0..MaxDeletes, dbErrors : 0..MaxDbErrors],
         ThreadIsSound(w)'
  PROVE  PlaceInv'
<1>1. row' \in [Jobs -> Row \union {Deleted}]
  BY DEF SavesARow, Save, Row, PlaceInv, STypeOK
<1>2. STypeOK'
  BY <1>1 DEF STypeOK, Alone, PlaceInv, QInv
<1>3. ASSUME NEW v \in Workers PROVE ThreadIsSound(v)'
  <2>1. CASE v = w
    BY <2>1
  <2>2. CASE v # w
    BY <2>2, ThreadFacts DEF Alone, ThreadIsSound
  <2> QED BY <2>1, <2>2
<1>4. OneItem'
  BY DEF Alone, OneItem, PlaceInv
<1> QED BY <1>2, <1>3, <1>4 DEF PlaceInv

\* A thread takes a batch, looks its rows up, ends it, or gives it back.
LEMMA QueueActionPlaces ==
  ASSUME PlaceInv, NEW w \in Workers,
         TakeBatch(w) \/ CheckRows(w) \/ Completed(w) \/ GiveUp(w) \/ Retry(w) \/ GiveBack(w)
  PROVE  PlaceInv'
<1>1. /\ stage \in [Workers -> Stages] /\ todo \in [Workers -> SUBSET QueueIds]
      /\ pc \in [Workers -> {"idle", "dequeue", "busy", "requeue"}]
      /\ batch \in [Workers -> SUBSET QueueIds] /\ batch[w] \subseteq QueueIds
      /\ pc[w] = "idle" => batch[w] = {}
      /\ \A q \in batch[w] : jobOf[q] # NoJob
  BY ThreadFacts, SentinelsAreFresh
<1>2. ThreadIsSound(w)
  BY ThreadFacts
<1>3. QInv' /\ Grows /\ Alone(w)
  BY ThreadSteps DEF Thread
<1>4. UNCHANGED <<row, co, seen, delivered, faults, jobOf>>
  BY <1>3 DEF TakeBatch, CheckRows, Completed, GiveUp, Retry, GiveBack, Alone
<1>5. CASE TakeBatch(w)
  <2>1. CASE pc'[w] = "busy"
    <3>1. Goes(w, "check", {}) /\ stage[w] = "loop"
      BY <1>5, <2>1 DEF TakeBatch
    <3>2. stage'[w] = "check" /\ todo'[w] = {} /\ seen[w] = NoId
      BY <1>1, <1>2, <3>1 DEF Goes, ThreadIsSound, SaveStages
    <3>a. batch'[w] # {}
      <4>1. pc[w] \in {"idle", "dequeue"} /\ Dequeue(w)
        BY <1>2, <1>5 DEF TakeBatch, ThreadIsSound
      <4>2. DequeueReturn(w) /\ pc'[w] = IF batch[w] = {} THEN "idle" ELSE "busy"
        BY <1>1, <2>1, <4>1
           DEF Dequeue, DequeueAcquire, DequeueTake, DequeueSkip, DequeueReturn
      <4> QED BY <2>1, <4>2 DEF DequeueReturn
    <3>3. ThreadIsSound(w)'
      BY <1>4, <2>1, <3>2, <3>a DEF ThreadIsSound
    <3>4. stage' \in [Workers -> Stages] /\ todo' \in [Workers -> SUBSET QueueIds]
      BY <1>1, <3>1 DEF Goes, Stages
    <3> QED BY <1>3, <1>4, <3>3, <3>4, PlacesKept DEF SavesARow, PlaceInv, STypeOK
  <2>2. CASE pc'[w] # "busy"
    <3>1. UNCHANGED <<stage, todo>> /\ stage[w] = "loop"
      BY <1>5, <2>2 DEF TakeBatch
    <3>2. pc'[w] \in {"idle", "dequeue"}
      BY <1>1, <1>2, <1>5, <2>2, <3>1
         DEF TakeBatch, Dequeue, DequeueAcquire, DequeueTake, DequeueSkip, DequeueReturn,
             ThreadIsSound
    <3>3. ThreadIsSound(w)'
      BY <1>2, <1>4, <3>1, <3>2 DEF ThreadIsSound, SaveStages
    <3> QED BY <1>1, <1>3, <1>4, <3>1, <3>3, PlacesKept DEF SavesARow, PlaceInv, STypeOK
  <2> QED BY <2>1, <2>2
<1>6. ASSUME NEW s \in {"loop", "claim", "report_failed", "requeue", "report_retry"},
             NEW ids \in SUBSET QueueIds, Goes(w, s, ids), seen[w] = NoId,
             \A q \in ids : jobOf[q] # NoJob,
             s = "loop" => ids = {} /\ pc'[w] = "idle",
             s = "claim" => ids \subseteq batch'[w] /\ pc'[w] = "busy",
             s \in {"report_failed", "report_retry"} => pc'[w] = "idle",
             s = "requeue" => batch'[w] \subseteq ids /\ pc'[w] = "requeue"
      PROVE  PlaceInv'
  <2>1. stage'[w] = s /\ todo'[w] = ids
    BY <1>1, <1>6 DEF Goes
  <2>2. ThreadIsSound(w)'
    BY <1>4, <1>6, <2>1 DEF ThreadIsSound
  <2>3. stage' \in [Workers -> Stages] /\ todo' \in [Workers -> SUBSET QueueIds]
    BY <1>1, <1>6 DEF Goes, Stages, SaveStages
  <2> QED BY <1>3, <1>4, <2>2, <2>3, PlacesKept DEF SavesARow, PlaceInv, STypeOK
<1>7. stage[w] \notin SaveStages \union {"write"} => seen[w] = NoId
  BY <1>2 DEF ThreadIsSound
<1>8. CASE CheckRows(w)
  <2> DEFINE gone == {q \in batch[w] : row[jobOf[q]] = Deleted}
  <2>1. pc[w] = "busy" /\ seen[w] = NoId
    BY <1>2, <1>7, <1>8 DEF CheckRows, ThreadIsSound, SaveStages
  <2>2. CASE gone = batch[w]
    <3>1. Goes(w, "loop", {})
      BY <1>8, <2>2 DEF CheckRows
    <3>2. pc'[w] = "idle"
      <4>1. CASE gone = {}
        <5>1. batch[w] # {}
          BY <1>2, <1>8 DEF CheckRows, ThreadIsSound
        <5> QED BY <2>2, <4>1, <5>1
      <4>2. CASE gone # {}
        BY <1>1, <1>8, <2>2, <4>2 DEF CheckRows, MarkCompleted, Unmarked
      <4> QED BY <4>1, <4>2
    <3> QED BY <1>6, <2>1, <3>1, <3>2
  <2>3. CASE gone # batch[w]
    <3>1. Goes(w, "claim", batch[w] \ gone)
      BY <1>8, <2>3 DEF CheckRows
    <3>2. pc'[w] = "busy" /\ batch'[w] = batch[w] \ gone
      <4>1. CASE gone = {}
        BY <1>8, <2>1, <4>1 DEF CheckRows, qvars
      <4>2. CASE gone # {}
        BY <1>1, <1>8, <2>3, <4>2 DEF CheckRows, MarkCompleted, Unmarked
      <4> QED BY <4>1, <4>2
    <3> QED BY <1>1, <1>6, <2>1, <3>1, <3>2
  <2> QED BY <2>2, <2>3
<1>9. CASE Completed(w)
  <2>1. Goes(w, "loop", {}) /\ seen[w] = NoId
    BY <1>9 DEF Completed, LoopDone
  <2>2. pc'[w] = "idle"
    BY <1>1, <1>9 DEF Completed, MarkCompleted, Unmarked
  <2> QED BY <1>6, <2>1, <2>2
<1>10. CASE GiveUp(w)
  <2>1. Goes(w, "report_failed", batch[w]) /\ seen[w] = NoId /\ pc'[w] = "idle"
    BY <1>1, <1>7, <1>10 DEF GiveUp, MarkBatchFailed, SaveStages
  <2> QED BY <1>1, <1>6, <2>1
<1>11. CASE Retry(w)
  <2>1. Goes(w, "requeue", batch[w]) /\ seen[w] = NoId /\ pc'[w] = "requeue" /\ batch'[w] = batch[w]
    BY <1>1, <1>7, <1>11 DEF Retry, RequeueAcquire, SaveStages
  <2> QED BY <1>1, <1>6, <2>1
<1>12. CASE GiveBack(w)
  <2>1. stage[w] = "requeue" /\ seen[w] = NoId /\ batch[w] \subseteq todo[w]
    BY <1>2, <1>7, <1>12 DEF GiveBack, ThreadIsSound, SaveStages
  <2>2. CASE RequeueItem(w) /\ UNCHANGED <<stage, todo>>
    <3>1. pc'[w] = "requeue" /\ batch'[w] \subseteq todo[w]
      <4>1. PICK q \in batch[w] : batch' = [batch EXCEPT ![w] = @ \ {q}]
        BY <2>2 DEF RequeueItem
      <4> QED BY <1>1, <2>1, <2>2, <4>1 DEF RequeueItem
    <3>2. ThreadIsSound(w)'
      BY <1>2, <1>4, <2>1, <2>2, <3>1 DEF ThreadIsSound
    <3> QED BY <1>1, <1>3, <1>4, <2>2, <3>2, PlacesKept DEF SavesARow, PlaceInv, STypeOK
  <2>3. CASE RequeueReturn(w) /\ Goes(w, "report_retry", todo[w])
    <3>1. pc'[w] = "idle"
      BY <1>1, <2>3 DEF RequeueReturn
    <3>2. todo[w] \in SUBSET QueueIds /\ \A q \in todo[w] : jobOf[q] # NoJob
      BY <1>1, <1>2 DEF ThreadIsSound
    <3> QED BY <1>6, <2>1, <2>3, <3>1, <3>2
  <2> QED BY <1>12, <2>2, <2>3 DEF GiveBack
<1> QED BY <1>5, <1>8, <1>9, <1>10, <1>11, <1>12

\* A thread goes from row to row and from sink to sink.
LEMMA RowActionPlaces ==
  ASSUME PlaceInv, NEW w \in Workers,
         ReadRow(w) \/ SaveRow(w) \/ ClaimDone(w) \/ WriteFiles(w) \/ WriteDone(w) \/ Submit(w)
           \/ SinkFails(w) \/ Reported(w) \/ DbError(w)
  PROVE  PlaceInv'
<1>1. /\ stage \in [Workers -> Stages] /\ todo \in [Workers -> SUBSET QueueIds]
      /\ batch[w] \subseteq QueueIds
      /\ seen \in [Workers -> [id : QueueIds, outputs : BOOLEAN] \union {NoId}]
      /\ \A q \in batch[w] : jobOf[q] \in Jobs
  BY ThreadFacts
<1>2. ThreadIsSound(w)
  BY ThreadFacts
<1>3. QInv' /\ Grows /\ Alone(w)
  BY ThreadSteps DEF Thread
<1>4. UNCHANGED <<pc, batch, jobOf>>
  BY DEF ReadRow, SaveRow, ClaimDone, WriteFiles, WriteDone, Submit, SinkFails, Reported, DbError,
         QueueAndRowsUnchanged, qvars
<1>5. /\ delivered \in [Jobs -> SUBSET {"local", "elastic"}]
      /\ faults \in [deletes : 0..MaxDeletes, dbErrors : 0..MaxDbErrors]
      /\ row \in [Jobs -> Row \union {Deleted}]
  BY DEF PlaceInv, STypeOK
<1>6. ASSUME NEW q \in todo[w], stage[w] \in SaveStages \union {"write"}, UNCHANGED <<row, stage>>,
             Get(w, q), UNCHANGED faults, delivered' \in [Jobs -> SUBSET {"local", "elastic"}],
             seen[w] = NoId
      PROVE  PlaceInv'
  <2>1. q \in QueueIds /\ jobOf[q] \in Jobs
    BY <1>1, <1>2, <1>6 DEF ThreadIsSound, PlaceInv, QInv, QTypeOK
  <2>2. CASE row[jobOf[q]] = Deleted
    <3>1. todo' = [todo EXCEPT ![w] = @ \ {q}] /\ UNCHANGED seen
      BY <1>6, <2>2 DEF Get, Handled
    <3>2. todo' \in [Workers -> SUBSET QueueIds] /\ todo'[w] \subseteq todo[w]
      BY <1>1, <3>1
    <3>3. ThreadIsSound(w)'
      BY <1>2, <1>4, <1>6, <3>1, <3>2 DEF ThreadIsSound, SaveStages
    <3> QED BY <1>1, <1>3, <1>5, <1>6, <3>1, <3>2, <3>3, PlacesKept DEF SavesARow
  <2>3. CASE row[jobOf[q]] # Deleted
    <3>1. /\ seen' = [seen EXCEPT ![w] = [id |-> q, outputs |-> row[jobOf[q]].outputs]]
          /\ UNCHANGED todo
      BY <1>6, <2>3 DEF Get
    <3>2. row[jobOf[q]].outputs \in BOOLEAN
      BY <1>5, <2>1, <2>3 DEF Row
    <3>3. /\ seen' \in [Workers -> [id : QueueIds, outputs : BOOLEAN] \union {NoId}]
          /\ seen'[w].id = q
      BY <1>1, <2>1, <3>1, <3>2
    <3>4. ThreadIsSound(w)'
      BY <1>2, <1>4, <1>6, <3>1, <3>3 DEF ThreadIsSound
    <3> QED BY <1>1, <1>3, <1>5, <1>6, <3>1, <3>3, <3>4, PlacesKept DEF SavesARow
  <2> QED BY <2>2, <2>3
<1>7. CASE ReadRow(w)
  BY <1>5, <1>6, <1>7 DEF ReadRow
<1>8. CASE WriteFiles(w)
  <2>1. PICK q \in todo[w] : /\ delivered' = [delivered EXCEPT ![jobOf[q]] = @ \union {"local"}]
                             /\ Get(w, q)
    BY <1>8 DEF WriteFiles
  <2>2. delivered' \in [Jobs -> SUBSET {"local", "elastic"}]
    BY <1>5, <2>1
  <2> QED BY <1>6, <1>8, <2>1, <2>2 DEF WriteFiles
<1>9. CASE SaveRow(w)
  <2>1. stage[w] \in SaveStages \union {"write"} /\ seen[w].id \in todo[w] /\ seen[w] # NoId
    BY <1>2, <1>9 DEF SaveRow, ThreadIsSound
  <2>2. PICK q \in todo[w] :
          /\ q = seen[w].id
          /\ Save(jobOf[q], StageStatus(w), seen[w].outputs \/ SetsOutputs(w, q))
          /\ todo' = [todo EXCEPT ![w] = @ \ {q}] /\ seen' = [seen EXCEPT ![w] = NoId]
    BY <1>9, <2>1 DEF SaveRow, Handled
  <2>3. /\ jobOf[q] \in Jobs /\ StageStatus(w) \in RowStatus
        /\ (seen[w].outputs \/ SetsOutputs(w, q)) \in BOOLEAN
    <3>1. jobOf[q] \in Jobs
      BY <1>1, <1>2 DEF ThreadIsSound, PlaceInv, QInv, QTypeOK
    <3>2. StageStatus(w) \in RowStatus
      BY DEF StageStatus, StatusMap, RowStatus
    <3> QED BY <3>1, <3>2
  <2>4. SavesARow
    BY <2>2, <2>3 DEF SavesARow
  <2>5. /\ todo' \in [Workers -> SUBSET QueueIds] /\ todo'[w] \subseteq todo[w]
        /\ seen' \in [Workers -> [id : QueueIds, outputs : BOOLEAN] \union {NoId}]
        /\ seen'[w] = NoId /\ UNCHANGED <<stage, delivered, faults>>
    BY <1>1, <1>9, <2>2 DEF SaveRow
  <2>6. ThreadIsSound(w)'
    BY <1>2, <1>4, <2>1, <2>5 DEF ThreadIsSound, SaveStages
  <2> QED BY <1>1, <1>3, <1>5, <2>4, <2>5, <2>6, PlacesKept
<1>10. ASSUME NEW s \in {"write", "submit", "complete", "decide", "loop", "dead"},
              NEW ids \in SUBSET QueueIds, Goes(w, s, ids), UNCHANGED row, seen'[w] = NoId,
              seen' \in [Workers -> [id : QueueIds, outputs : BOOLEAN] \union {NoId}],
              delivered' \in [Jobs -> SUBSET {"local", "elastic"}],
              faults' \in [deletes : 0..MaxDeletes, dbErrors : 0..MaxDbErrors],
              s \in {"write", "submit", "complete", "decide"} => pc[w] = "busy",
              s \in {"write", "complete"} => ids \subseteq batch[w],
              s \in {"submit", "decide", "loop", "dead"} => ids = {},
              s = "loop" => pc[w] = "idle"
       PROVE  PlaceInv'
  <2>1. stage'[w] = s /\ todo'[w] = ids
    BY <1>1, <1>10 DEF Goes
  <2>2. \A q \in ids : jobOf[q] # NoJob
    BY <1>1, <1>10, SentinelsAreFresh
  <2>3. ThreadIsSound(w)'
    BY <1>4, <1>10, <2>1, <2>2 DEF ThreadIsSound, SaveStages
  <2>4. stage' \in [Workers -> Stages] /\ todo' \in [Workers -> SUBSET QueueIds]
    BY <1>1, <1>10 DEF Goes, Stages, SaveStages
  <2> QED BY <1>3, <1>10, <2>3, <2>4, PlacesKept DEF SavesARow
<1>11. stage[w] \in {"claim", "write", "submit"} => pc[w] = "busy"
  BY <1>2 DEF ThreadIsSound
<1>12. CASE ClaimDone(w)
  <2>1. LocalItems(w) \subseteq batch[w]
    BY DEF LocalItems
  <2> QED BY <1>1, <1>5, <1>10, <1>11, <1>12, <2>1
          DEF ClaimDone, LoopDone, QueueAndRowsUnchanged
<1>13. CASE WriteDone(w) \/ SinkFails(w)
  <2>1. stage[w] = "submit" => seen[w] = NoId
    BY <1>2 DEF ThreadIsSound, SaveStages
  <2> QED BY <1>1, <1>5, <1>10, <1>11, <1>13, <2>1
          DEF WriteDone, SinkFails, LoopDone, QueueAndRowsUnchanged
<1>14. CASE Submit(w)
  <2>1. delivered' \in [Jobs -> SUBSET {"local", "elastic"}]
    BY <1>5, <1>14 DEF Submit
  <2>2. stage[w] = "submit" /\ seen[w] = NoId
    BY <1>2, <1>14 DEF Submit, ThreadIsSound, SaveStages
  <2> QED BY <1>1, <1>5, <1>10, <1>11, <1>14, <2>1, <2>2 DEF Submit, QueueAndRowsUnchanged
<1>15. CASE Reported(w)
  <2>1. pc[w] = "idle" /\ seen[w] = NoId
    BY <1>2, <1>15 DEF Reported, LoopDone, ThreadIsSound
  <2> QED BY <1>1, <1>5, <1>10, <1>15, <2>1 DEF Reported, QueueAndRowsUnchanged
<1>16. CASE DbError(w)
  <2>1. /\ seen' \in [Workers -> [id : QueueIds, outputs : BOOLEAN] \union {NoId}]
        /\ seen'[w] = NoId /\ UNCHANGED <<row, delivered>>
    BY <1>1, <1>16 DEF DbError
  <2>2. faults' \in [deletes : 0..MaxDeletes, dbErrors : 0..MaxDbErrors]
    BY <1>5, <1>16, ServiceConstants DEF DbError
  <2>3. Goes(w, "dead", {}) \/ (stage[w] = "write" /\ Goes(w, "decide", {}))
    BY <1>16 DEF DbError
  <2> QED BY <1>5, <1>10, <1>11, <2>1, <2>2, <2>3
<1> QED BY <1>7, <1>8, <1>9, <1>12, <1>13, <1>14, <1>15, <1>16

\* What the coordinator and the API do to the places of the threads.
LEMMA OtherPlaces ==
  ASSUME PlaceInv, NEW j \in Jobs, Coordinator(j) \/ DeleteRow(j) \/ CoordinatorDbError(j)
  PROVE  PlaceInv' /\ Grows
<1>1. /\ row \in [Jobs -> Row \union {Deleted}] /\ co \in [Jobs -> CoStates]
      /\ stage \in [Workers -> Stages]
      /\ faults \in [deletes : 0..MaxDeletes, dbErrors : 0..MaxDbErrors]
      /\ QInv /\ QTypeOK /\ OneItem
  BY DEF PlaceInv, STypeOK
<1>2. row' \in [Jobs -> Row \union {Deleted}]
  <2>1. UNCHANGED row \/ row' = [row EXCEPT ![j] = Deleted]
        \/ \E s \in RowStatus : Save(j, s, FALSE)
    BY DEF Coordinator, SaveParsed, HandOver, HandOverRejected, SaveQueued, SaveReturned, Notify,
           DeleteRow, CoordinatorDbError, RowStatus
  <2>2. \A s \in RowStatus : [status |-> s, outputs |-> FALSE] \in Row
    BY DEF Row
  <2> QED BY <1>1, <2>1, <2>2 DEF Save
<1>3. co' \in [Jobs -> CoStates]
  BY <1>1 DEF Coordinator, SaveParsed, HandOver, HandOverRejected, SaveQueued, SaveReturned, Notify,
              DeleteRow, CoordinatorDbError, CoGoes, CoStates
<1>4. faults' \in [deletes : 0..MaxDeletes, dbErrors : 0..MaxDbErrors]
  <2>1. CASE DeleteRow(j) \/ CoordinatorDbError(j)
    <3>1. \/ faults.deletes < MaxDeletes /\ faults' = [faults EXCEPT !.deletes = @ + 1]
          \/ faults.dbErrors < MaxDbErrors /\ faults' = [faults EXCEPT !.dbErrors = @ + 1]
      BY <2>1 DEF DeleteRow, CoordinatorDbError
    <3> QED BY <1>1, <3>1, ServiceConstants
  <2>2. CASE Coordinator(j)
    BY <1>1, <2>2
       DEF Coordinator, SaveParsed, HandOver, HandOverRejected, SaveQueued, SaveReturned, Notify
  <2> QED BY <2>1, <2>2
<1>5. UNCHANGED <<todo, seen, delivered, pc, batch>>
  BY DEF Coordinator, SaveParsed, HandOver, HandOverRejected, SaveQueued, SaveReturned, Notify,
         DeleteRow, CoordinatorDbError, ThreadsUnchanged, qvars, EnqueueNew
<1>6. /\ stage' \in [Workers -> Stages]
      /\ \A w \in Workers : stage'[w] = stage[w] \/ (stage[w] = "unborn" /\ stage'[w] = "loop")
  <2>1. CASE Notify(j)
    BY <1>1, <2>1 DEF Notify, Stages
  <2>2. CASE ~Notify(j)
    BY <1>1, <2>2
       DEF Coordinator, SaveParsed, HandOver, HandOverRejected, SaveQueued, SaveReturned,
           DeleteRow, CoordinatorDbError, ThreadsUnchanged
  <2> QED BY <2>1, <2>2
<1>7. QInv' /\ Grows /\ OneItem'
  <2>1. CASE HandOver(j)
    <3>1. EnqueueNew(j) /\ co[j] = "parsed" /\ co' = [co EXCEPT ![j] = "put"]
      BY <2>1 DEF HandOver, CoGoes
    <3>2. QInv'
      BY <1>1, <3>1, EnqueueNewStep
    <3>3. PICK q \in QueueIds : /\ jobOf[q] = NoJob /\ jobOf' = [jobOf EXCEPT ![q] = j]
                                /\ status' = [status EXCEPT ![q] = "queued"]
                                /\ jobIndex' = [jobIndex EXCEPT ![j] = q]
      BY <3>1 DEF EnqueueNew
    <3>4. jobIndex[j] = NoId /\ UNCHANGED attempts
      BY <3>1 DEF EnqueueNew
    <3>5. status[q] = "absent"
      BY <1>1, <3>3 DEF QInv, UnusedIsAbsent
    <3>6. Grows
      BY <1>1, <3>3, <3>4, <3>5 DEF Grows, QTypeOK, Terminal
    <3>7. OneItem'
      <4>1. \A r \in QueueIds : r # q /\ jobOf[r] # NoJob => jobOf[r] # j
        BY <1>1, <3>4, SentinelsAreFresh DEF OneItem
      <4> QED BY <1>1, <3>1, <3>3, <4>1 DEF OneItem, QTypeOK
    <3> QED BY <3>2, <3>6, <3>7
  <2>2. CASE ~HandOver(j)
    <3>1. UNCHANGED qvars
      BY <2>2 DEF Coordinator, SaveParsed, HandOverRejected, SaveQueued, SaveReturned, Notify,
                  DeleteRow, CoordinatorDbError
    <3>2. QInv'
      BY <1>1, <3>1, QInvStep
    <3>3. \A k \in Jobs : co'[k] \in {"parsing", "parsed", "rejected"} =>
                            co[k] \in {"parsing", "parsed", "rejected"}
      BY <1>1, <2>2
         DEF Coordinator, SaveParsed, HandOverRejected, SaveQueued, SaveReturned, Notify,
             DeleteRow, CoordinatorDbError, CoGoes
    <3> QED BY <1>1, <3>1, <3>2, <3>3 DEF qvars, Grows, OneItem
  <2> QED BY <2>1, <2>2
<1>8. STypeOK'
  BY <1>2, <1>3, <1>4, <1>5, <1>6, <1>7 DEF STypeOK, PlaceInv, QInv
<1>9. ASSUME NEW w \in Workers PROVE ThreadIsSound(w)'
  <2>1. ThreadIsSound(w) /\ todo[w] \subseteq QueueIds
    BY ThreadFacts
  <2> QED BY <1>5, <1>6, <1>7, <2>1 DEF ThreadIsSound, Grows, SaveStages
<1> QED BY <1>7, <1>8, <1>9 DEF PlaceInv

\* Everything starts in its place.
LEMMA PlacesStart == SInit => PlaceInv
<1> SUFFICES ASSUME SInit PROVE PlaceInv
  OBVIOUS
<1>1. QInv /\ QTypeOK
  BY QInvInit DEF SInit, QInv
<1>2. STypeOK
  BY <1>1, ServiceConstants DEF SInit, STypeOK, CoStates, Stages, Row, RowStatus
<1>3. OneItem /\ \A w \in Workers : ThreadIsSound(w)
  BY DEF SInit, QInit, OneItem, ThreadIsSound
<1> QED BY <1>1, <1>2, <1>3 DEF PlaceInv

\* Every step keeps the places and what grows.
LEMMA PlacesStay ==
  ASSUME PlaceInv, [SNext]_vars
  PROVE  PlaceInv' /\ Grows
<1>1. CASE UNCHANGED vars
  <2>1. UNCHANGED qvars /\ UNCHANGED svars
    BY <1>1 DEF vars
  <2>2. QInv' /\ QTypeOK'
    BY <2>1, QInvStep DEF PlaceInv, QInv
  <2> QED BY <2>1, <2>2 DEF qvars, svars, PlaceInv, STypeOK, OneItem, ThreadIsSound, Grows
<1>2. ASSUME NEW w \in Workers, Thread(w) \/ DbError(w)
      PROVE  PlaceInv' /\ Grows
  BY <1>2, ThreadSteps, QueueActionPlaces, RowActionPlaces DEF Thread
<1> QED BY <1>1, <1>2, OtherPlaces DEF SNext

-----------------------------------------------------------------------------
(* What a step saves and delivers                                          *)

\* A thread that saves a row has the item in hand, and saves what its stage
\* says.
LEMMA SaveFacts ==
  ASSUME PlaceInv, NEW w \in Workers, SaveRow(w)
  PROVE  \E q \in todo[w] :
           /\ q = seen[w].id /\ q \in QueueIds /\ jobOf[q] \in Jobs /\ jobIndex[jobOf[q]] = q
           /\ stage[w] \in SaveStages \union {"write"}
           /\ row'[jobOf[q]] = [status |-> StageStatus(w),
                                outputs |-> seen[w].outputs \/ SetsOutputs(w, q)]
           /\ \A k \in Jobs : k # jobOf[q] => row'[k] = row[k]
           /\ todo'[w] = todo[w] \ {q} /\ seen'[w] = NoId
           /\ UNCHANGED <<qvars, co, stage, delivered, faults>>
<1>1. seen[w] # NoId /\ ThreadIsSound(w) /\ todo \in [Workers -> SUBSET QueueIds]
  BY ThreadFacts DEF SaveRow
<1>2. stage[w] \in SaveStages \union {"write"} /\ seen[w].id \in todo[w]
  BY <1>1 DEF ThreadIsSound
<1>3. seen[w].id \in QueueIds /\ jobOf[seen[w].id] \in Jobs
  BY <1>1, <1>2 DEF ThreadIsSound, PlaceInv, QInv, QTypeOK
<1>4. jobIndex[jobOf[seen[w].id]] = seen[w].id
  BY <1>3, SentinelsAreFresh DEF PlaceInv, OneItem
<1>5. DOMAIN row = Jobs /\ DOMAIN seen = Workers
  BY DEF PlaceInv, STypeOK
<1> QED BY <1>1, <1>2, <1>3, <1>4, <1>5 DEF SaveRow, Save, Handled

\* No other step of a thread saves a row.
LEMMA OnlySavesSave ==
  ASSUME NEW w \in Workers, Thread(w) \/ DbError(w), ~SaveRow(w)
  PROVE  UNCHANGED row
BY DEF Thread, DbError, TakeBatch, CheckRows, ReadRow, ClaimDone, WriteFiles, WriteDone, Submit,
       SinkFails, Completed, GiveUp, Retry, GiveBack, Reported, QueueAndRowsUnchanged

\* The coordinator and the API save other statuses, and move no thread that
\* has anything in hand.
LEMMA OtherRows ==
  ASSUME PlaceInv, NEW j \in Jobs, Coordinator(j) \/ DeleteRow(j) \/ CoordinatorDbError(j)
  PROVE  /\ \A k \in Jobs :
              \/ row'[k] = row[k] \/ row'[k] = Deleted
              \/ row'[k].status = "dispatch_queued"
              \/ row'[k].status \in {"parsed", "retryable_failure"} /\ jobIndex[k] = NoId
         /\ UNCHANGED <<todo, seen, batch, delivered>>
         /\ \A w \in Workers : stage'[w] = stage[w] \/ (stage[w] = "unborn" /\ stage'[w] = "loop")
         /\ faults'.dbErrors = 0 => faults.dbErrors = 0
<1>1. \A k \in Jobs :
        \/ row'[k] = row[k] \/ row'[k] = Deleted
        \/ row'[k].status = "dispatch_queued"
        \/ row'[k].status \in {"parsed", "retryable_failure"} /\ jobIndex[k] = NoId
  BY DEF Coordinator, SaveParsed, HandOver, HandOverRejected, SaveQueued, SaveReturned, Notify,
         DeleteRow, CoordinatorDbError, CoGoes, Save, PlaceInv, STypeOK, OneItem
<1>2. UNCHANGED <<todo, seen, batch, delivered>>
  BY DEF Coordinator, SaveParsed, HandOver, HandOverRejected, SaveQueued, SaveReturned, Notify,
         DeleteRow, CoordinatorDbError, ThreadsUnchanged, qvars, EnqueueNew
<1>3. \A w \in Workers : stage'[w] = stage[w] \/ (stage[w] = "unborn" /\ stage'[w] = "loop")
  BY DEF Coordinator, SaveParsed, HandOver, HandOverRejected, SaveQueued, SaveReturned, Notify,
         DeleteRow, CoordinatorDbError, ThreadsUnchanged
<1>4. faults'.dbErrors = 0 => faults.dbErrors = 0
  <2>1. faults \in [deletes : 0..MaxDeletes, dbErrors : 0..MaxDbErrors]
    BY DEF PlaceInv, STypeOK
  <2>2. UNCHANGED faults \/ faults' = [faults EXCEPT !.deletes = @ + 1]
        \/ faults' = [faults EXCEPT !.dbErrors = @ + 1]
    BY DEF Coordinator, SaveParsed, HandOver, HandOverRejected, SaveQueued, SaveReturned, Notify,
           DeleteRow, CoordinatorDbError
  <2> QED BY <2>1, <2>2, ServiceConstants
<1> QED BY <1>1, <1>2, <1>3, <1>4

\* What a sink has accepted it keeps.
LEMMA SinksKeep ==
  ASSUME PlaceInv, NEW w \in Workers, Thread(w) \/ DbError(w)
  PROVE  \A j \in Jobs : delivered[j] \subseteq delivered'[j]
<1>1. delivered \in [Jobs -> SUBSET {"local", "elastic"}]
  BY DEF PlaceInv, STypeOK
<1>2. CASE WriteFiles(w)
  BY <1>1, <1>2 DEF WriteFiles
<1>3. CASE Submit(w)
  BY <1>1, <1>3 DEF Submit
<1>4. CASE ~(WriteFiles(w) \/ Submit(w))
  BY <1>4 DEF Thread, DbError, TakeBatch, CheckRows, ReadRow, SaveRow, ClaimDone, WriteDone,
       SinkFails, Completed, GiveUp, Retry, GiveBack, Reported, QueueAndRowsUnchanged
<1> QED BY <1>2, <1>3, <1>4

-----------------------------------------------------------------------------
(* Budgets                                                                 *)

\* How a thread gets to report a failure, and what it has to report.
LEMMA ReportsShrink ==
  ASSUME PlaceInv, NEW w \in Workers, Thread(w) \/ DbError(w), stage'[w] = "report_failed"
  PROVE  \/ GiveUp(w) /\ todo'[w] = batch[w]
         \/ stage[w] = "report_failed" /\ todo'[w] \subseteq todo[w]
<1>1. stage \in [Workers -> Stages] /\ todo \in [Workers -> SUBSET QueueIds]
  BY ThreadFacts
<1>2. CASE TakeBatch(w) \/ CheckRows(w) \/ ClaimDone(w) \/ WriteDone(w) \/ Submit(w)
           \/ SinkFails(w) \/ Completed(w) \/ Retry(w) \/ GiveBack(w) \/ Reported(w) \/ DbError(w)
  BY <1>1, <1>2 DEF TakeBatch, CheckRows, ClaimDone, WriteDone, Submit, SinkFails, Completed,
       Retry, GiveBack, Reported, DbError, Goes
<1>3. CASE GiveUp(w)
  BY <1>1, <1>3 DEF GiveUp, Goes
<1>4. CASE ReadRow(w) \/ SaveRow(w) \/ WriteFiles(w)
  BY <1>1, <1>4 DEF ReadRow, SaveRow, WriteFiles, Get, Handled
<1> QED BY <1>2, <1>3, <1>4 DEF Thread

\* No step reports or records a failure before the budget is spent.
LEMMA BudgetStays ==
  ASSUME PlaceInv, BudgetInv, [SNext]_vars
  PROVE  BudgetInv'
<1>1. PlaceInv' /\ Grows
  BY PlacesStay
<1>2. todo \in [Workers -> SUBSET QueueIds] /\ "failed" \in Terminal
  BY DEF PlaceInv, STypeOK, Terminal
\* A row that says FAILED is still right about it.
<1>3. ASSUME NEW j \in Jobs, RowIs(j, "failed")
      PROVE  \E q \in QueueIds : jobOf'[q] = j /\ status'[q] = "failed" /\ attempts'[q] > MaxRetries
  <2>1. PICK q \in QueueIds : jobOf[q] = j /\ status[q] = "failed" /\ attempts[q] > MaxRetries
    BY <1>3 DEF BudgetInv, FailedMeansBudgetSpent
  <2> QED BY <1>1, <1>2, <2>1, SentinelsAreFresh DEF Grows
<1>4. ASSUME NEW v \in Workers, stage[v] = "report_failed", NEW q \in todo[v]
      PROVE  status'[q] = "failed" /\ attempts'[q] > MaxRetries
  BY <1>1, <1>2, <1>4 DEF BudgetInv, Grows
<1>5. ASSUME NEW w \in Workers, Thread(w) \/ DbError(w)
      PROVE  BudgetInv'
  <2>1. ASSUME NEW v \in Workers, stage'[v] = "report_failed", NEW q \in todo'[v]
        PROVE  status'[q] = "failed" /\ attempts'[q] > MaxRetries
    <3>1. CASE v # w
      BY <1>4, <1>5, <2>1, <3>1, ThreadSteps DEF Alone
    <3>2. CASE v = w /\ GiveUp(w) /\ todo'[w] = batch[w]
      <4>1. q \in QueueIds /\ q \in batch[w]
        BY <2>1, <3>2, HeldIsDispatching
      <4>2. status'[q] = "failed" /\ attempts' = attempts
        BY <3>2, <4>1 DEF GiveUp, MarkBatchFailed, WithStatus
      <4>3. ~(attempts[q] <= MaxRetries) /\ attempts[q] \in Nat
        BY <3>2, <4>1 DEF GiveUp, Retries, PlaceInv, QInv, QTypeOK
      <4> QED BY <4>2, <4>3, ServiceConstants
    <3>3. CASE v = w /\ stage[w] = "report_failed" /\ todo'[w] \subseteq todo[w]
      BY <1>4, <2>1, <3>3
    <3> QED BY <1>5, <2>1, <3>1, <3>2, <3>3, ReportsShrink
  <2>2. ASSUME NEW j \in Jobs, RowIs(j, "failed")'
        PROVE  \E q \in QueueIds :
                 jobOf'[q] = j /\ status'[q] = "failed" /\ attempts'[q] > MaxRetries
    <3>1. CASE row'[j] = row[j]
      BY <1>3, <2>2, <3>1 DEF RowIs
    <3>2. CASE row'[j] # row[j]
      <4>1. SaveRow(w)
        BY <1>5, <3>2, OnlySavesSave
      <4>2. PICK q \in todo[w] :
              /\ q \in QueueIds /\ jobOf[q] \in Jobs
              /\ stage[w] \in SaveStages \union {"write"}
              /\ row'[jobOf[q]] = [status |-> StageStatus(w),
                                   outputs |-> seen[w].outputs \/ SetsOutputs(w, q)]
              /\ \A k \in Jobs : k # jobOf[q] => row'[k] = row[k]
              /\ UNCHANGED qvars
        BY <4>1, SaveFacts
      <4>3. jobOf[q] = j /\ StageStatus(w) = "failed"
        BY <2>2, <3>2, <4>2 DEF RowIs
      <4>4. stage[w] = "report_failed"
        BY <4>2, <4>3 DEF StageStatus, StatusMap, SaveStages
      <4> QED BY <1>4, <4>2, <4>3, <4>4 DEF qvars
    <3> QED BY <3>1, <3>2
  <2> QED BY <2>1, <2>2 DEF BudgetInv, FailedMeansBudgetSpent
<1>6. ASSUME NEW j \in Jobs, Coordinator(j) \/ DeleteRow(j) \/ CoordinatorDbError(j)
      PROVE  BudgetInv'
  <2>1. /\ \A k \in Jobs : RowIs(k, "failed")' => RowIs(k, "failed")
        /\ UNCHANGED todo
        /\ \A v \in Workers : stage'[v] = "report_failed" => stage[v] = "report_failed"
    BY <1>6, OtherRows DEF RowIs
  <2> QED BY <1>3, <1>4, <2>1 DEF BudgetInv, FailedMeansBudgetSpent
<1>7. CASE UNCHANGED vars
  BY <1>7 DEF vars, svars, qvars, BudgetInv, FailedMeansBudgetSpent, RowIs
<1> QED BY <1>5, <1>6, <1>7 DEF SNext

-----------------------------------------------------------------------------
(* Deliveries                                                              *)

\* The thread's own part, action by action.
LEMMA OwnDeliveries ==
  ASSUME PlaceInv, DeliveryInv, NEW w \in Workers, Thread(w) \/ DbError(w)
  PROVE  /\ stage'[w] = "write" =>
              /\ \A q \in LocalItems(w)' \ todo'[w] : "local" \in delivered'[jobOf'[q]]
              /\ seen'[w] # NoId => "local" \in delivered'[jobOf'[seen'[w].id]]
         /\ stage'[w] = "submit" => \A q \in LocalItems(w)' : "local" \in delivered'[jobOf'[q]]
         /\ stage'[w] = "complete" =>
              \A q \in batch'[w] : RequiredSinks(jobOf'[q]) \subseteq delivered'[jobOf'[q]]
<1>1. /\ stage \in [Workers -> Stages] /\ todo \in [Workers -> SUBSET QueueIds]
      /\ seen \in [Workers -> [id : QueueIds, outputs : BOOLEAN] \union {NoId}]
      /\ batch[w] \subseteq QueueIds /\ \A q \in batch[w] : jobOf[q] \in Jobs
      /\ delivered \in [Jobs -> SUBSET {"local", "elastic"}]
      /\ UNCHANGED jobOf
  BY ThreadFacts, ThreadSteps DEF Alone, PlaceInv, STypeOK
<1>2. ThreadIsSound(w)
  BY ThreadFacts
<1>3. CASE TakeBatch(w) \/ CheckRows(w) \/ SinkFails(w) \/ Completed(w) \/ GiveUp(w) \/ Retry(w)
           \/ GiveBack(w) \/ Reported(w) \/ DbError(w)
  <2>1. stage'[w] \notin {"write", "submit", "complete"}
    BY <1>1, <1>3 DEF TakeBatch, CheckRows, SinkFails, Completed, GiveUp, Retry, GiveBack,
         Reported, DbError, Goes
  <2> QED BY <2>1
<1>4. CASE ReadRow(w)
  <2>1. UNCHANGED <<stage, batch, delivered, jobOf>> /\ stage[w] \in SaveStages
    BY <1>4 DEF ReadRow, qvars
  <2> QED BY <2>1 DEF DeliveryInv, SaveStages, LocalItems, StoresLocal
<1>5. CASE SaveRow(w)
  <2>1. PICK q \in todo[w] :
          /\ q = seen[w].id /\ todo'[w] = todo[w] \ {q} /\ seen'[w] = NoId
          /\ UNCHANGED <<stage, batch, delivered, jobOf>>
    BY <1>5, SaveFacts DEF qvars
  <2>2. seen[w] # NoId
    BY <1>5 DEF SaveRow
  <2> QED BY <2>1, <2>2 DEF DeliveryInv, LocalItems, StoresLocal
<1>6. CASE ClaimDone(w)
  <2>1. stage'[w] = "write" /\ todo'[w] = LocalItems(w) /\ seen'[w] = NoId
        /\ UNCHANGED <<batch, jobOf>>
    <3>1. LocalItems(w) \in SUBSET QueueIds
      BY <1>1 DEF LocalItems
    <3> QED BY <1>1, <1>6, <3>1 DEF ClaimDone, LoopDone, Goes, QueueAndRowsUnchanged, qvars
  <2> QED BY <2>1 DEF LocalItems, StoresLocal
<1>7. CASE WriteFiles(w)
  <2>1. PICK q \in todo[w] : /\ delivered' = [delivered EXCEPT ![jobOf[q]] = @ \union {"local"}]
                             /\ Get(w, q)
    BY <1>7 DEF WriteFiles
  <2>2. stage[w] = "write" /\ seen[w] = NoId /\ UNCHANGED <<stage, batch, jobOf>>
    BY <1>7 DEF WriteFiles, qvars
  <2>3. q \in QueueIds /\ q \in batch[w] /\ jobOf[q] \in Jobs
    BY <1>1, <1>2, <2>2 DEF ThreadIsSound
  <2>4. "local" \in delivered'[jobOf[q]] /\ \A k \in Jobs : delivered[k] \subseteq delivered'[k]
    BY <1>1, <2>1, <2>3
  <2>5. \/ todo'[w] = todo[w] \ {q} /\ UNCHANGED seen
        \/ UNCHANGED todo /\ (seen'[w] = NoId \/ seen'[w].id = q)
    BY <1>1, <2>1 DEF Get, Handled
  <2>6. \A r \in LocalItems(w) \ todo[w] : "local" \in delivered'[jobOf[r]]
    BY <1>1, <2>2, <2>4 DEF DeliveryInv, LocalItems
  <2> QED BY <2>2, <2>4, <2>5, <2>6 DEF LocalItems, StoresLocal
<1>8. CASE WriteDone(w)
  <2>1. /\ stage[w] = "write" /\ todo[w] = {} /\ UNCHANGED <<batch, jobOf, delivered>>
        /\ IF ElasticItems(w) = {} THEN stage'[w] = "complete" ELSE stage'[w] = "submit"
    BY <1>1, <1>8 DEF WriteDone, LoopDone, Goes, QueueAndRowsUnchanged, qvars
  <2>2. \A q \in LocalItems(w) : "local" \in delivered[jobOf[q]]
    BY <2>1 DEF DeliveryInv
  <2>3. ElasticItems(w) = {} =>
          \A q \in batch[w] : RequiredSinks(jobOf[q]) \subseteq delivered[jobOf[q]]
    <3> SUFFICES ASSUME ElasticItems(w) = {}, NEW q \in batch[w]
                 PROVE  RequiredSinks(jobOf[q]) \subseteq delivered[jobOf[q]]
      OBVIOUS
    <3>1. SinkMode[jobOf[q]] = "local"
      BY <1>1, ServiceConstants DEF ElasticItems, SendsElastic, SinkModes
    <3> QED BY <2>2, <3>1 DEF RequiredSinks, LocalItems, StoresLocal
  <2> QED BY <2>1, <2>2, <2>3 DEF LocalItems, StoresLocal
<1>9. CASE Submit(w)
  <2>1. stage[w] = "submit" /\ stage'[w] = "complete" /\ UNCHANGED <<batch, jobOf>>
    BY <1>1, <1>9 DEF Submit, Goes, QueueAndRowsUnchanged, qvars
  <2>2. ASSUME NEW q \in batch[w]
        PROVE  RequiredSinks(jobOf[q]) \subseteq delivered'[jobOf[q]]
    <3>1. /\ q \in LocalItems(w) => "local" \in delivered[jobOf[q]]
          /\ delivered[jobOf[q]] \subseteq delivered'[jobOf[q]]
          /\ q \in ElasticItems(w) => "elastic" \in delivered'[jobOf[q]]
      BY <1>1, <1>9, <2>1, <2>2 DEF DeliveryInv, Submit
    <3>2. SinkMode[jobOf[q]] \in SinkModes
      BY <1>1, <2>2, ServiceConstants
    <3> QED BY <2>2, <3>1, <3>2
            DEF RequiredSinks, LocalItems, ElasticItems, StoresLocal, SendsElastic, SinkModes
  <2> QED BY <2>1, <2>2
<1> QED BY <1>3, <1>4, <1>5, <1>6, <1>7, <1>8, <1>9 DEF Thread

\* No step passes a stage, or completes a row, without the deliveries.
LEMMA DeliveryStays ==
  ASSUME PlaceInv, DeliveryInv, [SNext]_vars
  PROVE  DeliveryInv'
<1>1. ASSUME NEW w \in Workers, Thread(w) \/ DbError(w)
      PROVE  DeliveryInv'
  <2>1. \A j \in Jobs : delivered[j] \subseteq delivered'[j]
    BY <1>1, SinksKeep
  <2>2. ASSUME NEW v \in Workers, v # w
        PROVE  /\ UNCHANGED <<stage[v], todo[v], seen[v], batch[v], jobOf>>
               /\ LocalItems(v)' = LocalItems(v)
    BY <1>1, <2>2, ThreadSteps DEF Alone, LocalItems, StoresLocal
  <2>3. ASSUME NEW v \in Workers
        PROVE  /\ \A q \in batch[v] : jobOf[q] \in Jobs
               /\ stage[v] = "write" /\ seen[v] # NoId => jobOf[seen[v].id] \in Jobs
    <3>1. \A q \in batch[v] : jobOf[q] \in Jobs
      BY HeldIsDispatching
    <3>2. stage[v] = "write" /\ seen[v] # NoId => seen[v].id \in batch[v]
      BY ThreadFacts DEF ThreadIsSound
    <3> QED BY <3>1, <3>2
  <2>4. CompletedMeansDelivered'
    <3> SUFFICES ASSUME NEW j \in Jobs, RowIs(j, "completed")'
                 PROVE  /\ RequiredSinks(j) \subseteq delivered'[j]
                        /\ "local" \in RequiredSinks(j) => row'[j].outputs
      BY DEF CompletedMeansDelivered
    <3>1. CASE row'[j] = row[j]
      BY <2>1, <3>1 DEF DeliveryInv, CompletedMeansDelivered, RowIs
    <3>2. CASE row'[j] # row[j]
      <4>1. SaveRow(w)
        BY <1>1, <3>2, OnlySavesSave
      <4>2. PICK q \in todo[w] :
              /\ stage[w] \in SaveStages \union {"write"}
              /\ row'[jobOf[q]] = [status |-> StageStatus(w),
                                   outputs |-> seen[w].outputs \/ SetsOutputs(w, q)]
              /\ \A k \in Jobs : k # jobOf[q] => row'[k] = row[k]
              /\ UNCHANGED delivered
        BY <4>1, SaveFacts
      <4>3. jobOf[q] = j /\ StageStatus(w) = "completed"
        BY <3>2, <4>2 DEF RowIs
      <4>4. stage[w] = "complete"
        BY <4>2, <4>3 DEF StageStatus, StatusMap, SaveStages
      <4>5. q \in batch[w]
        BY <4>2, <4>4, ThreadFacts DEF ThreadIsSound
      <4>6. "local" \in RequiredSinks(j) => SetsOutputs(w, q)
        <5>1. SinkMode[j] \in SinkModes
          BY ServiceConstants
        <5> QED BY <4>3, <4>4, <5>1 DEF RequiredSinks, SetsOutputs, StoresLocal, SinkModes
      <4>7. RequiredSinks(j) \subseteq delivered'[j]
        BY <4>2, <4>3, <4>4, <4>5 DEF DeliveryInv
      <4>8. row'[j].outputs = (seen[w].outputs \/ SetsOutputs(w, q))
        BY <4>2, <4>3
      <4> QED BY <4>6, <4>7, <4>8
    <3> QED BY <3>1, <3>2
  <2>5. ASSUME NEW v \in Workers
        PROVE  /\ stage'[v] = "write" =>
                    /\ \A q \in LocalItems(v)' \ todo'[v] : "local" \in delivered'[jobOf'[q]]
                    /\ seen'[v] # NoId => "local" \in delivered'[jobOf'[seen'[v].id]]
               /\ stage'[v] = "submit" =>
                    \A q \in LocalItems(v)' : "local" \in delivered'[jobOf'[q]]
               /\ stage'[v] = "complete" =>
                    \A q \in batch'[v] : RequiredSinks(jobOf'[q]) \subseteq delivered'[jobOf'[q]]
    <3>1. CASE v = w
      BY <1>1, <3>1, OwnDeliveries
    <3>2. CASE v # w
      <4>1. LocalItems(v) \subseteq batch[v]
        BY DEF LocalItems
      <4> QED BY <2>1, <2>2, <2>3, <3>2, <4>1 DEF DeliveryInv
    <3> QED BY <3>1, <3>2
  <2> QED BY <2>4, <2>5 DEF DeliveryInv
<1>2. ASSUME NEW j \in Jobs, Coordinator(j) \/ DeleteRow(j) \/ CoordinatorDbError(j)
      PROVE  DeliveryInv'
  <2>1. /\ \A k \in Jobs : RowIs(k, "completed")' => RowIs(k, "completed") /\ row'[k] = row[k]
        /\ UNCHANGED <<todo, seen, batch, delivered>>
        /\ \A v \in Workers : stage'[v] \in {"write", "submit", "complete"} => stage'[v] = stage[v]
    BY <1>2, OtherRows DEF RowIs
  <2>2. ASSUME NEW v \in Workers
        PROVE  \A q \in batch[v] : jobOf'[q] = jobOf[q]
    BY <1>2, OtherPlaces, HeldIsDispatching, SentinelsAreFresh DEF Grows
  <2>3. \A v \in Workers : LocalItems(v)' = LocalItems(v) /\ LocalItems(v) \subseteq batch[v]
    BY <2>1, <2>2 DEF LocalItems, StoresLocal
  <2>4. \A v \in Workers : stage[v] = "write" /\ seen[v] # NoId => seen[v].id \in batch[v]
    BY ThreadFacts DEF ThreadIsSound
  <2> QED BY <2>1, <2>2, <2>3, <2>4 DEF DeliveryInv, CompletedMeansDelivered
<1>3. CASE UNCHANGED vars
  BY <1>3 DEF vars, svars, qvars, DeliveryInv, CompletedMeansDelivered, RowIs, LocalItems,
              StoresLocal
<1> QED BY <1>1, <1>2, <1>3 DEF SNext

-----------------------------------------------------------------------------
(* Rows half way                                                           *)

\* A thread that owes the row of an item saves it or goes on owing it, as
\* long as the repository does not fail.
LEMMA DebtsArePaid ==
  ASSUME PlaceInv, NEW w \in Workers, Thread(w), NEW q \in QueueIds, Owes(w, q),
         HalfWay(jobOf[q]), row'[jobOf[q]] = row[jobOf[q]]
  PROVE  Owes(w, q)'
<1>1. /\ stage \in [Workers -> Stages] /\ todo \in [Workers -> SUBSET QueueIds]
      /\ batch \in [Workers -> SUBSET QueueIds] /\ ThreadIsSound(w)
  BY ThreadFacts
<1>2. CASE TakeBatch(w) \/ CheckRows(w)
  BY <1>2 DEF TakeBatch, CheckRows, Owes
<1>3. ASSUME NEW r \in todo[w], Get(w, r), UNCHANGED <<stage, batch>>
      PROVE  Owes(w, q)'
  <2>1. CASE row[jobOf[r]] = Deleted
    <3>1. q # r
      BY <2>1 DEF HalfWay, RowIs
    <3>2. todo'[w] = todo[w] \ {r}
      BY <1>1, <1>3, <2>1 DEF Get, Handled
    <3> QED BY <1>3, <3>1, <3>2 DEF Owes
  <2>2. CASE row[jobOf[r]] # Deleted
    BY <1>3, <2>2 DEF Get, Owes
  <2> QED BY <2>1, <2>2
<1>4. CASE ReadRow(w) \/ WriteFiles(w)
  BY <1>3, <1>4 DEF ReadRow, WriteFiles, qvars
<1>5. CASE SaveRow(w)
  <2>1. PICK r \in todo[w] :
          /\ r = seen[w].id /\ r \in QueueIds /\ jobOf[r] \in Jobs /\ jobIndex[jobOf[r]] = r
          /\ stage[w] \in SaveStages \union {"write"}
          /\ row'[jobOf[r]] = [status |-> StageStatus(w),
                               outputs |-> seen[w].outputs \/ SetsOutputs(w, r)]
          /\ todo'[w] = todo[w] \ {r}
          /\ UNCHANGED <<qvars, stage>>
    BY <1>5, SaveFacts
  <2>2. UNCHANGED <<batch, stage>>
    BY <2>1 DEF qvars
  <2>3. CASE stage[w] \in {"claim", "write"}
    BY <2>2, <2>3 DEF Owes
  <2>4. CASE stage[w] \in {"complete", "report_retry", "report_failed"}
    <3>1. StageStatus(w) \notin {"dispatching", "stored_local"}
      BY <2>4 DEF StageStatus, StatusMap
    <3>2. q # r
      BY <2>1, <3>1 DEF HalfWay, RowIs
    <3> QED BY <2>1, <2>2, <2>4, <3>2 DEF Owes
  <2> QED BY <2>1, <2>3, <2>4 DEF SaveStages
<1>6. CASE ClaimDone(w) \/ SinkFails(w)
  <2>1. stage[w] \in {"claim", "write", "submit"} /\ UNCHANGED batch
    BY <1>6 DEF ClaimDone, SinkFails, LoopDone, QueueAndRowsUnchanged, qvars
  <2>2. stage'[w] \in {"write", "decide"}
    BY <1>1, <1>6 DEF ClaimDone, SinkFails, Goes
  <2> QED BY <2>1, <2>2 DEF Owes
<1>7. CASE WriteDone(w) \/ Submit(w)
  <2>1. stage[w] \in {"write", "submit"} /\ UNCHANGED batch
    BY <1>7 DEF WriteDone, Submit, LoopDone, QueueAndRowsUnchanged, qvars
  <2>2. stage'[w] = "submit" \/ (stage'[w] = "complete" /\ todo'[w] = batch[w])
    BY <1>1, <1>7 DEF WriteDone, Submit, Goes
  <2> QED BY <2>1, <2>2 DEF Owes
<1>8. CASE GiveUp(w) \/ Retry(w)
  <2>1. stage[w] = "decide"
    BY <1>8 DEF GiveUp, Retry
  <2>2. stage'[w] \in {"report_failed", "requeue"} /\ todo'[w] = batch[w]
    BY <1>1, <1>8 DEF GiveUp, Retry, Goes
  <2> QED BY <2>1, <2>2 DEF Owes
<1>9. CASE GiveBack(w)
  BY <1>1, <1>9 DEF GiveBack, Goes, Owes
<1>10. CASE Completed(w) \/ Reported(w)
  BY <1>10 DEF Completed, Reported, LoopDone, Owes
<1> QED BY <1>2, <1>4, <1>5, <1>6, <1>7, <1>8, <1>9, <1>10 DEF Thread

\* No step leaves a row half way that nobody owes.
LEMMA OwingStays ==
  ASSUME PlaceInv, OwingInv, [SNext]_vars
  PROVE  OwingInv'
<1>1. PlaceInv' /\ Grows
  BY PlacesStay
<1>2. ASSUME NEW w \in Workers, Thread(w) \/ DbError(w)
      PROVE  OwingInv'
  <2> SUFFICES ASSUME faults'.dbErrors = 0, NEW j \in Jobs, HalfWay(j)'
               PROVE  \E v \in Workers, q \in QueueIds : Owes(v, q)' /\ jobOf'[q] = j
    BY DEF OwingInv
  <2>1. Thread(w) /\ UNCHANGED faults /\ UNCHANGED jobOf
    <3>1. ~DbError(w)
      <4>1. faults \in [deletes : 0..MaxDeletes, dbErrors : 0..MaxDbErrors]
        BY DEF PlaceInv, STypeOK
      <4> QED BY <4>1, ServiceConstants DEF DbError
    <3>2. Thread(w)
      BY <1>2, <3>1
    <3>3. UNCHANGED faults
      BY <3>2 DEF Thread, TakeBatch, CheckRows, ReadRow, SaveRow, ClaimDone, WriteFiles,
           WriteDone, Submit, SinkFails, Completed, GiveUp, Retry, GiveBack, Reported,
           QueueAndRowsUnchanged
    <3> QED BY <3>2, <3>3, ThreadSteps DEF Alone
  <2>2. CASE row'[j] = row[j]
    <3>1. HalfWay(j)
      BY <2>2 DEF HalfWay, RowIs
    <3>2. PICK v \in Workers : \E r \in QueueIds : Owes(v, r) /\ jobOf[r] = j
      BY <2>1, <3>1 DEF OwingInv
    <3>3. PICK q \in QueueIds : Owes(v, q) /\ jobOf[q] = j
      BY <3>2
    <3>4. Owes(v, q)'
      <4>1. CASE v = w
        BY <2>1, <2>2, <3>1, <3>3, <4>1, DebtsArePaid
      <4>2. CASE v # w
        BY <2>1, <3>3, <4>2, ThreadSteps DEF Alone, Owes
      <4> QED BY <4>1, <4>2
    <3> QED BY <2>1, <3>3, <3>4
  <2>3. CASE row'[j] # row[j]
    <3>1. SaveRow(w)
      BY <1>2, <2>3, OnlySavesSave
    <3>2. PICK q \in todo[w] :
            /\ q = seen[w].id /\ q \in QueueIds /\ jobOf[q] \in Jobs
            /\ stage[w] \in SaveStages \union {"write"}
            /\ row'[jobOf[q]] = [status |-> StageStatus(w),
                                 outputs |-> seen[w].outputs \/ SetsOutputs(w, q)]
            /\ \A k \in Jobs : k # jobOf[q] => row'[k] = row[k]
            /\ UNCHANGED <<qvars, stage>>
      BY <3>1, SaveFacts
    <3>3. jobOf[q] = j /\ StageStatus(w) \in {"dispatching", "stored_local"}
      BY <2>3, <3>2 DEF HalfWay, RowIs
    <3>4. stage[w] \in {"claim", "write"}
      BY <3>2, <3>3 DEF StageStatus, StatusMap, SaveStages
    <3>5. q \in batch[w]
      BY <3>2, <3>4, ThreadFacts DEF ThreadIsSound
    <3>6. Owes(w, q)'
      BY <3>2, <3>4, <3>5 DEF Owes, qvars
    <3> QED BY <2>1, <3>2, <3>3, <3>6
  <2> QED BY <2>2, <2>3
<1>3. ASSUME NEW j \in Jobs, Coordinator(j) \/ DeleteRow(j) \/ CoordinatorDbError(j)
      PROVE  OwingInv'
  <2>1. /\ \A k \in Jobs : HalfWay(k)' => HalfWay(k)
        /\ UNCHANGED <<todo, batch>>
        /\ \A w \in Workers : stage'[w] = stage[w] \/ (stage[w] = "unborn" /\ stage'[w] = "loop")
        /\ faults'.dbErrors = 0 => faults.dbErrors = 0
    BY <1>3, OtherRows DEF HalfWay, RowIs
  <2>2. \A w \in Workers, q \in QueueIds : Owes(w, q) => Owes(w, q)'
    BY <2>1 DEF Owes
  <2>3. \A k \in Jobs, q \in QueueIds : jobOf[q] = k => jobOf'[q] = k
    BY <1>1, SentinelsAreFresh DEF Grows
  <2> QED BY <2>1, <2>2, <2>3 DEF OwingInv
<1>4. CASE UNCHANGED vars
  BY <1>4 DEF vars, svars, qvars, OwingInv, HalfWay, RowIs, Owes
<1> QED BY <1>2, <1>3, <1>4 DEF SNext

-----------------------------------------------------------------------------
(* Completed rows                                                          *)

\* A finished item stays finished.
LEMMA FinishedStays ==
  ASSUME PlaceInv, NEW w \in Workers, Thread(w) \/ DbError(w), NEW q \in QueueIds, Finished(q)
  PROVE  Finished(q)'
<1>1. QInv' /\ Grows /\ Alone(w)
  BY ThreadSteps
<1>2. CASE status[q] = "completed"
  BY <1>1, <1>2 DEF Grows, Terminal, Finished
<1>3. CASE \E v \in Workers \ {w} : stage[v] \in {"complete", "dead"} /\ q \in batch[v]
  BY <1>1, <1>3 DEF Alone, Finished
<1>4. CASE stage[w] \in {"complete", "dead"} /\ q \in batch[w]
  <2>1. ThreadIsSound(w) /\ stage \in [Workers -> Stages]
    BY ThreadFacts
  <2>2. CASE Completed(w)
    <3>1. status'[q] = "completed"
      BY <1>4, <2>2 DEF Completed, MarkCompleted, WithStatus
    <3> QED BY <3>1 DEF Finished
  <2>3. CASE DbError(w)
    <3>1. UNCHANGED batch /\ stage'[w] = "dead"
      BY <1>4, <2>1, <2>3 DEF DbError, Goes, qvars
    <3> QED BY <1>4, <3>1 DEF Finished
  <2>4. CASE ReadRow(w) \/ SaveRow(w)
    <3>1. UNCHANGED <<batch, stage>>
      BY <2>4 DEF ReadRow, SaveRow, qvars
    <3> QED BY <1>4, <3>1 DEF Finished
  <2>5. ~(TakeBatch(w) \/ CheckRows(w) \/ ClaimDone(w) \/ WriteFiles(w) \/ WriteDone(w)
          \/ Submit(w) \/ SinkFails(w) \/ GiveUp(w) \/ Retry(w) \/ GiveBack(w) \/ Reported(w))
    BY <1>4 DEF TakeBatch, CheckRows, ClaimDone, WriteFiles, WriteDone, Submit, SinkFails, GiveUp,
         Retry, GiveBack, Reported, LoopDone
  <2> QED BY <2>2, <2>3, <2>4, <2>5 DEF Thread
<1> QED BY <1>2, <1>3, <1>4 DEF Finished

\* No step completes a row whose item is not finished.
LEMMA FinishStays ==
  ASSUME PlaceInv, FinishInv, [SNext]_vars
  PROVE  FinishInv'
<1>1. PlaceInv' /\ Grows /\ jobIndex \in [Jobs -> QueueIds \union {NoId}]
  BY PlacesStay DEF PlaceInv, QInv, QTypeOK
<1>2. ASSUME NEW w \in Workers, Thread(w) \/ DbError(w), NEW j \in Jobs, RowIs(j, "completed")'
      PROVE  \E q \in QueueIds : jobIndex'[j] = q /\ Finished(q)'
  <2>1. UNCHANGED <<jobIndex, jobOf>>
    BY <1>2, ThreadSteps DEF Alone
  <2>2. CASE row'[j] = row[j]
    <3>1. jobIndex[j] # NoId /\ Finished(jobIndex[j]) /\ jobIndex[j] \in QueueIds
      BY <1>1, <1>2, <2>2 DEF FinishInv, RowIs
    <3>2. \A q \in QueueIds : Finished(q) => Finished(q)'
      BY <1>2, FinishedStays
    <3>3. PICK q \in QueueIds : q = jobIndex[j] /\ Finished(q)
      BY <3>1
    <3>4. Finished(q)' /\ jobIndex'[j] = q
      BY <2>1, <3>2, <3>3
    <3> QED BY <3>4
  <2>3. CASE row'[j] # row[j]
    <3>1. SaveRow(w)
      BY <1>2, <2>3, OnlySavesSave
    <3>2. PICK q \in todo[w] :
            /\ q = seen[w].id /\ q \in QueueIds /\ jobOf[q] \in Jobs /\ jobIndex[jobOf[q]] = q
            /\ stage[w] \in SaveStages \union {"write"}
            /\ row'[jobOf[q]] = [status |-> StageStatus(w),
                                 outputs |-> seen[w].outputs \/ SetsOutputs(w, q)]
            /\ \A k \in Jobs : k # jobOf[q] => row'[k] = row[k]
            /\ UNCHANGED <<qvars, stage>>
      BY <3>1, SaveFacts
    <3>3. jobOf[q] = j /\ StageStatus(w) = "completed"
      BY <1>2, <2>3, <3>2 DEF RowIs
    <3>4. stage[w] = "complete"
      BY <3>2, <3>3 DEF StageStatus, StatusMap, SaveStages
    <3>5. q \in batch[w]
      BY <3>2, <3>4, ThreadFacts DEF ThreadIsSound
    <3>6. jobIndex'[j] = q /\ stage'[w] = "complete" /\ q \in batch'[w]
      BY <3>2, <3>3, <3>4, <3>5 DEF qvars
    <3>7. Finished(q)'
      BY <3>6 DEF Finished
    <3> QED BY <3>2, <3>6, <3>7
  <2> QED BY <2>2, <2>3
<1>3. ASSUME NEW j \in Jobs, Coordinator(j) \/ DeleteRow(j) \/ CoordinatorDbError(j)
      PROVE  FinishInv'
  <2>1. /\ \A k \in Jobs : RowIs(k, "completed")' => RowIs(k, "completed")
        /\ UNCHANGED batch
        /\ \A v \in Workers : stage[v] \in {"complete", "dead"} => stage'[v] = stage[v]
    BY <1>3, OtherRows DEF RowIs
  <2>2. \A q \in QueueIds : status[q] = "completed" => status'[q] = "completed"
    BY <1>1 DEF Grows, Terminal
  <2>3. \A k \in Jobs : jobIndex[k] # NoId => jobIndex[k] \in QueueIds /\ jobIndex'[k] = jobIndex[k]
    BY <1>1 DEF Grows
  <2> QED BY <2>1, <2>2, <2>3 DEF FinishInv, Finished
<1>4. CASE UNCHANGED vars
  BY <1>4 DEF vars, svars, qvars, FinishInv, Finished, RowIs
<1>5. ASSUME NEW w \in Workers, Thread(w) \/ DbError(w)
      PROVE  FinishInv'
  <2>1. ASSUME NEW j \in Jobs, RowIs(j, "completed")'
        PROVE  jobIndex'[j] # NoId /\ Finished(jobIndex[j])'
    <3>1. PICK q \in QueueIds : jobIndex'[j] = q /\ Finished(q)'
      BY <1>2, <1>5, <2>1
    <3> QED BY <3>1, SentinelsAreFresh DEF Finished
  <2> QED BY <2>1 DEF FinishInv
<1> QED BY <1>3, <1>4, <1>5 DEF SNext

\* What a step makes of a completed row.
LEMMA CompletedRowStep ==
  ASSUME PlaceInv, FinishInv, BudgetInv, [SNext]_vars, NEW j \in Jobs, RowIs(j, "completed")
  PROVE  row'[j] = Deleted \/ row'[j].status \in {"completed", "dispatch_queued"}
<1>1. jobIndex[j] # NoId /\ Finished(jobIndex[j])
  BY DEF FinishInv
<1>2. ASSUME NEW w \in Workers, Thread(w) \/ DbError(w), row'[j] # row[j]
      PROVE  row'[j].status \in {"completed", "dispatch_queued"}
  <2>1. SaveRow(w)
    BY <1>2, OnlySavesSave
  <2>2. PICK q \in todo[w] :
          /\ q = seen[w].id /\ q \in QueueIds /\ jobOf[q] \in Jobs /\ jobIndex[jobOf[q]] = q
          /\ stage[w] \in SaveStages \union {"write"}
          /\ row'[jobOf[q]] = [status |-> StageStatus(w),
                               outputs |-> seen[w].outputs \/ SetsOutputs(w, q)]
          /\ \A k \in Jobs : k # jobOf[q] => row'[k] = row[k]
    BY <2>1, SaveFacts
  <2>3. jobOf[q] = j /\ jobIndex[j] = q /\ row'[j].status = StageStatus(w)
    BY <1>2, <2>2
  <2>4. CASE stage[w] \in {"claim", "write"}
    <3>1. q \in batch[w]
      BY <2>2, <2>4, ThreadFacts DEF ThreadIsSound
    <3>2. PICK v \in Workers : stage[v] \in {"complete", "dead"} /\ q \in batch[v]
      BY <1>1, <2>3, <3>1, HeldIsDispatching DEF Finished
    <3>3. v # w /\ batch[v] \intersect batch[w] # {}
      BY <2>4, <3>1, <3>2
    <3> QED BY <3>3 DEF PlaceInv, QInv, HeldOnce
  <2>5. stage[w] # "report_failed"
    <3>1. SUFFICES ASSUME stage[w] = "report_failed" PROVE FALSE
      OBVIOUS
    <3>2. status[q] = "failed"
      BY <2>2, <3>1 DEF BudgetInv
    <3>3. PICK v \in Workers : q \in batch[v]
      BY <1>1, <2>3, <3>2 DEF Finished
    <3> QED BY <3>2, <3>3, HeldIsDispatching
  <2>6. CASE stage[w] \in {"complete", "report_retry"}
    BY <2>3, <2>6 DEF StageStatus, StatusMap
  <2> QED BY <2>2, <2>4, <2>5, <2>6 DEF SaveStages
<1>3. ASSUME NEW k \in Jobs, Coordinator(k) \/ DeleteRow(k) \/ CoordinatorDbError(k)
      PROVE  \/ row'[j] = row[j] \/ row'[j] = Deleted
             \/ row'[j].status = "dispatch_queued"
  BY <1>1, <1>3, OtherRows
<1>4. CASE UNCHANGED vars
  BY <1>4 DEF vars, svars, RowIs
<1> QED BY <1>2, <1>3, <1>4 DEF SNext, RowIs

-----------------------------------------------------------------------------
(* Charges                                                                 *)

\* Pairs of an id and a round are as many as fit.
LEMMA PairsFit ==
  ASSUME NEW U, IsFiniteSet(U), NEW n \in Nat, NEW C \in SUBSET (U \X (1..n))
  PROVE  IsFiniteSet(C) /\ Cardinality(C) \in Nat /\ Cardinality(U) \in Nat
         /\ Cardinality(C) <= Cardinality(U) * n
<1>1. IsFiniteSet(1..n) /\ Cardinality(1..n) = n
  BY FS_Interval
<1>2. IsFiniteSet(U \X (1..n)) /\ Cardinality(U \X (1..n)) = Cardinality(U) * Cardinality(1..n)
  BY <1>1, FS_Product
<1>3. IsFiniteSet(C) /\ Cardinality(C) <= Cardinality(U \X (1..n))
  BY <1>2, FS_Subset
<1>4. Cardinality(C) \in Nat /\ Cardinality(U) \in Nat
  BY <1>3, FS_CardinalityType
<1> QED BY <1>1, <1>2, <1>3, <1>4

\* A set with an element more is larger by one at least.
LEMMA OneMore ==
  ASSUME NEW D, IsFiniteSet(D), NEW C \in SUBSET D, NEW e \in D \ C
  PROVE  Cardinality(C) + 1 <= Cardinality(D)
<1>1. IsFiniteSet(C) /\ Cardinality(C) \in Nat /\ Cardinality(D) \in Nat
  BY FS_Subset, FS_CardinalityType
<1>2. Cardinality(C \union {e}) = Cardinality(C) + 1
  BY <1>1, FS_AddElement
<1>3. Cardinality(C \union {e}) <= Cardinality(D)
  BY FS_Subset
<1> QED BY <1>2, <1>3

\* An attempt is counted only when a waiting item is taken.
LEMMA AttemptsGrow ==
  ASSUME PlaceInv, [SNext]_vars
  PROVE  \/ UNCHANGED attempts /\ \A w \in Workers : batch'[w] \subseteq batch[w]
         \/ \E w \in Workers : TakeBatch(w) /\ DequeueTake(w)
<1>1. batch \in [Workers -> SUBSET QueueIds]
  BY DEF PlaceInv, QInv, QTypeOK
<1>2. ASSUME NEW w \in Workers, Thread(w) \/ DbError(w), ~(TakeBatch(w) /\ DequeueTake(w))
      PROVE  UNCHANGED attempts /\ \A v \in Workers : batch'[v] \subseteq batch[v]
  <2>1. CASE TakeBatch(w)
    BY <1>2, <2>1 DEF TakeBatch, Dequeue, DequeueAcquire, DequeueSkip, DequeueReturn
  <2>2. CASE CheckRows(w) \/ Completed(w) \/ GiveUp(w) \/ Retry(w)
    BY <1>1, <2>2 DEF CheckRows, Completed, GiveUp, Retry, MarkCompleted, Unmarked,
         MarkBatchFailed, RequeueAcquire, qvars
  <2>3. CASE GiveBack(w)
    BY <1>1, <2>3 DEF GiveBack, RequeueItem, RequeueReturn
  <2>4. CASE ReadRow(w) \/ SaveRow(w) \/ ClaimDone(w) \/ WriteFiles(w) \/ WriteDone(w)
             \/ Submit(w) \/ SinkFails(w) \/ Reported(w) \/ DbError(w)
    BY <2>4 DEF ReadRow, SaveRow, ClaimDone, WriteFiles, WriteDone, Submit, SinkFails, Reported,
         DbError, QueueAndRowsUnchanged, qvars
  <2> QED BY <1>2, <2>1, <2>2, <2>3, <2>4 DEF Thread
<1>3. ASSUME NEW j \in Jobs, Coordinator(j) \/ DeleteRow(j) \/ CoordinatorDbError(j)
      PROVE  UNCHANGED <<attempts, batch>>
  BY <1>3 DEF Coordinator, SaveParsed, HandOver, HandOverRejected, SaveQueued, SaveReturned,
       Notify, DeleteRow, CoordinatorDbError, qvars, EnqueueNew
<1>4. CASE UNCHANGED vars
  BY <1>4 DEF vars, qvars
<1> QED BY <1>2, <1>3, <1>4 DEF SNext

\* What a step changes about the rounds an item has been given back.
LEMMA RoundsOfAStep ==
  ASSUME PlaceInv, ChargeInv, [SNext]_vars, NEW q \in QueueIds
  PROVE  \/ Rounds(q)' = Rounds(q)
         \/ jobOf[q] = NoJob /\ Rounds(q)' = 0
         \/ \E w \in Workers :
              /\ Retry(w) /\ q \in batch[w]
              /\ Rounds(q) = attempts[q] - 1 /\ Rounds(q)' = attempts[q]
<1>1. /\ status \in [QueueIds -> ItemStatus] /\ attempts \in [QueueIds -> Nat]
      /\ stage \in [Workers -> Stages]
      /\ batch \in [Workers -> SUBSET QueueIds] /\ QInv
  BY DEF PlaceInv, QInv, QTypeOK, STypeOK
<1>2. ASSUME NEW w \in Workers, Thread(w) \/ DbError(w)
      PROVE  \/ Rounds(q)' = Rounds(q)
             \/ /\ Retry(w) /\ q \in batch[w]
                /\ Rounds(q) = attempts[q] - 1 /\ Rounds(q)' = attempts[q]
  <2>1. QInv' /\ \A v \in Workers \ {w} : stage'[v] = stage[v] /\ batch'[v] = batch[v]
    BY <1>2, ThreadSteps DEF Alone
  <2>2. CASE TakeBatch(w) /\ DequeueTake(w)
    <3>1. /\ stage[w] = "loop" /\ UNCHANGED stage
          /\ status' = [status EXCEPT ![Head(fifo)] = "dispatching"]
          /\ attempts' = [attempts EXCEPT ![Head(fifo)] = @ + 1]
          /\ batch' = [batch EXCEPT ![w] = @ \union {Head(fifo)}]
          /\ status[Head(fifo)] = "queued"
      BY <2>2 DEF TakeBatch, DequeueTake, Takes
    <3>2. CASE q = Head(fifo)
      <4>1. Rounds(q) = attempts[q]
        BY <3>1, <3>2 DEF Rounds, GivenBack
      <4>2. status'[q] = "dispatching" /\ attempts'[q] = attempts[q] + 1 /\ q \in batch'[w]
        BY <1>1, <3>1, <3>2
      <4>3. ~GivenBack(q)'
        BY <2>1, <3>1, <4>2 DEF GivenBack, QInv, HeldOnce
      <4> QED BY <1>1, <4>1, <4>2, <4>3 DEF Rounds
    <3>3. CASE q # Head(fifo)
      <4>1. status'[q] = status[q] /\ attempts'[q] = attempts[q]
        BY <1>1, <3>1, <3>3
      <4>2. \A v \in Workers : q \in batch'[v] <=> q \in batch[v]
        BY <1>1, <3>1, <3>3
      <4> QED BY <3>1, <4>1, <4>2 DEF Rounds, GivenBack
    <3> QED BY <3>2, <3>3
  <2>3. CASE Retry(w)
    <3>1. UNCHANGED <<status, attempts, batch>> /\ stage[w] = "decide" /\ stage'[w] = "requeue"
      BY <1>1, <2>3 DEF Retry, RequeueAcquire, Goes
    <3>2. CASE q \in batch[w]
      <4>1. ~GivenBack(q)
        BY <3>1, <3>2, HeldIsDispatching DEF GivenBack, PlaceInv, QInv, HeldOnce
      <4>2. GivenBack(q)'
        BY <3>1, <3>2 DEF GivenBack
      <4> QED BY <2>3, <3>1, <3>2, <4>1, <4>2 DEF Rounds
    <3>3. CASE q \notin batch[w]
      BY <2>1, <3>1, <3>3 DEF Rounds, GivenBack
    <3> QED BY <3>2, <3>3
  <2>4. CASE GiveBack(w)
    <3>1. stage[w] = "requeue" /\ UNCHANGED attempts
      BY <2>4 DEF GiveBack, RequeueItem, RequeueReturn
    <3>2. CASE RequeueItem(w) /\ UNCHANGED stage
      <4>1. PICK r \in batch[w] : /\ status' = [status EXCEPT ![r] = "queued"]
                                  /\ batch' = [batch EXCEPT ![w] = @ \ {r}]
        BY <3>2 DEF RequeueItem
      <4>2. CASE q = r
        <5>1. GivenBack(q) /\ GivenBack(q)'
          BY <1>1, <3>1, <4>1, <4>2 DEF GivenBack
        <5> QED BY <3>1, <5>1 DEF Rounds
      <4>3. CASE q # r
        <5>1. status'[q] = status[q] /\ \A v \in Workers : q \in batch'[v] <=> q \in batch[v]
          BY <1>1, <4>1, <4>3
        <5> QED BY <3>1, <3>2, <5>1 DEF Rounds, GivenBack
      <4> QED BY <4>2, <4>3
    <3>3. CASE RequeueReturn(w)
      BY <2>1, <3>1, <3>3 DEF RequeueReturn, Rounds, GivenBack
    <3> QED BY <2>4, <3>2, <3>3 DEF GiveBack
  <2>5. CASE ~(TakeBatch(w) /\ DequeueTake(w)) /\ ~Retry(w) /\ ~GiveBack(w)
    <3>1. stage[w] # "requeue" /\ stage'[w] # "requeue"
      <4>1. CASE TakeBatch(w) \/ CheckRows(w) \/ ReadRow(w) \/ ClaimDone(w) \/ WriteFiles(w)
        BY <1>1, <4>1 DEF TakeBatch, CheckRows, ReadRow, ClaimDone, WriteFiles, Goes, LoopDone,
             SaveStages
      <4>2. CASE WriteDone(w) \/ Submit(w) \/ SinkFails(w) \/ Completed(w) \/ GiveUp(w)
                 \/ Reported(w)
        BY <1>1, <4>2 DEF WriteDone, Submit, SinkFails, Completed, GiveUp, Reported, Goes,
             LoopDone
      <4>3. CASE DbError(w)
        BY <1>1, <4>3 DEF DbError, Goes, InCall, SaveStages
      <4>4. CASE SaveRow(w)
        BY <4>4, ThreadFacts DEF SaveRow, ThreadIsSound, SaveStages
      <4> QED BY <1>2, <2>5, <4>1, <4>2, <4>3, <4>4 DEF Thread
    <3>2. UNCHANGED attempts
      BY <1>2, <2>5 DEF Thread, DbError, TakeBatch, Dequeue, DequeueAcquire, DequeueSkip,
           DequeueReturn, CheckRows, MarkCompleted, ReadRow, SaveRow, ClaimDone, WriteFiles,
           WriteDone, Submit, SinkFails, Completed, GiveUp, MarkBatchFailed, Reported,
           QueueAndRowsUnchanged, qvars
    <3>3. status'[q] = "queued" <=> status[q] = "queued"
      <4>1. CASE CheckRows(w) \/ Completed(w) \/ GiveUp(w)
        <5>1. \A r \in batch[w] : status[r] # "queued"
          BY HeldIsDispatching
        <5>2. \/ UNCHANGED status
              \/ \E marked \in SUBSET batch[w] : status' = WithStatus(marked, "completed")
              \/ status' = WithStatus(batch[w], "failed")
          BY <4>1 DEF CheckRows, Completed, GiveUp, MarkCompleted, MarkBatchFailed, qvars
        <5> QED BY <5>1, <5>2 DEF WithStatus
      <4>2. CASE ~(CheckRows(w) \/ Completed(w) \/ GiveUp(w))
        BY <1>2, <2>5, <4>2 DEF Thread, DbError, TakeBatch, Dequeue, DequeueAcquire,
             DequeueSkip, DequeueReturn, ReadRow, SaveRow, ClaimDone, WriteFiles, WriteDone,
             Submit, SinkFails, Reported, QueueAndRowsUnchanged, qvars
      <4> QED BY <4>1, <4>2
    <3>4. GivenBack(q)' <=> GivenBack(q)
      BY <2>1, <3>1, <3>3 DEF GivenBack
    <3> QED BY <3>2, <3>4 DEF Rounds
  <2> QED BY <2>2, <2>3, <2>4, <2>5
<1>3. ASSUME NEW j \in Jobs, Coordinator(j) \/ DeleteRow(j) \/ CoordinatorDbError(j)
      PROVE  Rounds(q)' = Rounds(q) \/ (jobOf[q] = NoJob /\ Rounds(q)' = 0)
  <2>1. UNCHANGED <<attempts, batch>>
    BY <1>3 DEF Coordinator, SaveParsed, HandOver, HandOverRejected, SaveQueued, SaveReturned,
         Notify, DeleteRow, CoordinatorDbError, qvars, EnqueueNew
  <2>2. \A v \in Workers : stage'[v] = "requeue" <=> stage[v] = "requeue"
    BY <1>3, OtherRows
  <2>3. CASE HandOver(j)
    <3>1. PICK r \in QueueIds : jobOf[r] = NoJob /\ status' = [status EXCEPT ![r] = "queued"]
      BY <2>3 DEF HandOver, EnqueueNew
    <3>2. CASE q = r
      <4>1. status'[q] = "queued" /\ attempts[q] = 0
        BY <1>1, <3>1, <3>2 DEF ChargeInv
      <4> QED BY <2>1, <3>1, <3>2, <4>1 DEF Rounds, GivenBack
    <3>3. CASE q # r
      BY <1>1, <2>1, <2>2, <3>1, <3>3 DEF Rounds, GivenBack
    <3> QED BY <3>2, <3>3
  <2>4. CASE ~HandOver(j)
    <3>1. UNCHANGED status
      BY <1>3, <2>4 DEF Coordinator, SaveParsed, HandOverRejected, SaveQueued, SaveReturned,
           Notify, DeleteRow, CoordinatorDbError, qvars
    <3> QED BY <2>1, <2>2, <3>1 DEF Rounds, GivenBack
  <2> QED BY <2>3, <2>4
<1>4. CASE UNCHANGED vars
  BY <1>4 DEF vars, svars, qvars, Rounds, GivenBack
<1> QED BY <1>2, <1>3, <1>4 DEF SNext

\* Every step charges what it gives back.
LEMMA ChargeStays ==
  ASSUME PlaceInv, ChargeInv, [SNext]_vars
  PROVE  ChargeInv'
<1>1. PlaceInv' /\ Grows /\ attempts \in [QueueIds -> Nat] /\ MaxRetries \in Nat
  BY PlacesStay, ServiceConstants DEF PlaceInv, QInv, QTypeOK
<1>2. Used \subseteq Used' /\ IsFiniteSet(Used)
  <2>1. Used \subseteq QueueIds
    BY DEF Used
  <2> QED BY <1>1, <2>1, IdsAreFinite, FS_Subset DEF Used, Grows
<1>3. IsFiniteSet(Used')
  <2>1. Used' \subseteq QueueIds
    BY DEF Used
  <2> QED BY <2>1, IdsAreFinite, FS_Subset
<1>4. Charged \in SUBSET (Used \X (1..MaxRetries)) /\ Charged' \in SUBSET (Used' \X (1..MaxRetries))
  BY DEF Charged
<1>5. /\ IsFiniteSet(Charged) /\ IsFiniteSet(Charged')
      /\ Cardinality(Charged) \in Nat /\ Cardinality(Charged') \in Nat
  BY <1>1, <1>2, <1>3, <1>4, PairsFit
<1>6. \A q \in QueueIds : jobOf'[q] = NoJob => jobOf[q] = NoJob
  BY <1>1 DEF Grows
<1>7. \A q \in QueueIds : attempts'[q] >= attempts[q]
  <2>1. CASE UNCHANGED attempts
    BY <1>1, <2>1
  <2>2. CASE \E w \in Workers : DequeueTake(w)
    BY <1>1, <2>2 DEF DequeueTake
  <2> QED BY <2>1, <2>2, AttemptsGrow
\* Nothing that was charged is forgotten.
<1>8. Charged \subseteq Charged'
  <2> SUFFICES ASSUME NEW c \in Charged PROVE c \in Charged'
    OBVIOUS
  <2>1. PICK q \in QueueIds, n \in 1..MaxRetries : c = <<q, n>> /\ q \in Used /\ n <= Rounds(q)
    BY DEF Charged, Used
  <2>2. jobOf[q] # NoJob /\ q \in Used'
    BY <1>2, <2>1 DEF Used
  <2>3. n <= Rounds(q)'
    <3>1. CASE Rounds(q)' = Rounds(q)
      BY <2>1, <3>1
    <3>2. CASE Rounds(q) = attempts[q] - 1 /\ Rounds(q)' = attempts[q]
      BY <1>1, <2>1, <3>2
    <3> QED BY <2>2, <3>1, <3>2, RoundsOfAStep
  <2> QED BY <2>1, <2>2, <2>3 DEF Charged
<1>9. Cardinality(Charged) <= Cardinality(Charged')
  BY <1>5, <1>8, FS_Subset
\* A retry is charged to a member that had budget left.
<1>10. ASSUME NEW w \in Workers, Retry(w)
       PROVE  Cardinality(Charged) + 1 <= Cardinality(Charged')
  <2>1. PICK r \in batch[w] : attempts[r] <= MaxRetries
    BY <1>10 DEF Retry, Retries
  <2>2. r \in QueueIds /\ jobOf[r] # NoJob /\ attempts[r] > 0 /\ status[r] = "dispatching"
    BY <2>1, HeldIsDispatching, SentinelsAreFresh DEF ChargeInv
  <2>3. ~GivenBack(r)
    BY <1>10, <2>1, <2>2 DEF GivenBack, Retry, PlaceInv, QInv, HeldOnce
  <2>4. GivenBack(r)' /\ attempts'[r] = attempts[r]
    <3>1. UNCHANGED <<attempts, batch>> /\ stage'[w] = "requeue"
      BY <1>10 DEF Retry, RequeueAcquire, Goes, PlaceInv, STypeOK
    <3> QED BY <2>1, <3>1 DEF GivenBack
  <2>5. Rounds(r) = attempts[r] - 1 /\ Rounds(r)' = attempts[r]
    BY <2>3, <2>4 DEF Rounds
  <2>6. r \in Used /\ r \in Used' /\ attempts[r] \in 1..MaxRetries
    BY <1>1, <1>2, <2>1, <2>2 DEF Used
  <2>7. <<r, attempts[r]>> \notin Charged
    BY <1>1, <2>2, <2>5 DEF Charged
  <2>8. <<r, attempts[r]>> \in Charged'
    BY <1>1, <2>2, <2>5, <2>6 DEF Charged
  <2> QED BY <1>5, <1>8, <2>7, <2>8, OneMore
<1>11. ASSUME NEW q \in QueueIds PROVE Rounds(q)' <= Cardinality(Charged')
  <2>1. CASE Rounds(q)' = Rounds(q)
    <3>1. Rounds(q) <= Cardinality(Charged)
      BY DEF ChargeInv
    <3>2. Rounds(q) = attempts[q] \/ Rounds(q) = attempts[q] - 1
      BY DEF Rounds
    <3> QED BY <1>1, <1>5, <1>9, <2>1, <3>1, <3>2
  <2>2. CASE Rounds(q)' = 0
    BY <1>5, <2>2
  <2>3. ASSUME NEW w \in Workers, Retry(w),
               Rounds(q) = attempts[q] - 1, Rounds(q)' = attempts[q]
        PROVE  Rounds(q)' <= Cardinality(Charged')
    <3>1. attempts[q] - 1 <= Cardinality(Charged)
      BY <2>3 DEF ChargeInv
    <3> QED BY <1>1, <1>5, <1>10, <2>3, <3>1
  <2> QED BY <2>1, <2>2, <2>3, RoundsOfAStep
<1>12. ASSUME NEW q \in QueueIds, jobOf'[q] = NoJob PROVE attempts'[q] = 0
  <2>1. jobOf[q] = NoJob /\ attempts[q] = 0
    BY <1>6, <1>12 DEF ChargeInv
  <2>2. CASE UNCHANGED attempts
    BY <2>1, <2>2
  <2>3. ASSUME NEW w \in Workers, TakeBatch(w), DequeueTake(w) PROVE attempts'[q] = 0
    <3>1. /\ attempts' = [attempts EXCEPT ![Head(fifo)] = @ + 1]
          /\ status[Head(fifo)] = "queued" /\ status[q] = "absent"
      BY <2>1, <2>3 DEF DequeueTake, Takes, PlaceInv, QInv, UnusedIsAbsent
    <3>2. q # Head(fifo)
      BY <3>1
    <3> QED BY <1>1, <2>1, <3>1, <3>2
  <2> QED BY <2>2, <2>3, AttemptsGrow
<1>13. ASSUME NEW w \in Workers, NEW q \in batch'[w] PROVE attempts'[q] > 0
  <2>1. q \in QueueIds
    BY <1>1, <1>13 DEF PlaceInv, QInv, QTypeOK
  <2>2. CASE q \in batch[w]
    <3>1. attempts[q] > 0
      BY <2>2 DEF ChargeInv
    <3> QED BY <1>1, <1>7, <2>1, <3>1 DEF PlaceInv, QInv, QTypeOK
  <2>3. CASE q \notin batch[w]
    <3>1. PICK v \in Workers : DequeueTake(v)
      BY <1>13, <2>3, AttemptsGrow
    <3>2. /\ attempts' = [attempts EXCEPT ![Head(fifo)] = @ + 1]
          /\ batch' = [batch EXCEPT ![v] = @ \union {Head(fifo)}]
      BY <3>1 DEF DequeueTake
    <3>3. q = Head(fifo)
      BY <1>13, <2>3, <3>2 DEF PlaceInv, QInv, QTypeOK
    <3> QED BY <1>1, <2>1, <3>2, <3>3
  <2> QED BY <2>2, <2>3
<1> QED BY <1>11, <1>12, <1>13 DEF ChargeInv

\* What was charged bounds the attempts.
LEMMA ChargesBound == PlaceInv /\ ChargeInv => RetriesAreBounded
<1> SUFFICES ASSUME PlaceInv, ChargeInv, NEW q \in QueueIds
             PROVE  attempts[q] <= 1 + MaxRetries * Cardinality(Used)
  BY DEF RetriesAreBounded, Used
<1>1. IsFiniteSet(Used)
  <2>1. Used \subseteq QueueIds
    BY DEF Used
  <2> QED BY <2>1, IdsAreFinite, FS_Subset
<1>2. Charged \in SUBSET (Used \X (1..MaxRetries))
  BY DEF Charged
<1>3. /\ Cardinality(Charged) \in Nat /\ Cardinality(Used) \in Nat
      /\ Cardinality(Charged) <= Cardinality(Used) * MaxRetries
  BY <1>1, <1>2, PairsFit, ServiceConstants
<1>4. Cardinality(Used) * MaxRetries = MaxRetries * Cardinality(Used)
  BY <1>3, ServiceConstants
<1>5. Rounds(q) <= Cardinality(Charged) /\ attempts[q] \in Nat
  BY DEF ChargeInv, PlaceInv, QInv, QTypeOK
<1>6. Rounds(q) = attempts[q] \/ Rounds(q) = attempts[q] - 1
  BY DEF Rounds
<1>7. attempts[q] <= 1 + Cardinality(Charged)
  BY <1>3, <1>5, <1>6
<1>8. \A a, b, c \in Nat : a <= 1 + b /\ b <= c => a <= 1 + c
  OBVIOUS
<1>9. Cardinality(Used) * MaxRetries \in Nat
  BY <1>3, ServiceConstants
<1> QED BY <1>3, <1>4, <1>5, <1>7, <1>8, <1>9

-----------------------------------------------------------------------------
(* The invariant and what follows from it                                  *)

SInv == PlaceInv /\ BudgetInv /\ DeliveryInv /\ OwingInv /\ FinishInv /\ ChargeInv

\* Nothing is saved, delivered or charged at first.
LEMMA SInvInit == SInit => SInv
<1> SUFFICES ASSUME SInit PROVE SInv
  OBVIOUS
<1>1. PlaceInv
  BY PlacesStart
<1>2. /\ row = [j \in Jobs |-> [status |-> "parsing", outputs |-> FALSE]]
      /\ \A w \in Workers : stage[w] \in {"loop", "unborn"}
      /\ \A w \in Workers : batch[w] = {}
      /\ \A q \in QueueIds : attempts[q] = 0
  BY DEF SInit, QInit
<1>3. BudgetInv /\ DeliveryInv /\ OwingInv /\ FinishInv
  BY <1>2 DEF BudgetInv, FailedMeansBudgetSpent, DeliveryInv, CompletedMeansDelivered, OwingInv,
              HalfWay, FinishInv, RowIs
<1>4. ChargeInv
  <2>1. Used = {} /\ IsFiniteSet({})
    BY FS_EmptySet DEF SInit, QInit, Used
  <2>2. Charged \in SUBSET (Used \X (1..MaxRetries))
    BY DEF Charged
  <2>3. Cardinality(Charged) \in Nat
    BY <2>1, <2>2, PairsFit, ServiceConstants
  <2>4. \A q \in QueueIds : Rounds(q) \in {0, 0 - 1}
    BY <1>2 DEF Rounds
  <2>5. \A q \in QueueIds : Rounds(q) <= Cardinality(Charged)
    BY <2>3, <2>4
  <2> QED BY <1>2, <2>5 DEF ChargeInv
<1> QED BY <1>1, <1>3, <1>4 DEF SInv

\* The invariant holds in every state of the hand-off: between any two steps
\* of the coordinator, the dispatcher threads and the API.
THEOREM ServiceInvariant == Spec => []SInv
<1>1. SInit => SInv
  BY SInvInit
<1>2. SInv /\ [SNext]_vars => SInv'
  BY PlacesStay, BudgetStays, DeliveryStays, OwingStays, FinishStays, ChargeStays DEF SInv
<1> QED BY <1>1, <1>2, PTL DEF Spec

\* The rows, the threads, the items and the queue hold values of their types
\* in every reachable state.
THEOREM ServiceTypes == Spec => []STypeOK
<1>1. SInv => STypeOK
  BY DEF SInv, PlaceInv
<1> QED BY <1>1, ServiceInvariant, PTL

\* A row is saved as COMPLETED only after every sink of its mode accepted the
\* document, and with its outputs: _dispatch_batch gets to its last loop over
\* no other path, and no other saver writes that status.
THEOREM CompletedIsDelivered == Spec => []CompletedMeansDelivered
<1>1. SInv => CompletedMeansDelivered
  BY DEF SInv, DeliveryInv
<1> QED BY <1>1, ServiceInvariant, PTL

\* A row is saved as FAILED only when the queue has given up its item with
\* its first attempt and all retries spent.
THEOREM FailedIsSpent == Spec => []FailedMeansBudgetSpent
<1>1. SInv => FailedMeansBudgetSpent
  BY DEF SInv, BudgetInv
<1> QED BY <1>1, ServiceInvariant, PTL

\* An item carried along by the budget of its batch mates is attempted at most
\* once more than there are retries to be charged to the items handed over.
THEOREM AttemptsAreBounded == Spec => []RetriesAreBounded
<1>1. SInv => RetriesAreBounded
  BY ChargesBound DEF SInv
<1> QED BY <1>1, ServiceInvariant, PTL

\* As long as the repository does not fail, a row that says DISPATCHING or
\* STORED_LOCAL is in the hands of a thread that has still to save it.
THEOREM HalfWayIsOwed == Spec => []DispatchingIsWorkedOn
<1>1. SInv => DispatchingIsWorkedOn
  <2> SUFFICES ASSUME SInv, NEW j \in Jobs, HalfWay(j), faults.dbErrors = 0
               PROVE  \E w \in Workers : \E q \in batch[w] \union todo[w] : jobOf[q] = j
    BY DEF DispatchingIsWorkedOn, HalfWay
  <2>1. PICK w \in Workers : \E q \in QueueIds : Owes(w, q) /\ jobOf[q] = j
    BY DEF SInv, OwingInv
  <2> QED BY <2>1 DEF Owes
<1> QED BY <1>1, ServiceInvariant, PTL

\* A completed row is never dispatched again and never turns into a failure:
\* late saves can only repeat the status or say DISPATCH_QUEUED.
THEOREM CompletedIsNotRedone == Spec => CompletedRowIsNotRedone
<1>1. SInv /\ [SNext]_vars =>
        [\A j \in Jobs : RowIs(j, "completed") =>
           \/ row'[j] = Deleted
           \/ row'[j].status \in {"completed", "dispatch_queued"}]_vars
  BY CompletedRowStep DEF SInv
<1> QED BY <1>1, ServiceInvariant, PTL DEF Spec, CompletedRowIsNotRedone

-----------------------------------------------------------------------------
(* The queue inside the service                                            *)

\* A step of the service does at most one operation of the queue.
LEMMA ServiceOperation ==
  ASSUME [SNext]_vars
  PROVE  \/ \E j \in Jobs : Client(j)
         \/ \E w \in Workers :
              \/ Dequeue(w)
              \/ \E marked \in SUBSET batch[w] : MarkCompleted(w, marked)
              \/ MarkBatchFailed(w)
              \/ RequeueAcquire(w) \/ RequeueItem(w) \/ RequeueReturn(w)
         \/ UNCHANGED qvars
<1>1. ASSUME NEW w \in Workers, Thread(w) \/ DbError(w)
      PROVE  \/ UNCHANGED qvars
             \/ Dequeue(w)
             \/ \E marked \in SUBSET batch[w] : MarkCompleted(w, marked)
             \/ MarkBatchFailed(w) \/ RequeueAcquire(w) \/ RequeueItem(w) \/ RequeueReturn(w)
  BY <1>1, ThreadOperation
<1>2. ASSUME NEW j \in Jobs, Coordinator(j) \/ DeleteRow(j) \/ CoordinatorDbError(j)
      PROVE  Client(j) \/ UNCHANGED qvars
  BY <1>2 DEF Coordinator, SaveParsed, HandOver, HandOverRejected, SaveQueued, SaveReturned,
     Notify, DeleteRow, CoordinatorDbError, Client
<1>3. CASE UNCHANGED vars
  BY <1>3 DEF vars
<1> QED BY <1>1, <1>2, <1>3 DEF SNext

\* Whatever the coordinator, the dispatcher threads and the API do to the rows
\* between two operations, they use the queue as HandOff: a job is handed over
\* once, an item is dispatched by one thread at a time and ends with the verdict
\* of that thread, and a batch that fails fails as a whole.
THEOREM ServiceKeepsPromise == Spec => PromiseKept
<1>1. SInit => Promise!HInit
  BY EmptyIsSeen DEF SInit
<1>2. SInv /\ SInv' /\ [SNext]_vars => [Promise!HNext]_(Promise!hvars)
  <2> SUFFICES ASSUME SInv, SInv', [SNext]_vars PROVE Promise!HNext \/ UNCHANGED Seen
    BY DEF Promise!hvars, Seen
  <2>1. QInv /\ QInv'
    BY DEF SInv, PlaceInv
  <2> QED BY <2>1, ServiceOperation, OperationIsSeen
<1> QED BY <1>1, <1>2, ServiceInvariant, PTL DEF Spec, PromiseKept, Promise!HSpec

\* Inside the service too, no batch exceeds dispatch_max_bulk_size.
THEOREM BulkRequestsAreSmall == Spec => []BatchesAreSmall
<1>1. SInit => BatchesAreSmall
  BY NobodyHoldsMuch DEF SInit
<1>2. SInv /\ SInv' /\ BatchesAreSmall /\ [SNext]_vars => BatchesAreSmall'
  <2> SUFFICES ASSUME SInv, SInv', BatchesAreSmall, [SNext]_vars PROVE BatchesAreSmall'
    OBVIOUS
  <2>1. QInv /\ QInv'
    BY DEF SInv, PlaceInv
  <2> QED BY <2>1, ServiceOperation, OperationKeepsBatchesSmall
<1> QED BY <1>1, <1>2, ServiceInvariant, PTL DEF Spec

\* A retry blocks in queue.put only while more documents than the queue holds
\* are without a verdict: the finding about the blocked put needs a backlog.
THEOREM RetryBlocksOnBacklogOnly == Spec => []BlockedMeansBacklog
<1>1. SInv => BlockedMeansBacklog
  BY FullFifoIsBacklog DEF SInv, PlaceInv
<1> QED BY <1>1, ServiceInvariant, PTL

-----------------------------------------------------------------------------
(* Rows that stay as they are                                              *)

\* The row of a job is gone, its coordinator has saved what it saves, and no
\* thread keeps what it read of the row.
Gone(j) ==
  /\ row[j] = Deleted /\ co[j] \in {"notify", "done"}
  /\ \A w \in Workers : seen[w] # NoId => jobOf[seen[w].id] # j

\* What a thread comes to have read it has just read.
LEMMA ReadsAreFresh ==
  ASSUME PlaceInv, NEW w \in Workers, Thread(w) \/ DbError(w), seen'[w] # NoId, seen'[w] # seen[w]
  PROVE  row[jobOf[seen'[w].id]] # Deleted
<1>1. seen \in [Workers -> [id : QueueIds, outputs : BOOLEAN] \union {NoId}]
  BY ThreadFacts
<1>2. CASE ReadRow(w) \/ WriteFiles(w)
  <2>1. PICK q \in todo[w] : Get(w, q)
    BY <1>2 DEF ReadRow, WriteFiles
  <2> QED BY <1>1, <2>1 DEF Get
<1>3. CASE SaveRow(w) \/ DbError(w)
  BY <1>1, <1>3 DEF SaveRow, DbError
<1>4. CASE ~(ReadRow(w) \/ WriteFiles(w) \/ SaveRow(w) \/ DbError(w))
  <2>1. UNCHANGED seen
    BY <1>4 DEF Thread, TakeBatch, CheckRows, ClaimDone, WriteDone, Submit, SinkFails, Completed,
       GiveUp, Retry, GiveBack, Reported, QueueAndRowsUnchanged
  <2> QED BY <2>1
<1> QED BY <1>2, <1>3, <1>4

\* The coordinator of a job that has done its saves does not save again, and
\* no other coordinator touches the row.
LEMMA CoordinatorIsThrough ==
  ASSUME PlaceInv, NEW j \in Jobs, co[j] \in {"notify", "done"}, NEW k \in Jobs,
         Coordinator(k) \/ DeleteRow(k) \/ CoordinatorDbError(k)
  PROVE  co'[j] \in {"notify", "done"} /\ (row'[j] = row[j] \/ row'[j] = Deleted)
<1>1. co \in [Jobs -> CoStates] /\ DOMAIN row = Jobs
  BY DEF PlaceInv, STypeOK
<1>2. CASE Coordinator(k)
  BY <1>1, <1>2 DEF Coordinator, SaveParsed, HandOver, HandOverRejected, SaveQueued, SaveReturned,
     Notify, CoGoes, Save
<1>3. CASE DeleteRow(k) \/ CoordinatorDbError(k)
  BY <1>1, <1>3 DEF DeleteRow, CoordinatorDbError
<1> QED BY <1>2, <1>3

\* A row that is gone stays gone.
LEMMA GoneStays ==
  ASSUME PlaceInv, [SNext]_vars, NEW j \in Jobs, Gone(j)
  PROVE  Gone(j)'
<1>1. PlaceInv' /\ Grows
  BY PlacesStay
<1>2. \A w \in Workers : seen[w] # NoId => seen[w].id \in QueueIds /\ jobOf[seen[w].id] # NoJob
  BY ThreadFacts DEF ThreadIsSound
<1>3. \A w \in Workers : seen'[w] = seen[w] /\ seen'[w] # NoId => jobOf'[seen'[w].id] # j
  BY <1>1, <1>2 DEF Gone, Grows
<1>4. ASSUME NEW w \in Workers, Thread(w) \/ DbError(w) PROVE Gone(j)'
  <2>1. Alone(w)
    BY <1>4, ThreadSteps
  <2>2. row'[j] = row[j]
    <3>1. CASE SaveRow(w)
      <4>1. PICK q \in todo[w] : /\ q = seen[w].id /\ jobOf[q] \in Jobs
                                /\ \A k \in Jobs : k # jobOf[q] => row'[k] = row[k]
        BY <3>1, SaveFacts
      <4>2. jobOf[q] # j
        BY <3>1, <4>1 DEF Gone, SaveRow
      <4> QED BY <4>1, <4>2
    <3>2. CASE ~SaveRow(w)
      BY <1>4, <3>2, OnlySavesSave
    <3> QED BY <3>1, <3>2
  <2>3. seen'[w] # NoId => jobOf'[seen'[w].id] # j
    <3>1. CASE seen'[w] = seen[w]
      BY <1>3, <3>1
    <3>2. CASE seen'[w] # seen[w] /\ seen'[w] # NoId
      BY <1>4, <2>1, <3>2, ReadsAreFresh DEF Gone, Alone
    <3> QED BY <3>1, <3>2
  <2>4. \A v \in Workers \ {w} : seen'[v] # NoId => jobOf'[seen'[v].id] # j
    BY <1>3, <2>1 DEF Alone
  <2> QED BY <2>1, <2>2, <2>3, <2>4 DEF Gone, Alone
<1>5. ASSUME NEW k \in Jobs, Coordinator(k) \/ DeleteRow(k) \/ CoordinatorDbError(k)
      PROVE  Gone(j)'
  <2>1. UNCHANGED seen
    BY <1>5, OtherRows
  <2>2. co'[j] \in {"notify", "done"} /\ row'[j] = Deleted
    BY <1>5, CoordinatorIsThrough DEF Gone
  <2> QED BY <1>3, <2>1, <2>2 DEF Gone
<1>6. CASE UNCHANGED vars
  BY <1>6 DEF vars, svars, qvars, Gone
<1> QED BY <1>4, <1>5, <1>6 DEF SNext

\* _save_item_state can bring back a row the API has deleted only from a read
\* that came before the deletion: once no such read is pending and the
\* coordinator is through, a deleted job never reappears.
THEOREM DeletedStaysDeleted ==
  ASSUME NEW j \in Jobs
  PROVE  Spec => [](Gone(j) => []Gone(j))
<1>1. SInv /\ [SNext]_vars /\ Gone(j) => Gone(j)'
  BY GoneStays DEF SInv
<1> QED BY <1>1, ServiceInvariant, PTL DEF Spec

\* The row of a job is completed or gone, its item is done with, and nobody
\* has a save of the row before him.
Over(j) ==
  /\ RowIs(j, "completed") \/ row[j] = Deleted
  /\ ~AboutToSave(j)
  /\ jobIndex[j] # NoId /\ Finished(jobIndex[j])

\* A thread takes an item in hand for a loop only out of its batch, and not
\* one that is finished.
LEMMA FinishedIsNotTakenUp ==
  ASSUME PlaceInv, NEW w \in Workers, Thread(w) \/ DbError(w),
         NEW q \in QueueIds, Finished(q), q \notin todo[w]
  PROVE  q \notin todo'[w]
<1>1. /\ todo \in [Workers -> SUBSET QueueIds] /\ stage \in [Workers -> Stages]
      /\ batch \in [Workers -> SUBSET QueueIds]
  BY ThreadFacts
<1>2. q \in batch[w] => stage[w] \in {"complete", "dead"}
  <2>1. q \in batch[w] => status[q] # "completed"
    BY HeldIsDispatching
  <2>2. \A v \in Workers : v # w => batch[v] \intersect batch[w] = {}
    BY DEF PlaceInv, QInv, HeldOnce
  <2> QED BY <2>1, <2>2 DEF Finished
<1>3. CASE TakeBatch(w) \/ CheckRows(w) \/ ClaimDone(w) \/ WriteDone(w)
  BY <1>1, <1>2, <1>3 DEF TakeBatch, CheckRows, ClaimDone, WriteDone, Goes, LocalItems, LoopDone
<1>4. CASE Submit(w) \/ SinkFails(w) \/ Completed(w) \/ GiveUp(w) \/ Retry(w) \/ Reported(w)
  BY <1>1, <1>2, <1>4 DEF Submit, SinkFails, Completed, GiveUp, Retry, Reported, Goes
<1>5. CASE GiveBack(w) \/ DbError(w)
  BY <1>1, <1>5 DEF GiveBack, DbError, Goes
<1>6. CASE ReadRow(w) \/ SaveRow(w) \/ WriteFiles(w)
  BY <1>1, <1>6 DEF ReadRow, SaveRow, WriteFiles, Get, Handled
<1> QED BY <1>3, <1>4, <1>5, <1>6 DEF Thread

\* What is over stays over.
LEMMA OverStays ==
  ASSUME PlaceInv, [SNext]_vars, NEW j \in Jobs, Over(j)
  PROVE  Over(j)'
<1>1. PlaceInv' /\ Grows /\ jobIndex \in [Jobs -> QueueIds \union {NoId}]
  BY PlacesStay DEF PlaceInv, QInv, QTypeOK
<1>2. PICK q \in QueueIds : q = jobIndex[j] /\ Finished(q)
  BY <1>1 DEF Over
<1>3. /\ co[j] \in {"notify", "done"}
      /\ \A w \in Workers : \A r \in todo[w] : jobOf[r] # j
      /\ jobOf[q] = j /\ jobIndex'[j] = q /\ jobOf'[q] = j
  BY <1>1, <1>2, SentinelsAreFresh DEF Over, AboutToSave, PlaceInv, QInv, IndexIsLive, Grows
<1>4. \A r \in QueueIds : jobOf'[r] = j => r = q
  BY <1>1, <1>3, SentinelsAreFresh DEF PlaceInv, OneItem
<1>5. ASSUME NEW w \in Workers, Thread(w) \/ DbError(w) PROVE Over(j)'
  <2>1. Alone(w)
    BY <1>5, ThreadSteps
  <2>2. Finished(q)'
    BY <1>2, <1>5, FinishedStays
  <2>3. row'[j] = row[j]
    <3>1. CASE SaveRow(w)
      <4>1. PICK r \in todo[w] : /\ jobOf[r] \in Jobs
                                 /\ \A k \in Jobs : k # jobOf[r] => row'[k] = row[k]
        BY <3>1, SaveFacts
      <4> QED BY <1>3, <4>1
    <3>2. CASE ~SaveRow(w)
      BY <1>5, <3>2, OnlySavesSave
    <3> QED BY <3>1, <3>2
  <2>4. q \notin todo'[w]
    BY <1>2, <1>3, <1>5, FinishedIsNotTakenUp
  <2>5. \A v \in Workers : q \notin todo'[v] /\ todo'[v] \subseteq QueueIds
    BY <1>1, <1>3, <2>1, <2>4 DEF Alone, PlaceInv, STypeOK
  <2>6. ~AboutToSave(j)'
    BY <1>3, <1>4, <2>1, <2>5 DEF AboutToSave, Alone
  <2>7. jobIndex'[j] # NoId /\ Finished(jobIndex[j])'
    BY <1>2, <1>3, <2>2, SentinelsAreFresh DEF Finished
  <2> QED BY <2>3, <2>6, <2>7 DEF Over, RowIs
<1>6. ASSUME NEW k \in Jobs, Coordinator(k) \/ DeleteRow(k) \/ CoordinatorDbError(k)
      PROVE  Over(j)'
  <2>1. /\ UNCHANGED <<todo, batch>>
        /\ \A w \in Workers : stage[w] \in {"complete", "dead"} => stage'[w] = stage[w]
    BY <1>6, OtherRows
  <2>2. co'[j] \in {"notify", "done"} /\ (row'[j] = row[j] \/ row'[j] = Deleted)
    BY <1>3, <1>6, CoordinatorIsThrough
  <2>3. Finished(q)'
    BY <1>1, <1>2, <2>1 DEF Finished, Grows, Terminal
  <2>4. \A w \in Workers : \A r \in todo[w] : r \in QueueIds /\ r # q
    BY <1>3 DEF PlaceInv, STypeOK
  <2>5. ~AboutToSave(j)'
    BY <1>4, <2>1, <2>2, <2>4 DEF AboutToSave
  <2>6. jobIndex'[j] # NoId /\ Finished(jobIndex[j])'
    BY <1>2, <1>3, <2>3, SentinelsAreFresh DEF Finished
  <2> QED BY <2>2, <2>5, <2>6 DEF Over, RowIs
<1>7. CASE UNCHANGED vars
  BY <1>7 DEF vars, svars, qvars, Over, RowIs, AboutToSave, Finished
<1> QED BY <1>5, <1>6, <1>7 DEF SNext

\* A completed row can be overwritten only by a save that was under way when it
\* was completed: with its coordinator through and no thread about to save it,
\* it says COMPLETED until the API deletes it.
THEOREM CompletedStaysCompleted ==
  ASSUME NEW j \in Jobs
  PROVE  Spec => [](RowIs(j, "completed") /\ ~AboutToSave(j)
                      => [](RowIs(j, "completed") \/ row[j] = Deleted))
<1>1. SInv /\ RowIs(j, "completed") /\ ~AboutToSave(j) => Over(j)
  BY DEF SInv, FinishInv, Over
<1>2. SInv /\ [SNext]_vars /\ Over(j) => Over(j)'
  BY OverStays DEF SInv
<1>3. Over(j) => RowIs(j, "completed") \/ row[j] = Deleted
  BY DEF Over
<1> QED BY <1>1, <1>2, <1>3, ServiceInvariant, PTL DEF Spec

-----------------------------------------------------------------------------
(* When a delivered document is not reported as failed                     *)

\* A failure of one document never concerns another: batches of one, or one
\* bulk request for all of them.
MatesShareTheirFate == MaxBulk = 1 \/ \A j \in Jobs : SinkMode[j] = "elastic"

\* The sink a document is given to last.
LastSink(j) == IF SinkMode[j] = "local" THEN "local" ELSE "elastic"

\* No failure can reach the item any more: it is completed, or its thread has
\* nothing left to do for it but to save its row.
PastFailing(q) ==
  \/ status[q] = "completed"
  \/ \E w \in Workers :
       /\ q \in batch[w]
       /\ \/ stage[w] = "complete"
          \/ /\ stage[w] = "write" /\ MaxBulk = 1 /\ SinkMode[jobOf[q]] = "local"
             /\ todo[w] = {} \/ seen[w] # NoId

ServedInv ==
  faults.dbErrors = 0 =>
    \A j \in Jobs :
      LastSink(j) \in delivered[j] => \E q \in QueueIds : jobIndex[j] = q /\ PastFailing(q)

\* A batch of at most one item is that item.
LEMMA AloneInBatch ==
  ASSUME PlaceInv, BatchesAreSmall, MaxBulk = 1, NEW w \in Workers, NEW q \in batch[w]
  PROVE  batch[w] = {q}
<1> SUFFICES ASSUME NEW r \in batch[w], r # q PROVE FALSE
  OBVIOUS
<1>1. batch[w] \in SUBSET QueueIds /\ {q} \in SUBSET QueueIds /\ {q, r} \in SUBSET QueueIds
  BY ThreadFacts
<1>2. Cardinality({q}) = 1
  BY FS_Singleton
<1>3. Cardinality({q} \union {r}) = Cardinality({q}) + 1
  BY <1>1, IdsCount, FS_AddElement
<1>4. {q} \union {r} = {q, r}
  OBVIOUS
<1>5. Cardinality({q, r}) <= Cardinality(batch[w])
  BY <1>1, IdsCount, FS_Subset
<1>6. Cardinality(batch[w]) <= 1 /\ Cardinality(batch[w]) \in Nat
  BY <1>1, IdsCount DEF BatchesAreSmall
<1> QED BY <1>2, <1>3, <1>4, <1>5, <1>6

\* An item that is past failing stays so, as long as the repository does not
\* fail.
LEMMA PastStaysPast ==
  ASSUME PlaceInv, BatchesAreSmall, NEW w \in Workers, Thread(w), ~DbError(w),
         NEW q \in QueueIds, PastFailing(q)
  PROVE  PastFailing(q)'
<1>1. QInv' /\ Grows /\ Alone(w)
  BY ThreadSteps
<1>2. CASE status[q] = "completed"
  BY <1>1, <1>2 DEF Grows, Terminal, PastFailing
<1>3. ASSUME NEW v \in Workers, v # w, q \in batch[v],
             \/ stage[v] = "complete"
             \/ /\ stage[v] = "write" /\ MaxBulk = 1 /\ SinkMode[jobOf[q]] = "local"
                /\ todo[v] = {} \/ seen[v] # NoId
      PROVE  PastFailing(q)'
  BY <1>1, <1>3 DEF Alone, PastFailing
<1>4. ThreadIsSound(w) /\ stage \in [Workers -> Stages] /\ todo \in [Workers -> SUBSET QueueIds]
  BY ThreadFacts
<1>5. CASE stage[w] = "complete" /\ q \in batch[w]
  <2>1. CASE Completed(w)
    <3>1. status'[q] = "completed"
      BY <1>5, <2>1 DEF Completed, MarkCompleted, WithStatus
    <3> QED BY <3>1 DEF PastFailing
  <2>2. CASE ReadRow(w) \/ SaveRow(w)
    <3>1. UNCHANGED <<batch, stage>>
      BY <2>2 DEF ReadRow, SaveRow, qvars
    <3> QED BY <1>5, <3>1 DEF PastFailing
  <2>3. ~(TakeBatch(w) \/ CheckRows(w) \/ ClaimDone(w) \/ WriteFiles(w) \/ WriteDone(w)
          \/ Submit(w) \/ SinkFails(w) \/ GiveUp(w) \/ Retry(w) \/ GiveBack(w) \/ Reported(w))
    BY <1>5 DEF TakeBatch, CheckRows, ClaimDone, WriteFiles, WriteDone, Submit, SinkFails, GiveUp,
       Retry, GiveBack, Reported, LoopDone
  <2> QED BY <2>1, <2>2, <2>3 DEF Thread
<1>6. CASE /\ stage[w] = "write" /\ MaxBulk = 1 /\ SinkMode[jobOf[q]] = "local" /\ q \in batch[w]
           /\ todo[w] = {} \/ seen[w] # NoId
  <2>1. batch[w] = {q}
    BY <1>6, AloneInBatch
  <2>2. CASE SaveRow(w)
    <3>1. PICK r \in todo[w] : todo'[w] = todo[w] \ {r} /\ UNCHANGED <<qvars, stage>>
      BY <2>2, SaveFacts
    <3>2. todo[w] \subseteq {q}
      BY <1>4, <1>6, <2>1 DEF ThreadIsSound
    <3>3. todo'[w] = {}
      BY <3>1, <3>2
    <3>4. q \in batch'[w] /\ stage'[w] = "write" /\ jobOf' = jobOf
      BY <1>6, <3>1 DEF qvars
    <3> QED BY <1>6, <3>3, <3>4 DEF PastFailing
  <2>3. CASE WriteDone(w)
    <3>1. ElasticItems(w) = {}
      BY <1>6, <2>1 DEF ElasticItems, SendsElastic
    <3>2. stage'[w] = "complete"
      BY <1>4, <2>3, <3>1 DEF WriteDone, Goes
    <3>3. q \in batch'[w]
      BY <1>6, <2>3 DEF WriteDone, QueueAndRowsUnchanged, qvars
    <3> QED BY <3>2, <3>3 DEF PastFailing
  <2>4. ~(TakeBatch(w) \/ CheckRows(w) \/ ReadRow(w) \/ ClaimDone(w) \/ WriteFiles(w)
          \/ Submit(w) \/ SinkFails(w) \/ Completed(w) \/ GiveUp(w) \/ Retry(w) \/ GiveBack(w)
          \/ Reported(w))
    BY <1>6 DEF TakeBatch, CheckRows, ReadRow, ClaimDone, WriteFiles, Submit, SinkFails,
       Completed, GiveUp, Retry, GiveBack, Reported, LoopDone, SaveStages
  <2> QED BY <2>2, <2>3, <2>4 DEF Thread
<1> QED BY <1>2, <1>3, <1>5, <1>6 DEF PastFailing

\* The step that gives a document to its last sink puts its item past failing.
LEMMA LastSinkIsPast ==
  ASSUME PlaceInv, BatchesAreSmall, MatesShareTheirFate, NEW w \in Workers, Thread(w),
         NEW j \in Jobs, LastSink(j) \notin delivered[j], LastSink(j) \in delivered'[j]
  PROVE  \E q \in QueueIds : jobIndex[j] = q /\ PastFailing(q)'
<1>1. /\ ThreadIsSound(w) /\ stage \in [Workers -> Stages] /\ todo \in [Workers -> SUBSET QueueIds]
      /\ batch[w] \subseteq QueueIds /\ delivered \in [Jobs -> SUBSET {"local", "elastic"}]
      /\ seen \in [Workers -> [id : QueueIds, outputs : BOOLEAN] \union {NoId}]
  BY ThreadFacts DEF PlaceInv, STypeOK
<1>2. \A q \in batch[w] : jobOf[q] \in Jobs /\ jobIndex[jobOf[q]] = q
  BY <1>1, HeldIsDispatching, SentinelsAreFresh DEF PlaceInv, OneItem
<1>3. CASE WriteFiles(w)
  <2>1. PICK q \in todo[w] :
          delivered' = [delivered EXCEPT ![jobOf[q]] = @ \union {"local"}] /\ Get(w, q)
    BY <1>3 DEF WriteFiles
  <2>2. stage[w] = "write" /\ UNCHANGED <<stage, batch, jobOf>> /\ q \in batch[w]
    BY <1>1, <1>3 DEF WriteFiles, qvars, ThreadIsSound
  <2>3. j = jobOf[q] /\ LastSink(j) = "local"
    BY <1>1, <2>1
  <2>4. SinkMode[j] = "local" /\ MaxBulk = 1
    BY <2>3 DEF LastSink, MatesShareTheirFate
  <2>5. batch[w] = {q} /\ todo[w] = {q}
    BY <1>1, <2>1, <2>2, <2>4, AloneInBatch DEF ThreadIsSound
  <2>6. todo'[w] = {} \/ seen'[w] # NoId
    <3>1. CASE row[jobOf[q]] = Deleted
      BY <1>1, <2>1, <2>5, <3>1 DEF Get, Handled
    <3>2. CASE row[jobOf[q]] # Deleted
      <4>1. seen'[w] = [id |-> q, outputs |-> row[jobOf[q]].outputs]
        BY <1>1, <2>1, <3>2 DEF Get
      <4>2. row[jobOf[q]].outputs \in BOOLEAN
        BY <1>1, <1>2, <2>2, <3>2 DEF PlaceInv, STypeOK, Row
      <4>3. [id |-> q, outputs |-> row[jobOf[q]].outputs] \in [id : QueueIds, outputs : BOOLEAN]
        BY <1>1, <2>1, <4>2
      <4> QED BY <4>1, <4>3, NoReadIsFresh
    <3> QED BY <3>1, <3>2
  <2>7. q \in QueueIds /\ jobIndex[j] = q
    BY <1>1, <1>2, <2>2, <2>3
  <2>8. q \in batch'[w] /\ stage'[w] = "write" /\ SinkMode[jobOf'[q]] = "local"
    BY <2>2, <2>3, <2>4
  <2> QED BY <2>4, <2>6, <2>7, <2>8 DEF PastFailing
<1>4. CASE Submit(w)
  <2>1. PICK q \in ElasticItems(w) : jobOf[q] = j
    BY <1>1, <1>4 DEF Submit
  <2>2. q \in batch[w] /\ stage'[w] = "complete" /\ UNCHANGED batch
    BY <1>1, <1>4, <2>1 DEF Submit, Goes, ElasticItems, QueueAndRowsUnchanged, qvars
  <2> QED BY <1>1, <1>2, <2>1, <2>2 DEF PastFailing
<1>5. CASE ~(WriteFiles(w) \/ Submit(w))
  <2>1. UNCHANGED delivered
    BY <1>5 DEF Thread, TakeBatch, CheckRows, ReadRow, SaveRow, ClaimDone, WriteDone, SinkFails,
       Completed, GiveUp, Retry, GiveBack, Reported
  <2> QED BY <2>1
<1> QED BY <1>3, <1>4, <1>5

\* A document that was given to its last sink is on an item past failing, from
\* one step to the next.
LEMMA ServedStays ==
  ASSUME PlaceInv, BatchesAreSmall, MatesShareTheirFate, ServedInv, [SNext]_vars
  PROVE  ServedInv'
<1>1. PlaceInv' /\ Grows
  BY PlacesStay
<1>2. faults \in [deletes : 0..MaxDeletes, dbErrors : 0..MaxDbErrors] /\ jobIndex \in [Jobs -> QueueIds \union {NoId}]
  BY DEF PlaceInv, STypeOK, QTypeOK
<1>3. CASE UNCHANGED vars
  BY <1>3 DEF vars, svars, qvars, ServedInv, PastFailing
<1>4. ASSUME NEW k \in Jobs, Coordinator(k) \/ DeleteRow(k) \/ CoordinatorDbError(k)
      PROVE  ServedInv'
  <2>1. /\ UNCHANGED <<todo, seen, batch, delivered>>
        /\ \A w \in Workers : stage'[w] = stage[w] \/ (stage[w] = "unborn" /\ stage'[w] = "loop")
        /\ faults'.dbErrors = 0 => faults.dbErrors = 0
    BY <1>4, OtherRows
  <2> SUFFICES ASSUME faults'.dbErrors = 0, NEW j \in Jobs, LastSink(j) \in delivered'[j]
               PROVE  \E q \in QueueIds : jobIndex'[j] = q /\ PastFailing(q)'
    BY DEF ServedInv
  <2>2. PICK q \in QueueIds : jobIndex[j] = q /\ PastFailing(q)
    BY <2>1 DEF ServedInv
  <2>3. jobIndex'[j] = q
    BY <1>1, <2>2, SentinelsAreFresh DEF Grows
  <2>4. CASE status[q] = "completed"
    <3>1. status'[q] = "completed"
      BY <1>1, <2>4 DEF Grows, Terminal
    <3> QED BY <2>3, <3>1 DEF PastFailing
  <2>5. ASSUME NEW w \in Workers, q \in batch[w],
               \/ stage[w] = "complete"
               \/ /\ stage[w] = "write" /\ MaxBulk = 1 /\ SinkMode[jobOf[q]] = "local"
                  /\ todo[w] = {} \/ seen[w] # NoId
        PROVE  PastFailing(q)'
    <3>1. jobOf'[q] = jobOf[q]
      BY <1>1, <2>5, HeldIsDispatching, SentinelsAreFresh DEF Grows
    <3>2. stage'[w] = stage[w]
      BY <2>1, <2>5
    <3>3. batch'[w] = batch[w] /\ todo'[w] = todo[w] /\ seen'[w] = seen[w]
      BY <2>1
    <3> QED BY <2>5, <3>1, <3>2, <3>3 DEF PastFailing
  <2> QED BY <2>2, <2>3, <2>4, <2>5 DEF PastFailing
<1>5. ASSUME NEW w \in Workers, DbError(w)
      PROVE  ServedInv'
  BY <1>2, <1>5 DEF DbError, ServedInv
<1>6. ASSUME NEW w \in Workers, Thread(w), ~DbError(w)
      PROVE  ServedInv'
  <2>1. UNCHANGED faults /\ UNCHANGED jobIndex
    <3>1. Alone(w)
      BY <1>6, ThreadSteps
    <3> QED BY <1>6, <3>1 DEF Alone, Thread, TakeBatch, CheckRows, ReadRow, SaveRow, ClaimDone,
         WriteFiles, WriteDone, Submit, SinkFails, Completed, GiveUp, Retry, GiveBack, Reported,
         QueueAndRowsUnchanged
  <2> SUFFICES ASSUME faults'.dbErrors = 0, NEW j \in Jobs, LastSink(j) \in delivered'[j]
               PROVE  \E q \in QueueIds : jobIndex[j] = q /\ PastFailing(q)'
    BY <2>1 DEF ServedInv
  <2>2. CASE LastSink(j) \in delivered[j]
    <3>1. PICK q \in QueueIds : jobIndex[j] = q /\ PastFailing(q)
      BY <2>1, <2>2 DEF ServedInv
    <3> QED BY <1>6, <3>1, PastStaysPast
  <2>3. CASE LastSink(j) \notin delivered[j]
    BY <1>6, <2>3, LastSinkIsPast
  <2> QED BY <2>2, <2>3
<1> QED BY <1>3, <1>4, <1>5, <1>6 DEF SNext

\* An item past failing has not failed, so a row that says FAILED belongs to a
\* document its last sink has not accepted.
LEMMA ServedIsNotFailed ==
  ASSUME PlaceInv, FailedMeansBudgetSpent, ServedInv, faults.dbErrors = 0
  PROVE  DeliveredIsNotFailed
<1> SUFFICES ASSUME NEW j \in Jobs, RowIs(j, "failed"), RequiredSinks(j) \subseteq delivered[j]
             PROVE  FALSE
  BY DEF DeliveredIsNotFailed
<1>1. SinkMode[j] \in SinkModes
  BY ServiceConstants
<1>2. LastSink(j) \in RequiredSinks(j)
  BY <1>1 DEF LastSink, RequiredSinks, SinkModes
<1>3. PICK q \in QueueIds : jobOf[q] = j /\ status[q] = "failed"
  BY DEF FailedMeansBudgetSpent
<1>4. jobIndex[j] = q
  BY <1>3, SentinelsAreFresh DEF PlaceInv, OneItem
<1>5. PastFailing(q)
  BY <1>2, <1>4 DEF ServedInv
<1>6. PICK w \in Workers : q \in batch[w]
  BY <1>3, <1>5 DEF PastFailing
<1>7. status[q] = "dispatching"
  BY <1>6, HeldIsDispatching
<1> QED BY <1>3, <1>7

\* The batch rule of docs/embedding-handoff.md:53-54 fails only where documents
\* share a batch without sharing their sinks, or where the repository fails: in
\* batches of one, and with the Elastic sink alone, a job all of whose sinks
\* accepted its document is never reported as failed.
THEOREM DeliveredFailsOnlyWithMates ==
  ASSUME MatesShareTheirFate
  PROVE  Spec => [](faults.dbErrors = 0 => DeliveredIsNotFailed)
<1>1. SInit => ServedInv
  BY DEF SInit, ServedInv
<1>2. MatesShareTheirFate /\ SInv /\ BatchesAreSmall /\ ServedInv /\ [SNext]_vars => ServedInv'
  BY ServedStays DEF SInv
<1>3. Spec => []SInv /\ []BatchesAreSmall
  BY ServiceInvariant, BulkRequestsAreSmall, PTL
<1>4. SInv /\ ServedInv => (faults.dbErrors = 0 => DeliveredIsNotFailed)
  BY ServedIsNotFailed DEF SInv, BudgetInv
<1> QED BY <1>1, <1>2, <1>3, <1>4, PTL DEF Spec
=============================================================================
