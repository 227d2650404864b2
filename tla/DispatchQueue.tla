--------------------------- MODULE DispatchQueue ---------------------------
(***************************************************************************)
(* The process-local hand-off queue between the parser and the dispatcher  *)
(* threads: class ParsedDocumentDispatchQueueService.                      *)
(*                                                                         *)
(* The object keeps three structures under one lock: _items (queue id to   *)
(* item), _job_index (job id to queue id) and _queue, a bounded FIFO of    *)
(* queue ids.  A dispatcher thread takes a batch of items out of the FIFO, *)
(* works on its copies of them outside the lock, and reports the batch     *)
(* back as completed or failed.                                            *)
(*                                                                         *)
(* Abstractions.  An item is what the queue decides on: its job, status    *)
(* and number of attempts; the parsed document it carries is left out.     *)
(* The list a batch is kept in becomes a set, so the members of a batch    *)
(* are handled in any order, the code's included.  An operation that       *)
(* neither blocks nor calls out while it holds the lock is one step; the   *)
(* two that loop over the FIFO, dequeue_batch and mark_batch_failed, are   *)
(* a step per iteration with the lock held between them.                   *)
(***************************************************************************)
EXTENDS Naturals, Sequences, FiniteSets

CONSTANTS
  Jobs,      \* job ids
  QueueIds,  \* the supply of uuid4() queue ids (bounds how many items are created)
  Workers,   \* dispatcher threads
  MaxSize,   \* capacity of the FIFO, settings.dispatch_queue_max_size
  MaxBulk,   \* largest batch, settings.dispatch_max_bulk_size
  AttemptCap, \* bound of the model: a caller of this module re-queues no item
              \* that was taken this often (DispatchService has the real rule)
  NoJob, NoId, NoWorker

ASSUME SizesAreLegal == MaxSize \in Nat \ {0} /\ MaxBulk \in 1..5
ASSUME SentinelsAreFresh ==
  NoJob \notin Jobs /\ NoId \notin QueueIds /\ NoWorker \notin Workers
ASSUME IdsAreFinite == IsFiniteSet(QueueIds)

VARIABLES
  status,    \* status of each item; "absent" when _items has no such key
  attempts,  \* attempts of each item (also of a thread's copy of it)
  jobOf,     \* the job an id was created for; NoJob while the id is unused
  jobIndex,  \* _job_index; NoId when the job has no entry
  fifo,      \* _queue
  lock,      \* the thread that keeps _lock between two steps, or NoWorker
  pc,        \* what each thread is doing
  batch      \* the ids of the items a thread has taken and not reported back

qvars == <<status, attempts, jobOf, jobIndex, fifo, lock, pc, batch>>

ItemStatus == {"absent", "queued", "dispatching", "completed", "failed"}
Terminal == {"completed", "failed"}

QTypeOK ==
  /\ status \in [QueueIds -> ItemStatus]
  /\ attempts \in [QueueIds -> Nat]
  /\ jobOf \in [QueueIds -> Jobs \union {NoJob}]
  /\ jobIndex \in [Jobs -> QueueIds \union {NoId}]
  /\ fifo \in Seq(QueueIds)
  /\ Len(fifo) <= MaxSize
  /\ lock \in Workers \union {NoWorker}
  /\ pc \in [Workers -> {"idle", "dequeue", "busy", "requeue"}]
  /\ batch \in [Workers -> SUBSET QueueIds]

QInit ==
  /\ status = [q \in QueueIds |-> "absent"]
  /\ attempts = [q \in QueueIds |-> 0]
  /\ jobOf = [q \in QueueIds |-> NoJob]
  /\ jobIndex = [j \in Jobs |-> NoId]
  /\ fifo = << >>
  /\ lock = NoWorker
  /\ pc = [w \in Workers |-> "idle"]
  /\ batch = [w \in Workers |-> {}]

\* Faulty variants, each the slip a change to this class could make; nothing
\* refers to them, they are substituted to see which property notices.
FullOffByOne == Len(fifo) > MaxSize
PutForgotten(s, q) == s
GotWithoutPop(s) == s
IndexKept(j) == jobIndex
TakesOnlyOnce(q) == status[q] = "queued" /\ attempts[q] = 0
PutInFront(s, q) == <<q>> \o s

LockFree == lock = NoWorker
Full == Len(fifo) >= MaxSize

\* The FIFO after queue.put / put_nowait of an id, and after get_nowait.
Put(s, q) == Append(s, q)
Got(s) == Tail(s)

-----------------------------------------------------------------------------
(* enqueue_parse_result: the existing item, a new one, or an error.        *)

EnqueueExisting(j) ==
  /\ LockFree
  /\ jobIndex[j] # NoId
  /\ UNCHANGED qvars

EnqueueNew(j) ==
  /\ LockFree
  /\ jobIndex[j] = NoId
  /\ ~Full
  /\ \E q \in QueueIds :
       /\ jobOf[q] = NoJob
       /\ jobOf' = [jobOf EXCEPT ![q] = j]
       /\ status' = [status EXCEPT ![q] = "queued"]
       /\ jobIndex' = [jobIndex EXCEPT ![j] = q]
       /\ fifo' = Put(fifo, q)
  /\ UNCHANGED <<attempts, lock, pc, batch>>

\* put_nowait raises Full and the two insertions are undone before the
\* lock is released.  The rejected payload (max_payload_bytes) also raises
\* and changes nothing, before the lock is even taken.
EnqueueFull(j) ==
  /\ LockFree
  /\ jobIndex[j] = NoId
  /\ Full
  /\ UNCHANGED qvars

-----------------------------------------------------------------------------
(* remove_by_job_id: the id stays in the FIFO, and a thread that already   *)
(* holds the item keeps its copy.                                          *)

IndexWithout(j) == [jobIndex EXCEPT ![j] = NoId]

RemoveByJobId(j) ==
  /\ LockFree
  /\ jobIndex[j] # NoId
  /\ status' = [status EXCEPT ![jobIndex[j]] = "absent"]
  /\ jobIndex' = IndexWithout(j)
  /\ UNCHANGED <<attempts, jobOf, fifo, lock, pc, batch>>

-----------------------------------------------------------------------------
(* dequeue_batch: pop ids until the batch is full or the FIFO is empty.    *)

Takes(q) == status[q] = "queued"
BatchFull(w) == Cardinality(batch[w]) >= MaxBulk

DequeueAcquire(w) ==
  /\ pc[w] = "idle"
  /\ LockFree
  /\ lock' = w
  /\ pc' = [pc EXCEPT ![w] = "dequeue"]
  /\ UNCHANGED <<status, attempts, jobOf, jobIndex, fifo, batch>>

DequeueTake(w) ==
  /\ pc[w] = "dequeue"
  /\ fifo # << >> /\ ~BatchFull(w)
  /\ Takes(Head(fifo))
  /\ fifo' = Got(fifo)
  /\ status' = [status EXCEPT ![Head(fifo)] = "dispatching"]
  /\ attempts' = [attempts EXCEPT ![Head(fifo)] = @ + 1]
  /\ batch' = [batch EXCEPT ![w] = @ \union {Head(fifo)}]
  /\ UNCHANGED <<jobOf, jobIndex, lock, pc>>

\* The id of an item that was removed meanwhile is dropped.
DequeueSkip(w) ==
  /\ pc[w] = "dequeue"
  /\ fifo # << >> /\ ~BatchFull(w)
  /\ ~Takes(Head(fifo))
  /\ fifo' = Got(fifo)
  /\ UNCHANGED <<status, attempts, jobOf, jobIndex, lock, pc, batch>>

DequeueReturn(w) ==
  /\ pc[w] = "dequeue"
  /\ fifo = << >> \/ BatchFull(w)
  /\ lock' = NoWorker
  /\ pc' = [pc EXCEPT ![w] = IF batch[w] = {} THEN "idle" ELSE "busy"]
  /\ UNCHANGED <<status, attempts, jobOf, jobIndex, fifo, batch>>

-----------------------------------------------------------------------------
(* mark_completed(items) and mark_batch_failed(items, retry).  Both write  *)
(* the caller's copies back, so they re-insert an item that was removed.   *)

WithStatus(ids, s) == [q \in QueueIds |-> IF q \in ids THEN s ELSE status[q]]
Unmarked(ids, marked) == ids \ marked

MarkCompleted(w, marked) ==
  /\ pc[w] = "busy"
  /\ LockFree
  /\ marked # {} /\ marked \subseteq batch[w]
  /\ status' = WithStatus(marked, "completed")
  /\ batch' = [batch EXCEPT ![w] = Unmarked(@, marked)]
  /\ pc' = [pc EXCEPT ![w] = IF batch'[w] = {} THEN "idle" ELSE "busy"]
  /\ UNCHANGED <<attempts, jobOf, jobIndex, fifo, lock>>

MarkBatchFailed(w) ==
  /\ pc[w] = "busy"
  /\ LockFree
  /\ status' = WithStatus(batch[w], "failed")
  /\ batch' = [batch EXCEPT ![w] = {}]
  /\ pc' = [pc EXCEPT ![w] = "idle"]
  /\ UNCHANGED <<attempts, jobOf, jobIndex, fifo, lock>>

RequeueAcquire(w) ==
  /\ pc[w] = "busy"
  /\ LockFree
  /\ lock' = w
  /\ pc' = [pc EXCEPT ![w] = "requeue"]
  /\ UNCHANGED <<status, attempts, jobOf, jobIndex, fifo, batch>>

\* queue.put blocks while the FIFO is full, and the lock stays taken: the
\* threads that could make room wait for that lock.
RequeueItem(w) ==
  /\ pc[w] = "requeue"
  /\ ~Full
  /\ \E q \in batch[w] :
       /\ status' = [status EXCEPT ![q] = "queued"]
       /\ fifo' = Put(fifo, q)
       /\ batch' = [batch EXCEPT ![w] = @ \ {q}]
  /\ UNCHANGED <<attempts, jobOf, jobIndex, lock, pc>>

RequeueReturn(w) ==
  /\ pc[w] = "requeue"
  /\ batch[w] = {}
  /\ lock' = NoWorker
  /\ pc' = [pc EXCEPT ![w] = "idle"]
  /\ UNCHANGED <<status, attempts, jobOf, jobIndex, fifo, batch>>

-----------------------------------------------------------------------------
Dequeue(w) ==
  DequeueAcquire(w) \/ DequeueTake(w) \/ DequeueSkip(w) \/ DequeueReturn(w)

Report(w) ==
  \/ \E marked \in SUBSET batch[w] : MarkCompleted(w, marked)
  \/ MarkBatchFailed(w)
  \/ (\A q \in batch[w] : attempts[q] < AttemptCap) /\ RequeueAcquire(w)
  \/ RequeueItem(w)
  \/ RequeueReturn(w)

Client(j) ==
  EnqueueExisting(j) \/ EnqueueNew(j) \/ EnqueueFull(j) \/ RemoveByJobId(j)

QNext ==
  \/ \E j \in Jobs : Client(j)
  \/ \E w \in Workers : Dequeue(w) \/ Report(w)

QSpec == QInit /\ [][QNext]_qvars

\* The dispatcher threads loop for ever (_run_loop) and a thread that holds
\* the lock or a batch is always scheduled again.
QFairSpec == QSpec /\ \A w \in Workers : WF_qvars(Dequeue(w) \/ Report(w))

-----------------------------------------------------------------------------
(* Properties                                                              *)

InFifo(q) == \E i \in 1..Len(fifo) : fifo[i] = q

\* An id is in one place only: once in the FIFO or in the batch of one
\* thread.  No two threads ever work on the same item, whatever mix of
\* re-queues, removals and late reports came before.
HeldOnce ==
  /\ \A i, k \in 1..Len(fifo) : fifo[i] = fifo[k] => i = k
  /\ \A w \in Workers : \A q \in batch[w] : ~InFifo(q)
  /\ \A v, w \in Workers : v # w => batch[v] \intersect batch[w] = {}

\* No item is lost: one that says QUEUED has its id in the FIFO, where the
\* next dequeue_batch finds it, and one that says DISPATCHING is in the
\* hands of a thread that will report it.
NothingLost ==
  \A q \in QueueIds :
    /\ status[q] = "queued" => InFifo(q)
    /\ status[q] = "dispatching" => \E w \in Workers : q \in batch[w]

\* The index never dangles: enqueue_parse_result returns
\* self._items[existing_id] without a check (a KeyError otherwise), and what
\* it returns is this job's item.
IndexIsLive ==
  \A j \in Jobs :
    jobIndex[j] # NoId => status[jobIndex[j]] # "absent" /\ jobOf[jobIndex[j]] = j

\* A completed or failed item is never dispatched again and never changes
\* its verdict; the API may still drop it.
TerminalIsFinal ==
  [][\A q \in QueueIds :
       status[q] \in Terminal => status'[q] \in {status[q], "absent"}]_qvars

-----------------------------------------------------------------------------
(* The queue as its users see it.                                          *)

\* The thread that holds an item, and the ids remove_by_job_id has dropped.
HolderOf(q) ==
  IF \E w \in Workers : q \in batch[w] THEN CHOOSE w \in Workers : q \in batch[w]
                                        ELSE NoWorker
Holder == [q \in QueueIds |-> HolderOf(q)]
DroppedIds == {q \in QueueIds : jobOf[q] # NoJob /\ jobIndex[jobOf[q]] # q}

\* <<p, q>> is in it when both wait and p is nearer to the head of the FIFO.
Ahead ==
  {pair \in QueueIds \X QueueIds :
     /\ status[pair[1]] = "queued" /\ status[pair[2]] = "queued"
     /\ \E i, k \in 1..Len(fifo) : i < k /\ fifo[i] = pair[1] /\ fifo[k] = pair[2]}

Promise == INSTANCE HandOff WITH
  owner <- jobOf, item <- status, holder <- Holder, takes <- attempts,
  dropped <- DroppedIds, ahead <- Ahead, Capacity <- MaxSize, BatchSize <- MaxBulk

\* Whatever the threads, the parser and the API do to the FIFO, the index and
\* the lock between them, its users see the queue of HandOff: one item per job
\* until it is dropped, one thread per item, first come first served,
\* batches and waiting items within their bounds, a failure of the whole batch
\* and verdicts that stay.
PromiseKept == Promise!HSpec

\* A thread is inside queue.put on a full FIFO, with the lock taken.
PutBlocked == \E w \in Workers : pc[w] = "requeue" /\ batch[w] # {} /\ Full

\* An item that is waiting, for the first time or after a failure, is
\* eventually taken or dropped by the API, unless a thread blocks in put.
WaitingIsTakenUnlessPutBlocks ==
  \A q \in QueueIds : status[q] = "queued" ~> status[q] # "queued" \/ PutBlocked

\* docs/architecture.md:65-66, "Bulk failures are retried and then persisted
\* as `failed` when retry budget is exhausted": the thread that gives a
\* failed batch back finishes doing so.
FailedBatchIsGivenBack ==
  \A w \in Workers : pc[w] = "requeue" ~> pc[w] = "idle"
=============================================================================
