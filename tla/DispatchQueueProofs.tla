------------------------ MODULE DispatchQueueProofs ------------------------
(***************************************************************************)
(* Proofs about DispatchQueue for any set of jobs, threads and queue ids,  *)
(* and any legal capacity and batch size.                                  *)
(***************************************************************************)
EXTENDS DispatchQueue, FiniteSetTheorems, TLAPS

-----------------------------------------------------------------------------
(* The inductive invariant.                                                *)

\* The lock is kept between two steps exactly by the thread inside a loop.
LockInv ==
  \A w \in Workers : (pc[w] \in {"dequeue", "requeue"}) <=> (lock = w)

IdleHoldsNothing == \A w \in Workers : pc[w] = "idle" => batch[w] = {}

\* What the FIFO and the batches can contain.
FifoContents ==
  \A i \in 1..Len(fifo) :
    status[fifo[i]] \in {"queued", "absent"} /\ jobOf[fifo[i]] # NoJob

BatchContents ==
  \A w \in Workers : \A q \in batch[w] :
    status[q] \in {"dispatching", "absent"} /\ jobOf[q] # NoJob

UnusedIsAbsent == \A q \in QueueIds : jobOf[q] = NoJob => status[q] = "absent"

QInv ==
  /\ QTypeOK
  /\ LockInv
  /\ IdleHoldsNothing
  /\ FifoContents
  /\ BatchContents
  /\ UnusedIsAbsent
  /\ HeldOnce
  /\ NothingLost
  /\ IndexIsLive

-----------------------------------------------------------------------------
(* What put and get do to the FIFO.                                        *)

\* Appending an id keeps the others in place.
LEMMA PutFacts ==
  ASSUME NEW s \in Seq(QueueIds), NEW q \in QueueIds
  PROVE  /\ Put(s, q) \in Seq(QueueIds)
         /\ Len(Put(s, q)) = Len(s) + 1
         /\ \A i \in 1..Len(s) : Put(s, q)[i] = s[i]
         /\ Put(s, q)[Len(s) + 1] = q
  BY DEF Put

\* Popping the oldest id moves the others one place forward.
LEMMA GotFacts ==
  ASSUME NEW s \in Seq(QueueIds), s # << >>
  PROVE  /\ Got(s) \in Seq(QueueIds)
         /\ Len(s) \in Nat /\ Len(s) > 0
         /\ Len(Got(s)) = Len(s) - 1
         /\ \A i \in 1..Len(s) - 1 : Got(s)[i] = s[i + 1]
         /\ Head(s) = s[1] /\ Head(s) \in QueueIds
  BY DEF Got

-----------------------------------------------------------------------------
(* One lemma per action that changes the state.                            *)

\* A new item enters the FIFO and the index under an id never used before.
LEMMA EnqueueNewStep ==
  ASSUME QInv, NEW j \in Jobs, EnqueueNew(j)
  PROVE  QInv'
<1>1. PICK q \in QueueIds :
        /\ jobOf[q] = NoJob
        /\ jobOf' = [jobOf EXCEPT ![q] = j]
        /\ status' = [status EXCEPT ![q] = "queued"]
        /\ jobIndex' = [jobIndex EXCEPT ![j] = q]
        /\ fifo' = Put(fifo, q)
  BY DEF EnqueueNew
<1>2. UNCHANGED <<attempts, lock, pc, batch>> /\ ~Full
  BY DEF EnqueueNew
<1>3. /\ fifo' \in Seq(QueueIds)
      /\ Len(fifo) \in Nat
      /\ Len(fifo') = Len(fifo) + 1
      /\ \A i \in 1..Len(fifo) : fifo'[i] = fifo[i] /\ fifo[i] \in QueueIds
      /\ fifo'[Len(fifo) + 1] = q
  <2>1. fifo \in Seq(QueueIds)
    BY DEF QInv, QTypeOK
  <2>2. \A i \in 1..Len(fifo) : fifo[i] \in QueueIds
    BY <2>1
  <2>3. fifo' = Put(fifo, q)
    BY <1>1
  <2>4. /\ Put(fifo, q) \in Seq(QueueIds)
        /\ Len(Put(fifo, q)) = Len(fifo) + 1
        /\ \A i \in 1..Len(fifo) : Put(fifo, q)[i] = fifo[i]
        /\ Put(fifo, q)[Len(fifo) + 1] = q
    BY <2>1, PutFacts
  <2>5. Len(fifo) \in Nat
    BY <2>1
  <2>6. QED
    BY <2>2, <2>3, <2>4, <2>5
<1>4. \A i \in 1..Len(fifo) : fifo[i] # q
  BY <1>1 DEF QInv, FifoContents
<1>5. \A w \in Workers : q \notin batch[w]
  BY <1>1 DEF QInv, BatchContents
<1>6. status[q] = "absent" /\ j # NoJob
  BY <1>1, SentinelsAreFresh DEF QInv, UnusedIsAbsent
<1>a. QTypeOK'
  BY <1>1, <1>2, <1>3, SizesAreLegal DEF QInv, QTypeOK, ItemStatus, Full
<1>b. LockInv' /\ IdleHoldsNothing'
  BY <1>2 DEF QInv, LockInv, IdleHoldsNothing
<1>c. FifoContents'
  <2> SUFFICES ASSUME NEW i \in 1..Len(fifo')
               PROVE  status'[fifo'[i]] \in {"queued", "absent"} /\ jobOf'[fifo'[i]] # NoJob
    BY DEF FifoContents
  <2>1. CASE i = Len(fifo) + 1
    BY <1>1, <1>3, <1>6, <2>1 DEF QInv, QTypeOK
  <2>2. CASE i \in 1..Len(fifo)
    BY <1>1, <1>3, <1>4, <2>2 DEF QInv, FifoContents, QTypeOK
  <2>3. QED
    BY <1>3, <2>1, <2>2
<1>d. BatchContents' /\ UnusedIsAbsent'
  BY <1>1, <1>2, <1>5, <1>6 DEF QInv, BatchContents, UnusedIsAbsent, QTypeOK
<1>e. HeldOnce'
  <2>1. \A i, k \in 1..Len(fifo') : fifo'[i] = fifo'[k] => i = k
    BY <1>3, <1>4 DEF QInv, HeldOnce
  <2>2. \A w \in Workers : \A r \in batch'[w] : ~InFifo(r)'
    BY <1>2, <1>3, <1>5 DEF QInv, HeldOnce, InFifo
  <2>3. QED
    BY <1>2, <2>1, <2>2 DEF QInv, HeldOnce
<1>f. NothingLost'
  <2>1. \A r \in QueueIds : InFifo(r) => InFifo(r)'
    BY <1>3 DEF InFifo
  <2>2. InFifo(q)'
    BY <1>3 DEF InFifo
  <2>3. QED
    BY <1>1, <1>2, <2>1, <2>2 DEF QInv, NothingLost, QTypeOK
<1>g. IndexIsLive'
  BY <1>1, <1>6 DEF QInv, IndexIsLive, QTypeOK
<1>h. QED
  BY <1>a, <1>b, <1>c, <1>d, <1>e, <1>f, <1>g DEF QInv

\* Removing a job touches the item it names and leaves the id in the FIFO.
LEMMA RemoveStep ==
  ASSUME QInv, NEW j \in Jobs, RemoveByJobId(j)
  PROVE  QInv'
<1> DEFINE q == jobIndex[j]
<1>1. /\ q \in QueueIds
      /\ status' = [status EXCEPT ![q] = "absent"]
      /\ jobIndex' = [jobIndex EXCEPT ![j] = NoId]
      /\ UNCHANGED <<attempts, jobOf, fifo, lock, pc, batch>>
  BY DEF RemoveByJobId, IndexWithout, QInv, QTypeOK
<1>2. jobOf[q] = j /\ q # NoId
  BY SentinelsAreFresh DEF RemoveByJobId, QInv, IndexIsLive
<1> HIDE DEF q
<1>3. \A i \in 1..Len(fifo) : fifo[i] \in QueueIds
  BY DEF QInv, QTypeOK
<1>a. QTypeOK'
  BY <1>1 DEF QInv, QTypeOK, ItemStatus
<1>b. LockInv' /\ IdleHoldsNothing'
  BY <1>1 DEF QInv, LockInv, IdleHoldsNothing
<1>c. FifoContents' /\ BatchContents' /\ UnusedIsAbsent'
  BY <1>1, <1>3 DEF QInv, FifoContents, BatchContents, UnusedIsAbsent, QTypeOK
<1>d. HeldOnce'
  BY <1>1 DEF QInv, HeldOnce, InFifo
<1>e. NothingLost'
  BY <1>1 DEF QInv, NothingLost, InFifo, QTypeOK
<1>f. IndexIsLive'
  <2>1. \A k \in Jobs : k # j /\ jobIndex[k] # NoId => jobIndex[k] # q
    BY <1>2 DEF QInv, IndexIsLive
  <2>2. QED
    BY <1>1, <2>1, SentinelsAreFresh DEF QInv, IndexIsLive, QTypeOK
<1>g. QED
  BY <1>a, <1>b, <1>c, <1>d, <1>e, <1>f DEF QInv

\* The thread that takes the lock to dequeue has nothing in its hands.
LEMMA DequeueAcquireStep ==
  ASSUME QInv, NEW w \in Workers, DequeueAcquire(w)
  PROVE  QInv'
<1>1. /\ pc[w] = "idle" /\ lock = NoWorker /\ lock' = w
      /\ pc' = [pc EXCEPT ![w] = "dequeue"]
      /\ UNCHANGED <<status, attempts, jobOf, jobIndex, fifo, batch>>
  BY DEF DequeueAcquire, LockFree
<1>a. QTypeOK' /\ FifoContents' /\ BatchContents' /\ UnusedIsAbsent'
  BY <1>1 DEF QInv, QTypeOK, FifoContents, BatchContents, UnusedIsAbsent
<1>b. LockInv' /\ IdleHoldsNothing'
  BY <1>1, SentinelsAreFresh DEF QInv, QTypeOK, LockInv, IdleHoldsNothing
<1>c. HeldOnce' /\ NothingLost' /\ IndexIsLive'
  BY <1>1 DEF QInv, HeldOnce, NothingLost, IndexIsLive, InFifo
<1>d. QED
  BY <1>a, <1>b, <1>c DEF QInv

\* Popping the head leaves a FIFO without it and with the other ids.
LEMMA PopFacts ==
  ASSUME QInv, fifo # << >>, fifo' = Got(fifo)
  PROVE  /\ fifo' \in Seq(QueueIds)
         /\ Len(fifo') <= MaxSize
         /\ Head(fifo) \in QueueIds
         /\ status[Head(fifo)] \in {"queued", "absent"}
         /\ jobOf[Head(fifo)] # NoJob
         /\ \A w \in Workers : Head(fifo) \notin batch[w]
         /\ \A i \in 1..Len(fifo') : i + 1 \in 1..Len(fifo) /\ fifo'[i] = fifo[i + 1]
         /\ \A i \in 1..Len(fifo') : fifo'[i] # Head(fifo) /\ fifo'[i] \in QueueIds
         /\ \A i, k \in 1..Len(fifo') : fifo'[i] = fifo'[k] => i = k
         /\ \A q \in QueueIds : InFifo(q)' <=> InFifo(q) /\ q # Head(fifo)
<1>1. /\ fifo \in Seq(QueueIds) /\ Len(fifo) <= MaxSize
      /\ MaxSize \in Nat
  BY SizesAreLegal DEF QInv, QTypeOK
<1>2. /\ fifo' \in Seq(QueueIds)
      /\ Len(fifo) \in Nat /\ Len(fifo) > 0
      /\ Len(fifo') = Len(fifo) - 1
      /\ \A i \in 1..Len(fifo) - 1 : fifo'[i] = fifo[i + 1]
      /\ Head(fifo) = fifo[1] /\ Head(fifo) \in QueueIds
  BY <1>1, GotFacts
<1>3. \A i \in 1..Len(fifo') : i + 1 \in 1..Len(fifo) /\ fifo'[i] = fifo[i + 1]
  BY <1>2
<1>4. \A i, k \in 1..Len(fifo) : fifo[i] = fifo[k] => i = k
  BY DEF QInv, HeldOnce
<1>5. \A i, k \in 1..Len(fifo') : fifo'[i] = fifo'[k] => i = k
  BY <1>2, <1>3, <1>4
<1>6. \A i \in 1..Len(fifo') : fifo'[i] # Head(fifo) /\ fifo'[i] \in QueueIds
  <2>1. \A i \in 1..Len(fifo') : fifo'[i] \in QueueIds
    BY <1>2
  <2>2. \A i \in 1..Len(fifo') : fifo'[i] # fifo[1]
    BY <1>2, <1>3, <1>4
  <2>3. QED
    BY <1>2, <2>1, <2>2
<1>7. status[Head(fifo)] \in {"queued", "absent"} /\ jobOf[Head(fifo)] # NoJob
  BY <1>2 DEF QInv, FifoContents
<1>8. \A w \in Workers : Head(fifo) \notin batch[w]
  BY <1>2 DEF QInv, HeldOnce, InFifo
<1>9. \A q \in QueueIds : InFifo(q)' <=> InFifo(q) /\ q # Head(fifo)
  <2> SUFFICES ASSUME NEW q \in QueueIds
               PROVE  InFifo(q)' <=> InFifo(q) /\ q # Head(fifo)
    OBVIOUS
  <2>1. ASSUME InFifo(q)' PROVE InFifo(q) /\ q # Head(fifo)
    BY <1>3, <1>6, <2>1 DEF InFifo
  <2>2. ASSUME InFifo(q), q # Head(fifo) PROVE InFifo(q)'
    <3>1. PICK i \in 1..Len(fifo) : fifo[i] = q
      BY <2>2 DEF InFifo
    <3>2. i # 1 /\ i - 1 \in 1..Len(fifo')
      BY <1>2, <2>2, <3>1
    <3>3. fifo'[i - 1] = q
      BY <1>2, <3>1, <3>2
    <3>4. QED
      BY <3>2, <3>3 DEF InFifo
  <2>3. QED
    BY <2>1, <2>2
<1>10. QED
  BY <1>1, <1>2, <1>3, <1>5, <1>6, <1>7, <1>8, <1>9

\* A queued head moves from the FIFO into the batch of the thread.
LEMMA DequeueTakeStep ==
  ASSUME QInv, NEW w \in Workers, DequeueTake(w)
  PROVE  QInv'
<1> DEFINE q == Head(fifo)
<1>1. /\ pc[w] = "dequeue" /\ fifo # << >> /\ fifo' = Got(fifo)
      /\ status[q] = "queued"
      /\ status' = [status EXCEPT ![q] = "dispatching"]
      /\ attempts' = [attempts EXCEPT ![q] = @ + 1]
      /\ batch' = [batch EXCEPT ![w] = @ \union {q}]
      /\ UNCHANGED <<jobOf, jobIndex, lock, pc>>
  BY DEF DequeueTake, Takes
<1>2. /\ fifo' \in Seq(QueueIds) /\ Len(fifo') <= MaxSize
      /\ q \in QueueIds /\ jobOf[q] # NoJob
      /\ \A v \in Workers : q \notin batch[v]
      /\ \A i \in 1..Len(fifo') : i + 1 \in 1..Len(fifo) /\ fifo'[i] = fifo[i + 1]
      /\ \A i \in 1..Len(fifo') : fifo'[i] # q /\ fifo'[i] \in QueueIds
      /\ \A i, k \in 1..Len(fifo') : fifo'[i] = fifo'[k] => i = k
      /\ \A r \in QueueIds : InFifo(r)' <=> InFifo(r) /\ r # q
  BY <1>1, PopFacts
<1> HIDE DEF q
<1>3. \A v \in Workers : batch'[v] = IF v = w THEN batch[w] \union {q} ELSE batch[v]
  BY <1>1 DEF QInv, QTypeOK
<1>4. \A r \in QueueIds : status'[r] = IF r = q THEN "dispatching" ELSE status[r]
  BY <1>1 DEF QInv, QTypeOK
<1>5. \A v \in Workers : \A r \in batch'[v] : r \in QueueIds
  BY <1>2, <1>3 DEF QInv, QTypeOK
<1>a. QTypeOK'
  BY <1>1, <1>2 DEF QInv, QTypeOK, ItemStatus
<1>b. LockInv' /\ IdleHoldsNothing'
  BY <1>1, <1>3 DEF QInv, LockInv, IdleHoldsNothing
<1>c. FifoContents'
  BY <1>1, <1>2, <1>4 DEF QInv, FifoContents
<1>d. BatchContents'
  BY <1>1, <1>2, <1>3, <1>4, <1>5 DEF QInv, BatchContents
<1>e. UnusedIsAbsent'
  BY <1>1, <1>2, <1>4 DEF QInv, UnusedIsAbsent
<1>f. HeldOnce'
  <2>1. \A v \in Workers : \A r \in batch'[v] : ~InFifo(r)'
    BY <1>2, <1>3, <1>5 DEF QInv, HeldOnce
  <2>2. \A u, v \in Workers : u # v => batch'[u] \intersect batch'[v] = {}
    BY <1>2, <1>3 DEF QInv, HeldOnce
  <2>3. QED
    BY <1>2, <2>1, <2>2 DEF HeldOnce
<1>g. NothingLost'
  <2>1. \A r \in QueueIds : status'[r] = "queued" => InFifo(r)'
    BY <1>2, <1>4 DEF QInv, NothingLost
  <2>2. \A r \in QueueIds : status'[r] = "dispatching" => \E v \in Workers : r \in batch'[v]
    BY <1>2, <1>3, <1>4 DEF QInv, NothingLost
  <2>3. QED
    BY <2>1, <2>2 DEF NothingLost
<1>h. IndexIsLive'
  BY <1>1, <1>4, SentinelsAreFresh DEF QInv, IndexIsLive, QTypeOK
<1>i. QED
  BY <1>a, <1>b, <1>c, <1>d, <1>e, <1>f, <1>g, <1>h DEF QInv

\* The id of a removed item leaves the FIFO; nothing else knew of it.
LEMMA DequeueSkipStep ==
  ASSUME QInv, NEW w \in Workers, DequeueSkip(w)
  PROVE  QInv'
<1>1. /\ fifo # << >> /\ fifo' = Got(fifo)
      /\ status[Head(fifo)] # "queued"
      /\ UNCHANGED <<status, attempts, jobOf, jobIndex, lock, pc, batch>>
  BY DEF DequeueSkip, Takes
<1>2. /\ fifo' \in Seq(QueueIds) /\ Len(fifo') <= MaxSize
      /\ \A i \in 1..Len(fifo') : i + 1 \in 1..Len(fifo) /\ fifo'[i] = fifo[i + 1]
      /\ \A i, k \in 1..Len(fifo') : fifo'[i] = fifo'[k] => i = k
      /\ \A r \in QueueIds : InFifo(r)' <=> InFifo(r) /\ r # Head(fifo)
  BY <1>1, PopFacts
<1>a. QTypeOK' /\ LockInv' /\ IdleHoldsNothing'
  BY <1>1, <1>2 DEF QInv, QTypeOK, LockInv, IdleHoldsNothing
<1>b. FifoContents'
  BY <1>1, <1>2 DEF QInv, FifoContents
<1>c. BatchContents' /\ UnusedIsAbsent' /\ IndexIsLive'
  BY <1>1 DEF QInv, BatchContents, UnusedIsAbsent, IndexIsLive
<1>d. HeldOnce'
  <2>1. \A v \in Workers : \A r \in batch[v] : r \in QueueIds
    BY DEF QInv, QTypeOK
  <2>2. QED
    BY <1>1, <1>2, <2>1 DEF QInv, HeldOnce
<1>e. NothingLost'
  BY <1>1, <1>2 DEF QInv, NothingLost
<1>f. QED
  BY <1>a, <1>b, <1>c, <1>d, <1>e DEF QInv

\* Leaving the loop releases the lock, with or without a batch.
LEMMA DequeueReturnStep ==
  ASSUME QInv, NEW w \in Workers, DequeueReturn(w)
  PROVE  QInv'
<1>1. /\ pc[w] = "dequeue" /\ lock' = NoWorker
      /\ pc' = [pc EXCEPT ![w] = IF batch[w] = {} THEN "idle" ELSE "busy"]
      /\ UNCHANGED <<status, attempts, jobOf, jobIndex, fifo, batch>>
  BY DEF DequeueReturn
<1>2. lock = w
  BY <1>1 DEF QInv, LockInv
<1>a. QTypeOK' /\ FifoContents' /\ BatchContents' /\ UnusedIsAbsent'
  BY <1>1 DEF QInv, QTypeOK, FifoContents, BatchContents, UnusedIsAbsent
<1>b. LockInv' /\ IdleHoldsNothing'
  BY <1>1, <1>2, SentinelsAreFresh DEF QInv, QTypeOK, LockInv, IdleHoldsNothing
<1>c. HeldOnce' /\ NothingLost' /\ IndexIsLive'
  BY <1>1 DEF QInv, HeldOnce, NothingLost, IndexIsLive, InFifo
<1>d. QED
  BY <1>a, <1>b, <1>c DEF QInv

\* Writing a verdict on members of the batch and letting go of them; this is
\* what mark_completed does, and mark_batch_failed without a retry.
LEMMA MarkStep ==
  ASSUME QInv, NEW w \in Workers, pc[w] = "busy",
         NEW marked, marked \subseteq batch[w],
         NEW s \in Terminal,
         status' = WithStatus(marked, s),
         batch' = [batch EXCEPT ![w] = @ \ marked],
         pc' = [pc EXCEPT ![w] = IF batch'[w] = {} THEN "idle" ELSE "busy"],
         UNCHANGED <<attempts, jobOf, jobIndex, fifo, lock>>
  PROVE  QInv'
<1>1. /\ \A v \in Workers : batch'[v] = IF v = w THEN batch[w] \ marked ELSE batch[v]
      /\ \A v \in Workers : batch'[v] \subseteq batch[v]
      /\ \A v \in Workers : batch'[v] \subseteq QueueIds
      /\ marked \subseteq QueueIds
  BY DEF QInv, QTypeOK
<1>2. \A q \in QueueIds : status'[q] = IF q \in marked THEN s ELSE status[q]
  BY DEF WithStatus
<1>3. \A q \in marked : jobOf[q] # NoJob /\ ~InFifo(q)
  BY DEF QInv, BatchContents, HeldOnce
<1>4. s # "absent" /\ s # "queued" /\ s # "dispatching" /\ s \in ItemStatus
  BY DEF Terminal, ItemStatus
<1>5. \A i \in 1..Len(fifo) : fifo[i] \in QueueIds /\ fifo[i] \notin marked
  <2>1. \A i \in 1..Len(fifo) : fifo[i] \in QueueIds
    BY DEF QInv, QTypeOK
  <2>2. QED
    BY <1>3, <2>1 DEF InFifo
<1>6. \A v \in Workers : \A q \in batch'[v] : q \notin marked
  BY <1>1 DEF QInv, HeldOnce
<1>a. QTypeOK'
  BY <1>1, <1>4 DEF QInv, QTypeOK, WithStatus
<1>b. LockInv' /\ IdleHoldsNothing'
  BY <1>1 DEF QInv, QTypeOK, LockInv, IdleHoldsNothing
<1>c. FifoContents'
  BY <1>2, <1>5 DEF QInv, FifoContents
<1>d. BatchContents'
  BY <1>1, <1>2, <1>6 DEF QInv, BatchContents
<1>e. UnusedIsAbsent'
  BY <1>2, <1>3 DEF QInv, UnusedIsAbsent
<1>f. HeldOnce'
  BY <1>1 DEF QInv, HeldOnce, InFifo
<1>g. NothingLost'
  <2>1. \A q \in QueueIds : status'[q] = "queued" => InFifo(q)'
    BY <1>2, <1>4 DEF QInv, NothingLost, InFifo
  <2>2. \A q \in QueueIds : status'[q] = "dispatching" => \E v \in Workers : q \in batch'[v]
    BY <1>1, <1>2, <1>4 DEF QInv, NothingLost
  <2>3. QED
    BY <2>1, <2>2 DEF NothingLost
<1>h. IndexIsLive'
  BY <1>2, <1>4, SentinelsAreFresh DEF QInv, IndexIsLive, QTypeOK
<1>i. QED
  BY <1>a, <1>b, <1>c, <1>d, <1>e, <1>f, <1>g, <1>h DEF QInv

\* mark_completed keeps the invariant, whichever part of the batch it is given.
LEMMA MarkCompletedStep ==
  ASSUME QInv, NEW w \in Workers, NEW marked, MarkCompleted(w, marked)
  PROVE  QInv'
<1>1. "completed" \in Terminal
  BY DEF Terminal
<1>2. QED
  BY <1>1, MarkStep DEF MarkCompleted, Unmarked

\* mark_batch_failed without a retry keeps it: every member gets the verdict
\* FAILED and the thread has nothing left.
LEMMA MarkBatchFailedStep ==
  ASSUME QInv, NEW w \in Workers, MarkBatchFailed(w)
  PROVE  QInv'
<1>1. /\ "failed" \in Terminal
      /\ batch[w] \subseteq batch[w]
      /\ batch' = [batch EXCEPT ![w] = @ \ batch[w]]
      /\ pc' = [pc EXCEPT ![w] = IF batch'[w] = {} THEN "idle" ELSE "busy"]
  BY DEF Terminal, MarkBatchFailed, QInv, QTypeOK
<1>2. QED
  BY <1>1, MarkStep DEF MarkBatchFailed

\* Taking the lock to give a batch back moves no item.
LEMMA RequeueAcquireStep ==
  ASSUME QInv, NEW w \in Workers, RequeueAcquire(w)
  PROVE  QInv'
<1>1. /\ pc[w] = "busy" /\ lock = NoWorker /\ lock' = w
      /\ pc' = [pc EXCEPT ![w] = "requeue"]
      /\ UNCHANGED <<status, attempts, jobOf, jobIndex, fifo, batch>>
  BY DEF RequeueAcquire, LockFree
<1>a. QTypeOK' /\ FifoContents' /\ BatchContents' /\ UnusedIsAbsent'
  BY <1>1 DEF QInv, QTypeOK, FifoContents, BatchContents, UnusedIsAbsent
<1>b. LockInv' /\ IdleHoldsNothing'
  BY <1>1, SentinelsAreFresh DEF QInv, QTypeOK, LockInv, IdleHoldsNothing
<1>c. HeldOnce' /\ NothingLost' /\ IndexIsLive'
  BY <1>1 DEF QInv, HeldOnce, NothingLost, IndexIsLive, InFifo
<1>d. QED
  BY <1>a, <1>b, <1>c DEF QInv

\* A failed item goes back to the end of the FIFO and leaves the batch.
LEMMA RequeueItemStep ==
  ASSUME QInv, NEW w \in Workers, RequeueItem(w)
  PROVE  QInv'
<1>1. PICK q \in batch[w] :
        /\ status' = [status EXCEPT ![q] = "queued"]
        /\ fifo' = Put(fifo, q)
        /\ batch' = [batch EXCEPT ![w] = @ \ {q}]
  BY DEF RequeueItem
<1>2. /\ pc[w] = "requeue" /\ ~Full
      /\ UNCHANGED <<attempts, jobOf, jobIndex, lock, pc>>
  BY DEF RequeueItem
<1>3. q \in QueueIds /\ jobOf[q] # NoJob /\ ~InFifo(q)
  BY DEF QInv, QTypeOK, BatchContents, HeldOnce
<1>4. /\ fifo \in Seq(QueueIds) /\ Len(fifo) \in Nat
      /\ \A i \in 1..Len(fifo) : fifo[i] \in QueueIds /\ fifo[i] # q
  <2>1. fifo \in Seq(QueueIds)
    BY DEF QInv, QTypeOK
  <2>2. \A i \in 1..Len(fifo) : fifo[i] \in QueueIds
    BY <2>1
  <2>3. QED
    BY <1>3, <2>1, <2>2 DEF InFifo
<1>5. /\ fifo' \in Seq(QueueIds)
      /\ Len(fifo') = Len(fifo) + 1
      /\ \A i \in 1..Len(fifo) : fifo'[i] = fifo[i]
      /\ fifo'[Len(fifo) + 1] = q
  BY <1>1, <1>3, <1>4, PutFacts
<1>6. /\ \A v \in Workers : batch'[v] = IF v = w THEN batch[w] \ {q} ELSE batch[v]
      /\ \A v \in Workers : batch'[v] \subseteq batch[v]
      /\ \A v \in Workers : batch'[v] \subseteq QueueIds
  BY <1>1 DEF QInv, QTypeOK
<1>7. \A r \in QueueIds : status'[r] = IF r = q THEN "queued" ELSE status[r]
  BY <1>1 DEF QInv, QTypeOK
<1>8. \A v \in Workers : q \notin batch'[v]
  BY <1>1, <1>6 DEF QInv, HeldOnce
<1>9. \A r : InFifo(r)' <=> InFifo(r) \/ r = q
  BY <1>4, <1>5 DEF InFifo
<1>a. QTypeOK'
  BY <1>1, <1>2, <1>3, <1>4, <1>5, <1>6, SizesAreLegal DEF QInv, QTypeOK, ItemStatus, Full
<1>b. LockInv' /\ IdleHoldsNothing'
  BY <1>2, <1>6 DEF QInv, LockInv, IdleHoldsNothing
<1>c. FifoContents'
  <2> SUFFICES ASSUME NEW i \in 1..Len(fifo')
               PROVE  status'[fifo'[i]] \in {"queued", "absent"} /\ jobOf'[fifo'[i]] # NoJob
    BY DEF FifoContents
  <2>1. CASE i = Len(fifo) + 1
    BY <1>2, <1>3, <1>5, <1>7, <2>1
  <2>2. CASE i \in 1..Len(fifo)
    BY <1>2, <1>4, <1>5, <1>7, <2>2 DEF QInv, FifoContents
  <2>3. QED
    BY <1>4, <1>5, <2>1, <2>2
<1>d. BatchContents'
  BY <1>2, <1>6, <1>7, <1>8 DEF QInv, BatchContents
<1>e. UnusedIsAbsent'
  BY <1>2, <1>3, <1>7 DEF QInv, UnusedIsAbsent
<1>f. HeldOnce'
  <2>1. \A i, k \in 1..Len(fifo') : fifo'[i] = fifo'[k] => i = k
    BY <1>4, <1>5 DEF QInv, HeldOnce
  <2>2. \A v \in Workers : \A r \in batch'[v] : ~InFifo(r)'
    BY <1>6, <1>8, <1>9 DEF QInv, HeldOnce
  <2>3. \A u, v \in Workers : u # v => batch'[u] \intersect batch'[v] = {}
    BY <1>6 DEF QInv, HeldOnce
  <2>4. QED
    BY <2>1, <2>2, <2>3 DEF HeldOnce
<1>g. NothingLost'
  <2>1. \A r \in QueueIds : status'[r] = "queued" => InFifo(r)'
    BY <1>7, <1>9 DEF QInv, NothingLost
  <2>2. \A r \in QueueIds : status'[r] = "dispatching" => \E v \in Workers : r \in batch'[v]
    BY <1>6, <1>7 DEF QInv, NothingLost
  <2>3. QED
    BY <2>1, <2>2 DEF NothingLost
<1>h. IndexIsLive'
  BY <1>2, <1>7, SentinelsAreFresh DEF QInv, IndexIsLive, QTypeOK
<1>i. QED
  BY <1>a, <1>b, <1>c, <1>d, <1>e, <1>f, <1>g, <1>h DEF QInv

\* Releasing the lock after the last item was given back moves no item.
LEMMA RequeueReturnStep ==
  ASSUME QInv, NEW w \in Workers, RequeueReturn(w)
  PROVE  QInv'
<1>1. /\ pc[w] = "requeue" /\ batch[w] = {} /\ lock' = NoWorker
      /\ pc' = [pc EXCEPT ![w] = "idle"]
      /\ UNCHANGED <<status, attempts, jobOf, jobIndex, fifo, batch>>
  BY DEF RequeueReturn
<1>2. lock = w
  BY <1>1 DEF QInv, LockInv
<1>a. QTypeOK' /\ FifoContents' /\ BatchContents' /\ UnusedIsAbsent'
  BY <1>1 DEF QInv, QTypeOK, FifoContents, BatchContents, UnusedIsAbsent
<1>b. LockInv' /\ IdleHoldsNothing'
  BY <1>1, <1>2, SentinelsAreFresh DEF QInv, QTypeOK, LockInv, IdleHoldsNothing
<1>c. HeldOnce' /\ NothingLost' /\ IndexIsLive'
  BY <1>1 DEF QInv, HeldOnce, NothingLost, IndexIsLive, InFifo
<1>d. QED
  BY <1>a, <1>b, <1>c DEF QInv

-----------------------------------------------------------------------------
(* The theorems.                                                           *)

\* The empty queue satisfies the invariant.
LEMMA QInvInit == QInit => QInv
<1> SUFFICES ASSUME QInit PROVE QInv
  OBVIOUS
<1>1. QTypeOK
  BY SizesAreLegal DEF QInit, QTypeOK, ItemStatus
<1>2. Len(fifo) = 0 /\ \A q : ~InFifo(q)
  BY DEF QInit, InFifo
<1>3. LockInv /\ IdleHoldsNothing /\ UnusedIsAbsent
  BY SentinelsAreFresh DEF QInit, LockInv, IdleHoldsNothing, UnusedIsAbsent
<1>4. FifoContents /\ BatchContents
  BY <1>2 DEF QInit, FifoContents, BatchContents
<1>5. HeldOnce /\ NothingLost /\ IndexIsLive
  BY <1>2 DEF QInit, HeldOnce, NothingLost, IndexIsLive
<1>6. QED
  BY <1>1, <1>3, <1>4, <1>5 DEF QInv

\* Every operation of the queue keeps the invariant, by the lemma of its name.
LEMMA QInvStep == QInv /\ [QNext]_qvars => QInv'
<1> SUFFICES ASSUME QInv, [QNext]_qvars PROVE QInv'
  OBVIOUS
<1>1. CASE UNCHANGED qvars
  BY <1>1 DEF qvars, QInv, QTypeOK, LockInv, IdleHoldsNothing, FifoContents,
     BatchContents, UnusedIsAbsent, HeldOnce, NothingLost, IndexIsLive, InFifo
<1>2. ASSUME NEW j \in Jobs, Client(j) PROVE QInv'
  <2>1. CASE EnqueueNew(j)
    BY <2>1, EnqueueNewStep
  <2>2. CASE RemoveByJobId(j)
    BY <2>2, RemoveStep
  <2>3. CASE EnqueueExisting(j) \/ EnqueueFull(j)
    BY <1>1, <2>3 DEF EnqueueExisting, EnqueueFull
  <2>4. QED
    BY <1>2, <2>1, <2>2, <2>3 DEF Client
<1>3. ASSUME NEW w \in Workers, Dequeue(w) PROVE QInv'
  BY <1>3, DequeueAcquireStep, DequeueTakeStep, DequeueSkipStep, DequeueReturnStep
     DEF Dequeue
<1>4. ASSUME NEW w \in Workers, Report(w) PROVE QInv'
  BY <1>4, MarkCompletedStep, MarkBatchFailedStep, RequeueAcquireStep, RequeueItemStep,
     RequeueReturnStep DEF Report
<1>5. QED
  BY <1>1, <1>2, <1>3, <1>4 DEF QNext

\* Every reachable state of the queue satisfies the inductive invariant.
THEOREM QueueInvariant == QSpec => []QInv
<1>1. QED
  BY QInvInit, QInvStep, PTL DEF QSpec

\* The queue's state is well typed; in particular the FIFO never exceeds
\* its capacity.
THEOREM QueueTypeCorrect == QSpec => []QTypeOK
<1>1. QInv => QTypeOK
  BY DEF QInv
<1>2. QED
  BY <1>1, QueueInvariant, PTL

\* No two dispatcher threads ever hold the same item, and none holds an item
\* that is also waiting, for any number of threads, jobs, retries and removals.
THEOREM ItemsAreHeldOnce == QSpec => []HeldOnce
<1>1. QInv => HeldOnce
  BY DEF QInv
<1>2. QED
  BY <1>1, QueueInvariant, PTL

\* Every item that says QUEUED can still be dequeued, and every item that says
\* DISPATCHING is in the hands of a thread.
THEOREM QueueLosesNothing == QSpec => []NothingLost
<1>1. QInv => NothingLost
  BY DEF QInv
<1>2. QED
  BY <1>1, QueueInvariant, PTL

\* enqueue_parse_result never raises KeyError on the item it finds indexed,
\* and returns an item of the job it was called for.
THEOREM IndexNeverDangles == QSpec => []IndexIsLive
<1>1. QInv => IndexIsLive
  BY DEF QInv
<1>2. QED
  BY <1>1, QueueInvariant, PTL

-----------------------------------------------------------------------------
(* A verdict is final.                                                     *)

\* Only the items in a FIFO or in a batch, neither of which is terminal, and
\* the items a removal drops change their status.
LEMMA VerdictStep ==
  ASSUME QInv, [QNext]_qvars, NEW q \in QueueIds, status[q] \in Terminal
  PROVE  status'[q] \in {status[q], "absent"}
<1>1. status[q] \notin {"queued", "dispatching", "absent"}
  BY DEF Terminal
<1>2. status \in [QueueIds -> ItemStatus]
  BY DEF QInv, QTypeOK
<1>3. \A w \in Workers : q \notin batch[w]
  BY <1>1 DEF QInv, BatchContents
<1>4. CASE status' = status
  BY <1>4
<1>5. ASSUME NEW j \in Jobs, Client(j) PROVE status'[q] \in {status[q], "absent"}
  <2>1. CASE EnqueueNew(j)
    <3>1. PICK r \in QueueIds : jobOf[r] = NoJob /\ status' = [status EXCEPT ![r] = "queued"]
      BY <2>1 DEF EnqueueNew
    <3>2. status[r] = "absent"
      BY <3>1 DEF QInv, UnusedIsAbsent
    <3>3. QED
      BY <1>1, <1>2, <3>1, <3>2
  <2>2. CASE RemoveByJobId(j)
    BY <1>2, <2>2 DEF RemoveByJobId
  <2>3. CASE EnqueueExisting(j) \/ EnqueueFull(j)
    BY <1>4, <2>3 DEF EnqueueExisting, EnqueueFull, qvars
  <2>4. QED
    BY <1>5, <2>1, <2>2, <2>3 DEF Client
<1>6. ASSUME NEW w \in Workers, Dequeue(w) PROVE status'[q] \in {status[q], "absent"}
  <2>1. CASE DequeueTake(w)
    BY <1>1, <1>2, <2>1 DEF DequeueTake, Takes
  <2>2. CASE DequeueAcquire(w) \/ DequeueSkip(w) \/ DequeueReturn(w)
    BY <1>4, <2>2 DEF DequeueAcquire, DequeueSkip, DequeueReturn
  <2>3. QED
    BY <1>6, <2>1, <2>2 DEF Dequeue
<1>7. ASSUME NEW w \in Workers, Report(w) PROVE status'[q] \in {status[q], "absent"}
  <2>1. CASE \E marked \in SUBSET batch[w] : MarkCompleted(w, marked)
    BY <1>3, <2>1 DEF MarkCompleted, WithStatus
  <2>2. CASE MarkBatchFailed(w)
    BY <1>3, <2>2 DEF MarkBatchFailed, WithStatus
  <2>3. CASE RequeueAcquire(w) \/ RequeueReturn(w)
    BY <1>4, <2>3 DEF RequeueAcquire, RequeueReturn
  <2>4. CASE RequeueItem(w)
    BY <1>2, <1>3, <2>4 DEF RequeueItem
  <2>5. QED
    BY <1>7, <2>1, <2>2, <2>3, <2>4 DEF Report
<1>8. QED
  BY <1>4, <1>5, <1>6, <1>7 DEF QNext, qvars

\* An item that was completed or failed is never queued or dispatched again,
\* whatever the threads do with copies they still hold.
THEOREM VerdictsAreFinal == QSpec => TerminalIsFinal
<1>1. QInv /\ [QNext]_qvars =>
        [\A q \in QueueIds :
           status[q] \in Terminal => status'[q] \in {status[q], "absent"}]_qvars
  BY VerdictStep
<1>2. QED
  BY <1>1, QueueInvariant, PTL DEF QSpec, TerminalIsFinal
-----------------------------------------------------------------------------
(* Refinement: the queue implements HandOff.                               *)

\* What its users see of it, id by id.
HolderIsSeen ==
  /\ Holder \in [QueueIds -> Workers \union {NoWorker}]
  /\ \A q \in QueueIds, w \in Workers : Holder[q] = w <=> q \in batch[w]
  /\ \A q \in QueueIds : Holder[q] = NoWorker <=> \A w \in Workers : q \notin batch[w]
  /\ \A w \in Workers : Promise!Held(w) = batch[w]

\* An id has the thread whose batch it is in as its holder, or none.
LEMMA HolderFacts == QInv => HolderIsSeen
<1> SUFFICES ASSUME QInv PROVE HolderIsSeen
  OBVIOUS
<1>1. \A v, w \in Workers : v # w => batch[v] \intersect batch[w] = {}
  BY DEF QInv, HeldOnce
<1>2. batch \in [Workers -> SUBSET QueueIds]
  BY DEF QInv, QTypeOK
<1>3. ASSUME NEW q \in QueueIds, NEW w \in Workers, q \in batch[w] PROVE HolderOf(q) = w
  BY <1>1, <1>3 DEF HolderOf
<1>4. ASSUME NEW q \in QueueIds, \A w \in Workers : q \notin batch[w]
      PROVE HolderOf(q) = NoWorker
  BY <1>4 DEF HolderOf
<1>5. \A q \in QueueIds : Holder[q] = HolderOf(q)
  BY DEF Holder
<1>6. /\ \A q \in QueueIds, w \in Workers : Holder[q] = w <=> q \in batch[w]
      /\ \A q \in QueueIds : Holder[q] = NoWorker <=> \A w \in Workers : q \notin batch[w]
  BY <1>3, <1>4, <1>5, SentinelsAreFresh
<1>7. Holder \in [QueueIds -> Workers \union {NoWorker}]
  BY <1>3, <1>4 DEF Holder
<1>8. \A w \in Workers : Promise!Held(w) = batch[w]
  BY <1>2, <1>6 DEF Promise!Held
<1>9. QED
  BY <1>6, <1>7, <1>8 DEF HolderIsSeen

\* The same of the next state.
LEMMA HolderFactsNext == QInv' => HolderIsSeen'
  BY HolderFacts, PTL

\* Nobody's batch changes: nobody's holder does.
LEMMA HolderStays == batch' = batch => Holder' = Holder
  BY DEF Holder, HolderOf

\* HandOff counts as this module does.
LEMMA SameCount == \A S : Promise!Cardinality(S) = Cardinality(S)
  BY DEF Promise!Cardinality, Cardinality

\* Everything that waits is in the FIFO, so there is room when it is not full.
LEMMA RoomIsSeen ==
  ASSUME QInv, ~Full
  PROVE  Promise!HasRoom
<1> DEFINE n == Len(fifo)
           ids == {q \in QueueIds : status[q] = "queued"}
           place == [q \in ids |-> CHOOSE i \in 1..n : fifo[i] = q]
<1>1. fifo \in Seq(QueueIds) /\ n \in Nat /\ n < MaxSize /\ MaxSize \in Nat
  BY SizesAreLegal DEF QInv, QTypeOK, Full
<1>2. \A q \in ids : \E i \in 1..n : fifo[i] = q
  BY DEF QInv, NothingLost, InFifo
<1>3. \A q \in ids : place[q] \in 1..n /\ fifo[place[q]] = q
  BY <1>2
<1>4. place \in Injection(ids, 1..n)
  <2>1. \A a, b \in ids : place[a] = place[b] => a = b
    BY <1>3
  <2>2. place \in [ids -> 1..n]
    BY <1>3
  <2>3. IsInjective(place)
    BY <2>1 DEF IsInjective
  <2>4. QED
    BY <2>2, <2>3 DEF Injection
<1>5. IsFiniteSet(1..n) /\ Cardinality(1..n) = n
  <2>1. \A k \in Nat : IsFiniteSet(1..k) /\ Cardinality(1..k) = IF 1 > k THEN 0 ELSE k - 1 + 1
    BY FS_Interval
  <2>2. \A k \in Nat : (IF 1 > k THEN 0 ELSE k - 1 + 1) = k
    OBVIOUS
  <2>3. QED
    BY <1>1, <2>1, <2>2
<1>6. Cardinality(ids) <= n
  BY <1>4, <1>5, FS_Injection
<1>7. IsFiniteSet(ids) /\ Cardinality(ids) \in Nat
  BY IdsAreFinite, FS_Subset, FS_CardinalityType
<1>8. Promise!Cardinality(Promise!Waiting) = Cardinality(ids)
  BY SameCount DEF Promise!Waiting
<1>9. QED
  BY <1>1, <1>6, <1>7, <1>8 DEF Promise!HasRoom

\* p waits, and nearer to the head than r does.
Before(p, r) ==
  /\ status[p] = "queued" /\ status[r] = "queued"
  /\ \E i, k \in 1..Len(fifo) : i < k /\ fifo[i] = p /\ fifo[k] = r

\* Ahead, pair by pair.
LEMMA AheadByPairs ==
  /\ Ahead \subseteq QueueIds \X QueueIds
  /\ \A p, r \in QueueIds : <<p, r>> \in Ahead <=> Before(p, r)
  BY DEF Ahead, Before

\* The same of the next state.
LEMMA AheadByPairsNext ==
  /\ Ahead' \subseteq QueueIds \X QueueIds
  /\ \A p, r \in QueueIds : <<p, r>> \in Ahead' <=> Before(p, r)'
  BY DEF Ahead, Before

\* Sets of pairs with the same pairs in them are equal.
LEMMA SamePairs ==
  ASSUME NEW S, NEW A, NEW B, A \subseteq S \X S, B \subseteq S \X S,
         \A p, r \in S : <<p, r>> \in A <=> <<p, r>> \in B
  PROVE  A = B
<1>1. \A pair \in S \X S : pair = <<pair[1], pair[2]>> /\ pair[1] \in S /\ pair[2] \in S
  OBVIOUS
<1>2. \A pair \in S \X S : pair \in A <=> pair \in B
  BY <1>1
<1>3. QED
  BY <1>2

\* An id that is put at the end of the FIFO begins to wait behind all others.
LEMMA PutIsJoins ==
  ASSUME QInv, NEW q \in QueueIds, ~InFifo(q), fifo' = Put(fifo, q),
         status' = [status EXCEPT ![q] = "queued"]
  PROVE  Promise!Joins(q)
<1>1. fifo \in Seq(QueueIds) /\ status \in [QueueIds -> ItemStatus]
  BY DEF QInv, QTypeOK
<1>2. /\ Len(fifo) \in Nat /\ Len(fifo') = Len(fifo) + 1
      /\ \A i \in 1..Len(fifo) : fifo'[i] = fifo[i] /\ fifo[i] # q
      /\ fifo'[Len(fifo) + 1] = q
  <2>1. /\ Len(Put(fifo, q)) = Len(fifo) + 1
        /\ \A i \in 1..Len(fifo) : Put(fifo, q)[i] = fifo[i]
        /\ Put(fifo, q)[Len(fifo) + 1] = q
    BY <1>1, PutFacts
  <2>2. Len(fifo) \in Nat /\ \A i \in 1..Len(fifo) : fifo[i] # q
    BY <1>1 DEF InFifo
  <2>3. QED
    BY <2>1, <2>2
<1>3. ASSUME NEW p \in QueueIds, NEW r \in QueueIds
      PROVE  <<p, r>> \in Ahead' <=> <<p, r>> \in Ahead \union (Promise!Waiting \X {q})
  <2>1. CASE r = q
    <3>1. ~Before(p, q)
      BY <1>2 DEF Before
    <3>2. Before(p, q)' <=> status[p] = "queued"
      <4>1. ASSUME status[p] = "queued" PROVE Before(p, q)'
        <5>1. PICK i \in 1..Len(fifo) : fifo[i] = p
          BY <4>1 DEF QInv, NothingLost, InFifo
        <5>2. i \in 1..Len(fifo') /\ Len(fifo) + 1 \in 1..Len(fifo') /\ i < Len(fifo) + 1
          BY <1>2
        <5>3. status'[p] = "queued" /\ status'[q] = "queued"
          BY <1>1, <4>1
        <5>4. QED
          BY <1>2, <5>1, <5>2, <5>3 DEF Before
      <4>2. ASSUME Before(p, q)' PROVE status[p] = "queued"
        <5>1. PICK i, k \in 1..Len(fifo') : i < k /\ fifo'[i] = p /\ fifo'[k] = q
          BY <4>2 DEF Before
        <5>2. i \in 1..Len(fifo)
          BY <1>2, <5>1
        <5>3. p # q
          BY <1>2, <5>1, <5>2
        <5>4. status'[p] = "queued"
          BY <4>2 DEF Before
        <5>5. QED
          BY <1>1, <5>3, <5>4
      <4>3. QED
        BY <4>1, <4>2
    <3>3. <<p, r>> \notin Ahead /\ (<<p, r>> \in Ahead' <=> status[p] = "queued")
      BY <2>1, <3>1, <3>2, AheadByPairs, AheadByPairsNext
    <3>4. <<p, r>> \in Promise!Waiting \X {q} <=> status[p] = "queued"
      BY <2>1 DEF Promise!Waiting
    <3>5. QED
      BY <3>3, <3>4
  <2>2. CASE r # q
    <3>1. Before(p, r)' <=> Before(p, r)
      <4>1. ASSUME Before(p, r) PROVE Before(p, r)'
        <5>1. PICK i, k \in 1..Len(fifo) : i < k /\ fifo[i] = p /\ fifo[k] = r
          BY <4>1 DEF Before
        <5>2. i \in 1..Len(fifo') /\ k \in 1..Len(fifo')
          BY <1>2
        <5>3. status'[p] = "queued" /\ status'[r] = "queued"
          BY <1>1, <4>1 DEF Before
        <5>4. QED
          BY <1>2, <5>1, <5>2, <5>3 DEF Before
      <4>2. ASSUME Before(p, r)' PROVE Before(p, r)
        <5>1. PICK i, k \in 1..Len(fifo') : i < k /\ fifo'[i] = p /\ fifo'[k] = r
          BY <4>2 DEF Before
        <5>2. i \in 1..Len(fifo) /\ k \in 1..Len(fifo)
          BY <1>2, <2>2, <5>1
        <5>3. p # q /\ status'[p] = "queued" /\ status'[r] = "queued"
          BY <1>2, <4>2, <5>1, <5>2 DEF Before
        <5>4. status[p] = "queued" /\ status[r] = "queued"
          BY <1>1, <2>2, <5>3
        <5>5. QED
          BY <1>2, <5>1, <5>2, <5>4 DEF Before
      <4>3. QED
        BY <4>1, <4>2
    <3>2. <<p, r>> \notin Promise!Waiting \X {q}
      BY <2>2
    <3>3. QED
      BY <3>1, <3>2, AheadByPairs, AheadByPairsNext
  <2>3. QED
    BY <2>1, <2>2
<1>4. Promise!Waiting \X {q} \subseteq QueueIds \X QueueIds
  BY DEF Promise!Waiting
<1>5. Ahead' = Ahead \union (Promise!Waiting \X {q})
  <2> DEFINE new == Ahead \union (Promise!Waiting \X {q})
  <2>1. Ahead' \subseteq QueueIds \X QueueIds /\ new \subseteq QueueIds \X QueueIds
    BY <1>4, AheadByPairs, AheadByPairsNext
  <2>2. \A p, r \in QueueIds : <<p, r>> \in Ahead' <=> <<p, r>> \in new
    BY <1>3
  <2> HIDE DEF new
  <2>3. Ahead' = new
    BY <2>1, <2>2, SamePairs
  <2>4. QED
    BY <2>3 DEF new
<1>6. QED
  BY <1>5 DEF Promise!Joins

\* An id that stops waiting, popped or not, leaves the order of the others.
LEMMA StopIsLeaves ==
  ASSUME QInv, NEW q \in QueueIds, NEW now, now # "queued",
         status' = [status EXCEPT ![q] = now],
         fifo' = fifo \/ (fifo # << >> /\ Head(fifo) = q /\ fifo' = Got(fifo))
  PROVE  Promise!Leaves(q, now)
<1>1. fifo \in Seq(QueueIds) /\ status \in [QueueIds -> ItemStatus]
  BY DEF QInv, QTypeOK
<1>2. ASSUME NEW p \in QueueIds, NEW r \in QueueIds
      PROVE  Before(p, r)' <=> Before(p, r) /\ q # p /\ q # r
  <2>1. CASE q = p \/ q = r
    BY <1>1, <2>1 DEF Before
  <2>2. CASE q # p /\ q # r /\ fifo' = fifo
    BY <1>1, <2>2 DEF Before
  <2>3. CASE q # p /\ q # r /\ fifo # << >> /\ Head(fifo) = q /\ fifo' = Got(fifo)
    <3>1. /\ Len(fifo) \in Nat /\ Len(fifo) > 0 /\ Len(fifo') = Len(fifo) - 1
          /\ \A i \in 1..Len(fifo) - 1 : fifo'[i] = fifo[i + 1]
          /\ fifo[1] = q
      BY <1>1, <2>3, GotFacts
    <3>2. status'[p] = status[p] /\ status'[r] = status[r]
      BY <1>1, <2>3
    <3>3. ASSUME Before(p, r) PROVE Before(p, r)'
      <4>1. PICK i, k \in 1..Len(fifo) : i < k /\ fifo[i] = p /\ fifo[k] = r
        BY <3>3 DEF Before
      <4>2. i - 1 \in 1..Len(fifo') /\ k - 1 \in 1..Len(fifo') /\ i - 1 < k - 1
        BY <2>3, <3>1, <4>1
      <4>3. fifo'[i - 1] = p /\ fifo'[k - 1] = r
        BY <3>1, <4>1, <4>2
      <4>4. QED
        BY <3>2, <3>3, <4>2, <4>3 DEF Before
    <3>4. ASSUME Before(p, r)' PROVE Before(p, r)
      <4>1. PICK i, k \in 1..Len(fifo') : i < k /\ fifo'[i] = p /\ fifo'[k] = r
        BY <3>4 DEF Before
      <4>2. i + 1 \in 1..Len(fifo) /\ k + 1 \in 1..Len(fifo) /\ i + 1 < k + 1
        BY <3>1, <4>1
      <4>3. fifo[i + 1] = p /\ fifo[k + 1] = r
        BY <3>1, <4>1, <4>2
      <4>4. QED
        BY <3>2, <3>4, <4>2, <4>3 DEF Before
    <3>5. QED
      BY <2>3, <3>3, <3>4
  <2>4. QED
    BY <2>1, <2>2, <2>3
<1>3. Ahead' = {pair \in Ahead : q # pair[1] /\ q # pair[2]}
  <2> DEFINE new == {pair \in Ahead : q # pair[1] /\ q # pair[2]}
  <2>1. Ahead' \subseteq QueueIds \X QueueIds /\ new \subseteq QueueIds \X QueueIds
    BY AheadByPairs, AheadByPairsNext
  <2>2. \A p, r \in QueueIds : <<p, r>> \in Ahead' <=> <<p, r>> \in new
    BY <1>2, AheadByPairs, AheadByPairsNext
  <2> HIDE DEF new
  <2>3. Ahead' = new
    BY <2>1, <2>2, SamePairs
  <2>4. QED
    BY <2>3 DEF new
<1>4. QED
  BY <1>3 DEF Promise!Leaves

\* The variables of HandOff, in this module's terms.
Seen == <<jobOf, status, Holder, attempts, DroppedIds, Ahead>>

\* enqueue_parse_result accepts an item.
LEMMA EnqueueNewIsAccept ==
  ASSUME QInv, QInv', NEW j \in Jobs, EnqueueNew(j)
  PROVE  Promise!Accept(j)
<1>1. PICK q \in QueueIds :
        /\ jobOf[q] = NoJob
        /\ jobOf' = [jobOf EXCEPT ![q] = j]
        /\ status' = [status EXCEPT ![q] = "queued"]
        /\ jobIndex' = [jobIndex EXCEPT ![j] = q]
        /\ fifo' = Put(fifo, q)
  BY DEF EnqueueNew
<1>2. ~Full /\ jobIndex[j] = NoId /\ UNCHANGED <<attempts, batch>>
  BY DEF EnqueueNew
<1>3. ~InFifo(q) /\ j # NoJob
  BY <1>1, SentinelsAreFresh DEF QInv, FifoContents, InFifo
<1>4. Promise!Joins(q)
  BY <1>1, <1>3, PutIsJoins
<1>5. Promise!HasRoom
  BY <1>2, RoomIsSeen
<1>6. \A p \in QueueIds : jobOf[p] = j => p \in DroppedIds
  BY <1>2, <1>3, SentinelsAreFresh DEF DroppedIds
<1>7. DroppedIds' = DroppedIds
  <2>1. ASSUME NEW p \in QueueIds
        PROVE  (jobOf'[p] # NoJob /\ jobIndex'[jobOf'[p]] # p)
                 <=> (jobOf[p] # NoJob /\ jobIndex[jobOf[p]] # p)
    BY <1>1, <1>2, <1>3, SentinelsAreFresh DEF QInv, QTypeOK
  <2>2. QED
    BY <2>1 DEF DroppedIds
<1>8. Holder' = Holder
  BY <1>2, HolderStays
<1>9. QED
  BY <1>1, <1>2, <1>4, <1>5, <1>6, <1>7, <1>8 DEF Promise!Accept

\* remove_by_job_id drops the item the index names.
LEMMA RemoveIsDrop ==
  ASSUME QInv, QInv', NEW j \in Jobs, RemoveByJobId(j)
  PROVE  \E q \in QueueIds : Promise!Drop(q)
<1>1. PICK q \in QueueIds : q = jobIndex[j]
  BY DEF RemoveByJobId, QInv, QTypeOK
<1>2. /\ status' = [status EXCEPT ![q] = "absent"]
      /\ jobIndex' = [jobIndex EXCEPT ![j] = NoId]
      /\ UNCHANGED <<attempts, jobOf, fifo, batch>>
  BY <1>1 DEF RemoveByJobId, IndexWithout
<1>3. jobOf[q] = j /\ j # NoJob /\ q # NoId
  BY <1>1, SentinelsAreFresh DEF RemoveByJobId, QInv, IndexIsLive
<1>4. q \notin DroppedIds
  BY <1>1, <1>3 DEF DroppedIds
<1>5. DroppedIds' = DroppedIds \union {q}
  <2>1. ASSUME NEW p \in QueueIds
        PROVE  (jobOf'[p] # NoJob /\ jobIndex'[jobOf'[p]] # p)
                 <=> (jobOf[p] # NoJob /\ jobIndex[jobOf[p]] # p) \/ p = q
    BY <1>1, <1>2, <1>3, SentinelsAreFresh DEF QInv, QTypeOK
  <2>2. QED
    BY <2>1 DEF DroppedIds
<1>6. Promise!Leaves(q, "absent")
  BY <1>2, StopIsLeaves
<1>7. Holder' = Holder
  BY <1>2, HolderStays
<1>8. QED
  BY <1>2, <1>3, <1>4, <1>5, <1>6, <1>7 DEF Promise!Drop

\* An iteration of dequeue_batch takes the item that waits longest.
LEMMA DequeueTakeIsTake ==
  ASSUME QInv, QInv', NEW w \in Workers, DequeueTake(w)
  PROVE  \E q \in QueueIds : Promise!Take(w, q)
<1>1. PICK q \in QueueIds : q = Head(fifo)
  BY PopFacts DEF DequeueTake
<1>2. /\ fifo # << >> /\ fifo' = Got(fifo) /\ Cardinality(batch[w]) < MaxBulk
      /\ status[q] = "queued"
      /\ status' = [status EXCEPT ![q] = "dispatching"]
      /\ attempts' = [attempts EXCEPT ![q] = @ + 1]
      /\ batch' = [batch EXCEPT ![w] = @ \union {q}]
      /\ UNCHANGED <<jobOf, jobIndex>>
  <2>1. Cardinality(batch[w]) < MaxBulk
    <3>1. IsFiniteSet(batch[w])
      BY IdsAreFinite, FS_Subset DEF QInv, QTypeOK
    <3>2. Cardinality(batch[w]) \in Nat /\ MaxBulk \in Nat
      BY <3>1, FS_CardinalityType, SizesAreLegal
    <3>3. QED
      BY <3>2 DEF DequeueTake, BatchFull
  <2>2. QED
    BY <1>1, <2>1 DEF DequeueTake, Takes
<1>3. \A v \in Workers : q \notin batch[v]
  BY <1>1, <1>2, PopFacts
<1>4. Holder[q] = NoWorker /\ Promise!Held(w) = batch[w]
  BY <1>3, HolderFacts DEF HolderIsSeen
<1>5. Holder' = [Holder EXCEPT ![q] = w]
  <2>1. \A p \in QueueIds, v \in Workers : p \in batch'[v] <=> p \in batch[v] \/ (p = q /\ v = w)
    BY <1>2 DEF QInv, QTypeOK
  <2>2. \A p \in QueueIds : p # q => Holder'[p] = Holder[p]
    BY <2>1, HolderFacts, HolderFactsNext DEF HolderIsSeen
  <2>3. Holder'[q] = w
    BY <2>1, HolderFactsNext DEF HolderIsSeen
  <2>4. QED
    BY <2>2, <2>3, HolderFacts, HolderFactsNext DEF HolderIsSeen
<1>6. \A p \in QueueIds : <<p, q>> \notin Ahead
  <2>1. ASSUME NEW p \in QueueIds, Before(p, q) PROVE FALSE
    <3>1. PICK i, k \in 1..Len(fifo) : i < k /\ fifo[k] = q
      BY <2>1 DEF Before
    <3>2. fifo[1] = q /\ Len(fifo) \in Nat
      BY <1>1, <1>2, GotFacts DEF QInv, QTypeOK
    <3>3. k = 1
      BY <3>1, <3>2 DEF QInv, HeldOnce
    <3>4. QED
      BY <3>1, <3>3
  <2>2. QED
    BY <2>1, AheadByPairs
<1>7. Promise!Leaves(q, "dispatching")
  BY <1>1, <1>2, StopIsLeaves
<1>8. DroppedIds' = DroppedIds
  BY <1>2 DEF DroppedIds
<1>9. Promise!Cardinality(Promise!Held(w)) < MaxBulk
  BY <1>2, <1>4, SameCount
<1>10. QED
  BY <1>2, <1>4, <1>5, <1>6, <1>7, <1>8, <1>9 DEF Promise!Take

\* Popping the id of a dropped item is invisible.
LEMMA DequeueSkipIsUnseen ==
  ASSUME QInv, QInv', NEW w \in Workers, DequeueSkip(w)
  PROVE  UNCHANGED Seen
<1>1. /\ fifo # << >> /\ fifo' = Got(fifo) /\ status[Head(fifo)] # "queued"
      /\ UNCHANGED <<status, attempts, jobOf, jobIndex, batch>>
  BY DEF DequeueSkip, Takes
<1>2. PICK q \in QueueIds : q = Head(fifo)
  BY <1>1, PopFacts
<1>3. status' = [status EXCEPT ![q] = status[q]] /\ status[q] # "queued"
  BY <1>1, <1>2 DEF QInv, QTypeOK
<1>4. Promise!Leaves(q, status[q])
  BY <1>1, <1>2, <1>3, StopIsLeaves
<1>5. \A pair \in Ahead : q # pair[1] /\ q # pair[2]
  BY <1>3 DEF Ahead
<1>6. Ahead' = Ahead
  BY <1>4, <1>5 DEF Promise!Leaves
<1>7. DroppedIds' = DroppedIds /\ Holder' = Holder
  BY <1>1, HolderStays DEF DroppedIds
<1>8. QED
  BY <1>1, <1>6, <1>7 DEF Seen

\* mark_batch_failed with a retry gives the items back one by one.
LEMMA RequeueItemIsGiveBack ==
  ASSUME QInv, QInv', NEW w \in Workers, RequeueItem(w)
  PROVE  \E q \in QueueIds : Promise!GiveBack(w, q)
<1>1. PICK q \in batch[w] :
        /\ status' = [status EXCEPT ![q] = "queued"]
        /\ fifo' = Put(fifo, q)
        /\ batch' = [batch EXCEPT ![w] = @ \ {q}]
  BY DEF RequeueItem
<1>2. ~Full /\ UNCHANGED <<attempts, jobOf, jobIndex>> /\ q \in QueueIds
  BY DEF RequeueItem, QInv, QTypeOK
<1>3. ~InFifo(q)
  BY DEF QInv, HeldOnce
<1>4. Promise!Joins(q) /\ Promise!HasRoom
  BY <1>1, <1>2, <1>3, PutIsJoins, RoomIsSeen
<1>5. Holder[q] = w
  BY <1>2, HolderFacts DEF HolderIsSeen
<1>6. Holder' = [Holder EXCEPT ![q] = NoWorker]
  <2>1. \A p \in QueueIds, v \in Workers : p \in batch'[v] <=> p \in batch[v] /\ p # q
    BY <1>1 DEF QInv, QTypeOK, HeldOnce
  <2>2. \A p \in QueueIds : p # q => Holder'[p] = Holder[p]
    BY <2>1, HolderFacts, HolderFactsNext DEF HolderIsSeen
  <2>3. Holder'[q] = NoWorker
    BY <1>2, <2>1, HolderFactsNext DEF HolderIsSeen
  <2>4. QED
    BY <2>2, <2>3, HolderFacts, HolderFactsNext DEF HolderIsSeen
<1>7. DroppedIds' = DroppedIds
  BY <1>2 DEF DroppedIds
<1>8. QED
  BY <1>2, <1>4, <1>5, <1>6, <1>7 DEF Promise!GiveBack

\* Writing a verdict on held items settles them.
LEMMA MarkIsSettle ==
  ASSUME QInv, QInv', NEW w \in Workers, NEW marked \in SUBSET batch[w], marked # {},
         NEW verdict \in {"completed", "failed"}, verdict = "failed" => marked = batch[w],
         status' = WithStatus(marked, verdict),
         batch' = [batch EXCEPT ![w] = @ \ marked],
         UNCHANGED <<attempts, jobOf, jobIndex, fifo>>
  PROVE  Promise!Settle(w, marked, verdict)
<1>1. marked \subseteq QueueIds /\ Promise!Held(w) = batch[w]
  BY HolderFacts DEF QInv, QTypeOK, HolderIsSeen
<1>2. Holder' = [q \in QueueIds |-> IF q \in marked THEN NoWorker ELSE Holder[q]]
  <2>1. \A p \in QueueIds, v \in Workers : p \in batch'[v] <=> p \in batch[v] /\ p \notin marked
    BY DEF QInv, QTypeOK, HeldOnce
  <2>2. \A p \in QueueIds \ marked : Holder'[p] = Holder[p]
    BY <2>1, HolderFacts, HolderFactsNext DEF HolderIsSeen
  <2>3. \A p \in marked : Holder'[p] = NoWorker
    BY <1>1, <2>1, HolderFactsNext DEF HolderIsSeen
  <2>4. QED
    BY <2>2, <2>3, HolderFacts, HolderFactsNext DEF HolderIsSeen
<1>3. Ahead' = Ahead
  <2>1. \A p \in QueueIds : status[p] = "queued" <=> status'[p] = "queued"
    BY DEF WithStatus, QInv, BatchContents
  <2>2. QED
    BY <2>1 DEF Ahead
<1>4. DroppedIds' = DroppedIds
  BY DEF DroppedIds
<1>5. QED
  BY <1>1, <1>2, <1>3, <1>4 DEF Promise!Settle, WithStatus

\* mark_completed settles the marked items.
LEMMA MarkCompletedIsSettle ==
  ASSUME QInv, QInv', NEW w \in Workers, NEW marked, MarkCompleted(w, marked)
  PROVE  Promise!Settle(w, marked, "completed") /\ marked \in SUBSET QueueIds
<1>1. marked \in SUBSET batch[w] /\ batch[w] \subseteq QueueIds
  BY DEF MarkCompleted, QInv, QTypeOK
<1>2. QED
  BY <1>1, MarkIsSettle DEF MarkCompleted, Unmarked

\* mark_batch_failed without a retry settles the whole batch.
LEMMA MarkBatchFailedIsSettle ==
  ASSUME QInv, QInv', NEW w \in Workers, MarkBatchFailed(w)
  PROVE  Promise!Settle(w, batch[w], "failed") \/ UNCHANGED Seen
<1>1. batch[w] \in SUBSET batch[w]
  OBVIOUS
<1>2. CASE batch[w] # {}
  <2>1. batch' = [batch EXCEPT ![w] = @ \ batch[w]]
    BY DEF MarkBatchFailed, QInv, QTypeOK
  <2>2. QED
    BY <1>1, <1>2, <2>1, MarkIsSettle DEF MarkBatchFailed
<1>3. CASE batch[w] = {}
  <2>1. status' = status /\ batch' = batch /\ UNCHANGED <<attempts, jobOf, jobIndex, fifo>>
    BY <1>3 DEF MarkBatchFailed, WithStatus, QInv, QTypeOK
  <2>2. QED
    BY <2>1, HolderStays DEF Seen, DroppedIds, Ahead
<1>4. QED
  BY <1>2, <1>3

\* A step that leaves the items, the FIFO, the batches and the index alone.
LEMMA SeenStays ==
  UNCHANGED <<status, attempts, jobOf, jobIndex, fifo, batch>> => UNCHANGED Seen
BY HolderStays DEF Seen, DroppedIds, Ahead

\* Every operation of the queue is a step of HandOff or invisible, whoever
\* calls it and however often items are retried.
LEMMA OperationIsSeen ==
  ASSUME QInv, QInv',
         \/ \E j \in Jobs : Client(j)
         \/ \E w \in Workers :
              \/ Dequeue(w)
              \/ \E marked \in SUBSET batch[w] : MarkCompleted(w, marked)
              \/ MarkBatchFailed(w)
              \/ RequeueAcquire(w) \/ RequeueItem(w) \/ RequeueReturn(w)
         \/ UNCHANGED qvars
  PROVE  Promise!HNext \/ UNCHANGED Seen
<1>1. ASSUME NEW j \in Jobs, Client(j) PROVE Promise!HNext \/ UNCHANGED Seen
  <2>1. CASE EnqueueNew(j)
    BY <2>1, EnqueueNewIsAccept DEF Promise!HNext
  <2>2. CASE RemoveByJobId(j)
    BY <2>2, RemoveIsDrop DEF Promise!HNext
  <2>3. CASE EnqueueExisting(j) \/ EnqueueFull(j)
    BY <2>3, SeenStays DEF EnqueueExisting, EnqueueFull, qvars
  <2>4. QED
    BY <1>1, <2>1, <2>2, <2>3 DEF Client
<1>2. ASSUME NEW w \in Workers, Dequeue(w) PROVE Promise!HNext \/ UNCHANGED Seen
  <2>1. CASE DequeueTake(w)
    BY <2>1, DequeueTakeIsTake DEF Promise!HNext
  <2>2. CASE DequeueSkip(w)
    BY <2>2, DequeueSkipIsUnseen
  <2>3. CASE DequeueAcquire(w) \/ DequeueReturn(w)
    BY <2>3, SeenStays DEF DequeueAcquire, DequeueReturn
  <2>4. QED
    BY <1>2, <2>1, <2>2, <2>3 DEF Dequeue
<1>3. ASSUME NEW w \in Workers, NEW marked \in SUBSET batch[w], MarkCompleted(w, marked)
      PROVE  Promise!HNext
  BY <1>3, MarkCompletedIsSettle DEF Promise!HNext
<1>4. ASSUME NEW w \in Workers, MarkBatchFailed(w) PROVE Promise!HNext \/ UNCHANGED Seen
  <2>1. batch[w] \in SUBSET QueueIds
    BY DEF QInv, QTypeOK
  <2>2. QED
    BY <1>4, <2>1, MarkBatchFailedIsSettle DEF Promise!HNext
<1>5. ASSUME NEW w \in Workers, RequeueItem(w) PROVE Promise!HNext
  BY <1>5, RequeueItemIsGiveBack DEF Promise!HNext
<1>6. ASSUME NEW w \in Workers, RequeueAcquire(w) \/ RequeueReturn(w) PROVE UNCHANGED Seen
  BY <1>6, SeenStays DEF RequeueAcquire, RequeueReturn
<1>7. CASE UNCHANGED qvars
  BY <1>7, SeenStays DEF qvars
<1>8. QED
  BY <1>1, <1>2, <1>3, <1>4, <1>5, <1>6, <1>7

\* The queue starts as an empty HandOff.
LEMMA EmptyIsSeen == QInit => Promise!HInit
<1> SUFFICES ASSUME QInit PROVE Promise!HInit
  OBVIOUS
<1>1. Holder = [q \in QueueIds |-> NoWorker]
  BY DEF QInit, Holder, HolderOf
<1>2. DroppedIds = {} /\ Ahead = {}
  BY DEF QInit, DroppedIds, Ahead
<1>3. QED
  BY <1>1, <1>2 DEF QInit, Promise!HInit

\* A step of the queue alone is one of HandOff, or nobody sees it.
LEMMA QueueStepIsSeen ==
  QInv /\ QInv' /\ [QNext]_qvars => [Promise!HNext]_(Promise!hvars)
<1> SUFFICES ASSUME QInv, QInv', [QNext]_qvars PROVE Promise!HNext \/ UNCHANGED Seen
  BY DEF Promise!hvars, Seen
<1>1. \/ \E j \in Jobs : Client(j)
      \/ \E w \in Workers :
           \/ Dequeue(w)
           \/ \E marked \in SUBSET batch[w] : MarkCompleted(w, marked)
           \/ MarkBatchFailed(w)
           \/ RequeueAcquire(w) \/ RequeueItem(w) \/ RequeueReturn(w)
      \/ UNCHANGED qvars
  BY DEF QNext, Report
<1>2. QED
  BY <1>1, OperationIsSeen

\* The hand-off queue implements HandOff for every number of jobs, threads and
\* ids and every legal capacity and batch size: what enqueue_parse_result,
\* remove_by_job_id, dequeue_batch, mark_completed and mark_batch_failed do to
\* the FIFO, the index and the lock is, for their callers, one atomic step each
\* item at a time.
THEOREM QueueKeepsPromise == QSpec => PromiseKept
<1>1. QInit => Promise!HInit
  BY EmptyIsSeen
<1>2. QInv /\ QInv' /\ [QNext]_qvars => [Promise!HNext]_(Promise!hvars)
  BY QueueStepIsSeen
<1>3. QED
  BY <1>1, <1>2, QueueInvariant, PTL DEF QSpec, PromiseKept, Promise!HSpec

-----------------------------------------------------------------------------
(* The bounds of the queue.                                                *)

\* No thread is ever given more items than dispatch_max_bulk_size.
BatchesAreSmall == \A w \in Workers : Cardinality(batch[w]) <= MaxBulk

\* Every set of ids can be counted.
LEMMA IdsCount ==
  ASSUME NEW S \in SUBSET QueueIds
  PROVE  IsFiniteSet(S) /\ Cardinality(S) \in Nat
  BY IdsAreFinite, FS_Subset, FS_CardinalityType

\* A batch grows by the item of an iteration that found it not full.
LEMMA OperationKeepsBatchesSmall ==
  ASSUME QInv, BatchesAreSmall, QInv',
         \/ \E j \in Jobs : Client(j)
         \/ \E w \in Workers :
              \/ Dequeue(w)
              \/ \E marked \in SUBSET batch[w] : MarkCompleted(w, marked)
              \/ MarkBatchFailed(w)
              \/ RequeueAcquire(w) \/ RequeueItem(w) \/ RequeueReturn(w)
         \/ UNCHANGED qvars
  PROVE  BatchesAreSmall'
<1>1. batch \in [Workers -> SUBSET QueueIds] /\ batch' \in [Workers -> SUBSET QueueIds]
  BY DEF QInv, QTypeOK
<1>2. MaxBulk \in Nat
  BY SizesAreLegal
<1>3. ASSUME NEW v \in Workers, \/ batch'[v] \subseteq batch[v]
                                \/ DequeueTake(v)
      PROVE  Cardinality(batch'[v]) <= MaxBulk
  <2>1. CASE batch'[v] \subseteq batch[v]
    <3>1. Cardinality(batch'[v]) <= Cardinality(batch[v])
      BY <1>1, <2>1, IdsCount, FS_Subset
    <3>2. QED
      BY <1>1, <1>2, <3>1, IdsCount DEF BatchesAreSmall
  <2>2. CASE DequeueTake(v)
    <3>1. PICK q \in QueueIds : batch'[v] = batch[v] \union {q}
      BY <1>1, <2>2, PopFacts DEF DequeueTake
    <3>2. Cardinality(batch[v]) < MaxBulk
      BY <1>1, <1>2, <2>2, IdsCount DEF DequeueTake, BatchFull
    <3>3. Cardinality(batch[v] \union {q}) <= Cardinality(batch[v]) + 1
      BY <1>1, IdsCount, FS_AddElement
    <3>4. QED
      BY <1>1, <1>2, <3>1, <3>2, <3>3, IdsCount
  <2>3. QED
    BY <1>3, <2>1, <2>2
<1>4. \A v \in Workers : batch'[v] \subseteq batch[v] \/ DequeueTake(v)
  <2>1. CASE UNCHANGED batch
    BY <2>1
  <2>2. ASSUME NEW w \in Workers, \/ DequeueTake(w)
                                  \/ \E marked \in SUBSET batch[w] : MarkCompleted(w, marked)
                                  \/ MarkBatchFailed(w) \/ RequeueItem(w)
        PROVE  \A v \in Workers : batch'[v] \subseteq batch[v] \/ DequeueTake(v)
    BY <1>1, <2>2 DEF DequeueTake, MarkCompleted, Unmarked, MarkBatchFailed, RequeueItem
  <2>3. QED
    BY <2>1, <2>2 DEF Client, EnqueueExisting, EnqueueNew, EnqueueFull, RemoveByJobId, Dequeue,
       DequeueAcquire, DequeueSkip, DequeueReturn, RequeueAcquire, RequeueReturn, qvars
<1>5. QED
  BY <1>3, <1>4 DEF BatchesAreSmall

\* At first nobody holds anything.
LEMMA NobodyHoldsMuch == QInit => BatchesAreSmall
<1> SUFFICES ASSUME QInit PROVE BatchesAreSmall
  OBVIOUS
<1>1. \A w \in Workers : batch[w] = {}
  BY DEF QInit
<1>2. QED
  BY <1>1, FS_EmptySet, SizesAreLegal DEF BatchesAreSmall

\* dequeue_batch never returns more items than it was asked for.
THEOREM BatchesStaySmall == QSpec => []BatchesAreSmall
<1>1. QInv /\ QInv' /\ BatchesAreSmall /\ [QNext]_qvars => BatchesAreSmall'
  <2> SUFFICES ASSUME QInv, QInv', BatchesAreSmall, [QNext]_qvars PROVE BatchesAreSmall'
    OBVIOUS
  <2>1. \/ \E j \in Jobs : Client(j)
        \/ \E w \in Workers :
             \/ Dequeue(w)
             \/ \E marked \in SUBSET batch[w] : MarkCompleted(w, marked)
             \/ MarkBatchFailed(w)
             \/ RequeueAcquire(w) \/ RequeueItem(w) \/ RequeueReturn(w)
        \/ UNCHANGED qvars
    BY DEF QNext, Report
  <2>2. QED
    BY <2>1, OperationKeepsBatchesSmall
<1>2. QED
  BY <1>1, NobodyHoldsMuch, QueueInvariant, PTL DEF QSpec

\* The items handed over that have no verdict yet, those the API has dropped
\* included: their ids keep a place in the FIFO or in a batch.
Unsettled == {q \in QueueIds : jobOf[q] # NoJob /\ status[q] \notin Terminal}

BlockedMeansBacklog == PutBlocked => Cardinality(Unsettled) > MaxSize

\* A FIFO holds different unsettled ids, and a blocked put brings one more.
LEMMA FullFifoIsBacklog == QInv => BlockedMeansBacklog
<1> SUFFICES ASSUME QInv, PutBlocked PROVE Cardinality(Unsettled) > MaxSize
  BY DEF BlockedMeansBacklog
<1> DEFINE n == Len(fifo)
           here == {fifo[i] : i \in 1..n}
<1>1. PICK w \in Workers, q \in QueueIds : q \in batch[w]
  BY DEF PutBlocked, QInv, QTypeOK
<1>2. fifo \in Seq(QueueIds) /\ n \in Nat /\ n >= MaxSize /\ MaxSize \in Nat
  BY SizesAreLegal DEF PutBlocked, Full, QInv, QTypeOK
<1>3. [i \in 1..n |-> fifo[i]] \in Injection(1..n, here)
  <2>1. IsInjective([i \in 1..n |-> fifo[i]])
    BY DEF QInv, HeldOnce, IsInjective
  <2>2. [i \in 1..n |-> fifo[i]] \in [1..n -> here]
    OBVIOUS
  <2>3. QED
    BY <2>1, <2>2 DEF Injection
<1>4. here \in SUBSET QueueIds
  BY <1>2
<1>5. IsFiniteSet(here) /\ Cardinality(here) \in Nat
  BY <1>4, IdsCount
<1>6. \A k \in Nat : Cardinality(1..k) = k
  <2>1. \A k \in Nat : Cardinality(1..k) = IF 1 > k THEN 0 ELSE k - 1 + 1
    BY FS_Interval
  <2>2. \A k \in Nat : (IF 1 > k THEN 0 ELSE k - 1 + 1) = k
    OBVIOUS
  <2>3. QED
    BY <2>1, <2>2
<1>7. n <= Cardinality(here)
  <2>1. Cardinality(1..n) <= Cardinality(here)
    BY <1>3, <1>5, FS_Injection
  <2>2. QED
    BY <1>2, <1>6, <2>1
<1>8. q \notin here
  BY <1>1 DEF QInv, HeldOnce, InFifo
<1>9. Cardinality(here \union {q}) = Cardinality(here) + 1
  BY <1>5, <1>8, FS_AddElement
<1>10. here \union {q} \subseteq Unsettled
  <2>1. \A i \in 1..n : fifo[i] \in Unsettled
    BY <1>2 DEF QInv, FifoContents, Unsettled, Terminal
  <2>2. q \in Unsettled
    BY <1>1 DEF QInv, BatchContents, Unsettled, Terminal
  <2>3. QED
    BY <2>1, <2>2
<1>11. Unsettled \in SUBSET QueueIds
  BY DEF Unsettled
<1>12. Cardinality(here \union {q}) <= Cardinality(Unsettled) /\ Cardinality(Unsettled) \in Nat
  BY <1>10, <1>11, IdsCount, FS_Subset
<1>13. QED
  BY <1>2, <1>5, <1>7, <1>9, <1>12

\* mark_batch_failed blocks in queue.put, with the lock taken, only when more
\* items than the FIFO has places are without a verdict, the ones removed
\* through the API counted: below that backlog no thread ever waits there.
THEOREM PutBlocksOnBacklogOnly == QSpec => []BlockedMeansBacklog
<1>1. QED
  BY FullFifoIsBacklog, QueueInvariant, PTL
=============================================================================
