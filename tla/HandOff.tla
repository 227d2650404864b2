------------------------------ MODULE HandOff ------------------------------
(***************************************************************************)
(* What the hand-off queue promises the parser, the API and the dispatcher *)
(* threads, with nothing of the FIFO, the index, the lock or the loops:    *)
(*   - a job has one item until the API drops it, and an id is used once;  *)
(*   - a thread is given the item that has waited longest, at most         *)
(*     BatchSize at a time, and nobody else has it;                        *)
(*   - an item ends with the verdict of the thread that holds it, or goes  *)
(*     back to wait; a failure is the verdict of all that thread holds;    *)
(*   - a verdict is final, and every attempt is one that was taken;        *)
(*   - at most Capacity items wait.                                        *)
(* Dropping an item does not call back the thread that works on it: what   *)
(* that thread reports is recorded all the same.                           *)
(* DispatchQueue, alone and inside DispatchService, implements this.       *)
(***************************************************************************)
EXTENDS Naturals, FiniteSets

CONSTANTS Jobs, QueueIds, Workers, Capacity, BatchSize, NoJob, NoWorker

VARIABLES
  owner,    \* the job an id was created for
  item,     \* what the queue says of it
  holder,   \* the thread that works on it, or NoWorker
  takes,    \* how often it was taken
  dropped,  \* the ids the API has dropped
  ahead     \* the pairs of waiting ids of which the first waits longer

hvars == <<owner, item, holder, takes, dropped, ahead>>

Waiting == {q \in QueueIds : item[q] = "queued"}
Held(w) == {q \in QueueIds : holder[q] = w}
HasRoom == Cardinality(Waiting) < Capacity

Joins(q) ==
  /\ item' = [item EXCEPT ![q] = "queued"]
  /\ ahead' = ahead \union (Waiting \X {q})
Leaves(q, now) ==
  /\ item' = [item EXCEPT ![q] = now]
  /\ ahead' = {pair \in ahead : q # pair[1] /\ q # pair[2]}

HInit ==
  /\ owner = [q \in QueueIds |-> NoJob]
  /\ item = [q \in QueueIds |-> "absent"]
  /\ holder = [q \in QueueIds |-> NoWorker]
  /\ takes = [q \in QueueIds |-> 0]
  /\ dropped = {}
  /\ ahead = {}

Accept(j) ==
  /\ \A q \in QueueIds : owner[q] = j => q \in dropped
  /\ HasRoom
  /\ \E q \in QueueIds :
       /\ owner[q] = NoJob
       /\ owner' = [owner EXCEPT ![q] = j]
       /\ Joins(q)
  /\ UNCHANGED <<holder, takes, dropped>>

Drop(q) ==
  /\ owner[q] # NoJob /\ q \notin dropped
  /\ dropped' = dropped \union {q}
  /\ Leaves(q, "absent")
  /\ UNCHANGED <<owner, holder, takes>>

Take(w, q) ==
  /\ item[q] = "queued" /\ holder[q] = NoWorker
  /\ \A p \in QueueIds : <<p, q>> \notin ahead
  /\ Cardinality(Held(w)) < BatchSize
  /\ Leaves(q, "dispatching")
  /\ holder' = [holder EXCEPT ![q] = w]
  /\ takes' = [takes EXCEPT ![q] = @ + 1]
  /\ UNCHANGED <<owner, dropped>>

GiveBack(w, q) ==
  /\ holder[q] = w
  /\ HasRoom
  /\ Joins(q)
  /\ holder' = [holder EXCEPT ![q] = NoWorker]
  /\ UNCHANGED <<owner, takes, dropped>>

Settle(w, ids, verdict) ==
  /\ ids # {} /\ ids \subseteq Held(w)
  /\ verdict = "failed" => ids = Held(w)
  /\ item' = [q \in QueueIds |-> IF q \in ids THEN verdict ELSE item[q]]
  /\ holder' = [q \in QueueIds |-> IF q \in ids THEN NoWorker ELSE holder[q]]
  /\ UNCHANGED <<owner, takes, dropped, ahead>>

HNext ==
  \/ \E j \in Jobs : Accept(j)
  \/ \E q \in QueueIds :
       Drop(q) \/ \E w \in Workers : Take(w, q) \/ GiveBack(w, q)
  \/ \E w \in Workers, ids \in SUBSET QueueIds, verdict \in {"completed", "failed"} :
       Settle(w, ids, verdict)

HSpec == HInit /\ [][HNext]_hvars
=============================================================================
