-------------------------- MODULE DramatiqPipeline --------------------------
(***************************************************************************)
(* A job's way through the `dramatiq` queue backend: the API publishes the *)
(* job's id, a parser actor runs the coordinator in a child process and    *)
(* watches it, the child publishes the parsed document, a dispatch actor   *)
(* delivers it.  The child also keeps the document in the hand-off queue   *)
(* of its own process and starts dispatcher threads there, which live as   *)
(* long as the child does.                                                 *)
(*                                                                         *)
(* RabbitMQ and dramatiq are outside: a message is delivered until it is   *)
(* acknowledged, an actor that raises gets its message once more, later.   *)
(* The faults do not exhaust dramatiq's own retries.                       *)
(*                                                                         *)
(* Abstractions.  A row is its status, its failure count and, while it     *)
(* says PARSING, the process id it names.  A read of a row and the save    *)
(* that follows at once are one step; DispatchService and LocalPipeline    *)
(* take them apart.                                                        *)
(***************************************************************************)
EXTENDS Naturals, FiniteSets

CONSTANTS
  Jobs,
  Parents,      \* threads of parser actors
  Children,     \* slots of child processes
  Senders,      \* threads of dispatch actors
  MaxRetries,   \* settings.parser_max_retry_attempts
  MaxFailures,  \* bound of the model: failed conversions of a job
  MaxFaults,    \* bound of the model: crashes, time limits, refusals, removals
  NoRow, NoJob, NoChild

ASSUME DramatiqBounds == MaxRetries \in Nat /\ MaxFailures \in Nat /\ MaxFaults \in Nat
ASSUME ParentsAreFinite == IsFiniteSet(Parents)

VARIABLES
  row,            \* ingestion_jobs
  api,            \* how far the request of each job is
  parserQueue,    \* messages of process_parser_job nobody holds, by job
  dispatchQueue,  \* messages of process_dispatch_job nobody holds, by job
  parent, child, sender,
  faults,         \* how many of the faults have happened
  past            \* history: what the properties have to know of the past

vars == <<row, api, parserQueue, dispatchQueue, parent, child, sender, faults, past>>

FreeParent == [at |-> "free", job |-> NoJob, child |-> NoChild]
FreeSender == [at |-> "free", job |-> NoJob]
NoProcess == [at |-> "none", job |-> NoJob, copy |-> NoRow, retry |-> FALSE, own |-> "none"]

Init ==
  /\ row = [j \in Jobs |-> NoRow]
  /\ api = [j \in Jobs |-> "new"]
  /\ parserQueue = [j \in Jobs |-> 0]
  /\ dispatchQueue = [j \in Jobs |-> 0]
  /\ parent = [p \in Parents |-> FreeParent]
  /\ child = [k \in Children |-> NoProcess]
  /\ sender = [d \in Senders |-> FreeSender]
  /\ faults = 0
  /\ past = [delivered |-> {}, failed |-> {}, removed |-> {}, unpublished |-> {},
             orphaned |-> 0, resent |-> 0]

Fault == faults < MaxFaults /\ faults' = faults + 1

Alive(k) == child[k].at \notin {"none", "done", "vanished"}
Orphan(k) == \A p \in Parents : parent[p].child # k
JobOf(k) == child[k].job

(* Faulty variants of definitions below *)
RaisesAsWell(j) == [parserQueue EXCEPT ![j] = @ + 2]
NothingRepublished(j) == parserQueue
SilenceIsSuccess(p) == parserQueue
LetsItRun(k) == child

----------------------------------------------------------------------------
(* The API: FileIngestionService with DramatiqJobQueuePublisher *)

SaveUpload(j) ==
  /\ api[j] = "new"
  /\ api' = [api EXCEPT ![j] = "saved"]
  /\ row' = [row EXCEPT ![j] = [status |-> "PARSER_QUEUED", failures |-> 0, pid |-> NoChild]]
  /\ UNCHANGED <<parserQueue, dispatchQueue, parent, child, sender, faults, past>>

EnqueueParserJob(j) ==
  /\ api[j] = "saved"
  /\ api' = [api EXCEPT ![j] = "answered"]
  /\ parserQueue' = [parserQueue EXCEPT ![j] = @ + 1]
  /\ UNCHANGED <<row, dispatchQueue, parent, child, sender, faults, past>>

(* The broker refuses the message, or the API ends before it is sent.      *)
ParserJobUnsent(j) ==
  /\ api[j] = "saved" /\ Fault
  /\ api' = [api EXCEPT ![j] = "answered"]
  /\ \/ row' = [row EXCEPT ![j] = [status |-> "RETRYABLE_FAILURE", failures |-> 0, pid |-> NoChild]]
     \/ UNCHANGED row
  /\ past' = [past EXCEPT !.unpublished = @ \union {j}]
  /\ UNCHANGED <<parserQueue, dispatchQueue, parent, child, sender>>

(* DELETE: the child the row names is ended, the row deleted. *)
RemoveJob(j) ==
  /\ row[j] # NoRow /\ Fault
  /\ child' = [k \in Children |->
                 IF row[j].status = "PARSING" /\ row[j].pid = k /\ Alive(k) /\ JobOf(k) = j
                 THEN [child[k] EXCEPT !.at = "vanished"] ELSE child[k]]
  /\ row' = [row EXCEPT ![j] = NoRow]
  /\ past' = [past EXCEPT !.removed = @ \union {j}]
  /\ UNCHANGED <<api, parserQueue, dispatchQueue, parent, sender>>

Api(j) == SaveUpload(j) \/ EnqueueParserJob(j)

----------------------------------------------------------------------------
(* The parser actor: process_parser_job, run_parser_job_in_subprocess *)

(* What is in the parser queue once the actor has sent a retry. *)
Republished(j) == [parserQueue EXCEPT ![j] = @ + 1]

(* What is there once the actor has raised: dramatiq keeps the message.    *)
Raised(p) == [parserQueue EXCEPT ![parent[p].job] = @ + 1]

(* An actor that ends after it has sent a retry leaves two messages. *)
Resent(p) == IF parent[p].at = "republished" THEN past.resent + 1 ELSE past.resent

(* terminate, then kill; and nobody asks for the result. *)
Terminated(k) == [l \in Children |-> IF l = k THEN NoProcess ELSE child[l]]

Receive(p) ==
  /\ parent[p].at = "free"
  /\ \E j \in Jobs, k \in Children :
       /\ parserQueue[j] > 0 /\ child[k].at = "none"
       /\ parserQueue' = [parserQueue EXCEPT ![j] = @ - 1]
       /\ parent' = [parent EXCEPT ![p] = [at |-> "watching", job |-> j, child |-> k]]
       /\ child' = [child EXCEPT ![k] = [NoProcess EXCEPT !.at = "started", !.job = j]]
  /\ UNCHANGED <<row, api, dispatchQueue, sender, faults, past>>

(* The child has ended: its result, or the error that it left none.        *)
TakeResult(p) ==
  LET k == parent[p].child
  IN  /\ parent[p].at = "watching" /\ child[k].at \in {"done", "vanished"}
      /\ child' = [child EXCEPT ![k] = NoProcess]
      /\ IF child[k].at = "done"
         THEN /\ parent' = [parent EXCEPT ![p] =
                   [at |-> IF child[k].retry THEN "republish" ELSE "acknowledge",
                    job |-> parent[p].job, child |-> NoChild]]
              /\ UNCHANGED parserQueue
         ELSE parent' = [parent EXCEPT ![p] = FreeParent] /\ parserQueue' = Raised(p)
      /\ UNCHANGED <<row, api, dispatchQueue, sender, faults, past>>

Republish(p) ==
  /\ parent[p].at = "republish"
  /\ parserQueue' = Republished(parent[p].job)
  /\ parent' = [parent EXCEPT ![p].at = "republished"]
  /\ UNCHANGED <<row, api, dispatchQueue, child, sender, faults, past>>

Acknowledge(p) ==
  /\ parent[p].at \in {"acknowledge", "republished"}
  /\ parent' = [parent EXCEPT ![p] = FreeParent]
  /\ UNCHANGED <<row, api, parserQueue, dispatchQueue, child, sender, faults, past>>

(* TimeLimitExceeded, wherever the actor is until its message is           *)
(* acknowledged, or an error of sending the retry: it raises.  A child it  *)
(* watches does not outlive it.                                            *)
TimeLimit(p) ==
  /\ parent[p].at # "free" /\ Fault
  /\ child' = Terminated(parent[p].child)
  /\ parent' = [parent EXCEPT ![p] = FreeParent]
  /\ parserQueue' = Raised(p)
  /\ past' = [past EXCEPT !.resent = Resent(p)]
  /\ UNCHANGED <<row, api, dispatchQueue, sender>>

(* The worker process is killed, or the limit strikes between the start of *)
(* the child and the watching: the broker takes its message back, a child  *)
(* goes on alone.                                                          *)
ParentDies(p) ==
  /\ parent[p].at # "free" /\ Fault
  /\ parent' = [parent EXCEPT ![p] = FreeParent]
  /\ parserQueue' = [parserQueue EXCEPT ![parent[p].job] = @ + 1]
  /\ past' = [past EXCEPT !.resent = Resent(p),
                !.orphaned = IF parent[p].at = "watching" THEN @ + 1 ELSE @]
  /\ UNCHANGED <<row, api, dispatchQueue, child, sender>>

Parent(p) == Receive(p) \/ TakeResult(p) \/ Republish(p) \/ Acknowledge(p)

----------------------------------------------------------------------------
(* The child: JobParseCoordinator.process_job and enqueue_parse_result *)

outside == <<api, parserQueue, parent, sender>>

Start(k) ==
  /\ child[k].at = "started"
  /\ LET j == JobOf(k)
         running == [row[j] EXCEPT !.status = "PARSING", !.pid = k]
     IN  IF row[j] = NoRow
         THEN child' = [child EXCEPT ![k].at = "ending"] /\ UNCHANGED row
         ELSE /\ row' = [row EXCEPT ![j] = running]
              /\ child' = [child EXCEPT ![k].at = "converting", ![k].copy = running]
  /\ UNCHANGED <<outside, dispatchQueue, faults, past>>

(* `get(job_id) or running_job` *)
LatestJob(k) == IF row[JobOf(k)] = NoRow THEN child[k].copy ELSE row[JobOf(k)]

ConversionFails(k) ==
  /\ child[k].at = "converting"
  /\ LET failures == LatestJob(k).failures + 1
         again == failures <= MaxRetries
     IN  /\ failures <= MaxFailures
         /\ row' = [row EXCEPT ![JobOf(k)] = [LatestJob(k) EXCEPT !.failures = failures,
                      !.pid = NoChild, !.status = IF again THEN "RETRYING" ELSE "FAILED"]]
         /\ child' = [child EXCEPT ![k].at = "ending", ![k].copy = NoRow,
                      ![k].retry = again]
         /\ past' = IF again THEN past ELSE [past EXCEPT !.failed = @ \union {JobOf(k)}]
  /\ UNCHANGED <<outside, dispatchQueue, faults>>

(* PARSED, the child's own queue, DISPATCH_QUEUED. *)
Convert(k) ==
  /\ child[k].at = "converting"
  /\ LET queued == [LatestJob(k) EXCEPT !.status = "DISPATCH_QUEUED", !.pid = NoChild]
     IN  /\ row' = [row EXCEPT ![JobOf(k)] = queued]
         /\ child' = [child EXCEPT ![k].at = "publishing", ![k].copy = queued, ![k].own = "queued"]
  /\ UNCHANGED <<outside, dispatchQueue, faults, past>>

EnqueueDispatchJob(k) ==
  /\ child[k].at = "publishing"
  /\ dispatchQueue' = [dispatchQueue EXCEPT ![JobOf(k)] = @ + 1]
  /\ child' = [child EXCEPT ![k].at = "saving"]
  /\ UNCHANGED <<outside, row, faults, past>>

(* RETRYABLE_FAILURE, though the item stays in the child's own queue. *)
DispatchJobUnsent(k) ==
  /\ child[k].at = "publishing" /\ Fault
  /\ LET failed == [child[k].copy EXCEPT !.status = "RETRYABLE_FAILURE"]
     IN  /\ row' = [row EXCEPT ![JobOf(k)] = failed]
         /\ child' = [child EXCEPT ![k].at = "saving", ![k].copy = failed]
  /\ past' = [past EXCEPT !.unpublished = @ \union {JobOf(k)}]
  /\ UNCHANGED <<outside, dispatchQueue>>

(* The coordinator saves the row it was given once more, and wakes the     *)
(* dispatcher threads of its process.                                      *)
SaveAgain(k) ==
  /\ child[k].at = "saving"
  /\ row' = [row EXCEPT ![JobOf(k)] = child[k].copy]
  /\ child' = [child EXCEPT ![k].at = "ending", ![k].copy = NoRow]
  /\ UNCHANGED <<outside, dispatchQueue, faults, past>>

(* A dispatcher thread of the child, as far as it gets. *)
OwnClaim(k) ==
  /\ child[k].at = "ending" /\ child[k].own = "queued"
  /\ LET j == JobOf(k)
     IN  IF row[j] = NoRow
         THEN child' = [child EXCEPT ![k].own = "none"] /\ UNCHANGED row
         ELSE /\ row' = [row EXCEPT ![j].status = "DISPATCHING"]
              /\ child' = [child EXCEPT ![k].own = "claimed"]
  /\ UNCHANGED <<outside, dispatchQueue, faults, past>>

OwnDeliver(k) ==
  /\ child[k].at = "ending" /\ child[k].own = "claimed"
  /\ past' = [past EXCEPT !.delivered = @ \union {JobOf(k)}]
  /\ child' = [child EXCEPT ![k].own = "delivered"]
  /\ UNCHANGED <<outside, row, dispatchQueue, faults>>

OwnComplete(k) ==
  /\ child[k].at = "ending" /\ child[k].own = "delivered"
  /\ row' = IF row[JobOf(k)] = NoRow THEN row ELSE [row EXCEPT ![JobOf(k)].status = "COMPLETED"]
  /\ child' = [child EXCEPT ![k].own = "none"]
  /\ UNCHANGED <<outside, dispatchQueue, faults, past>>

(* The handler of _dispatch_batch: tried again, or not, as                 *)
(* dispatch_max_retries says.                                              *)
OwnDeliveryFails(k) ==
  /\ child[k].at = "ending" /\ child[k].own = "claimed" /\ Fault
  /\ \E again \in BOOLEAN :
       /\ row' = IF row[JobOf(k)] = NoRow THEN row
                 ELSE [row EXCEPT ![JobOf(k)].status = IF again THEN "DISPATCH_QUEUED" ELSE "FAILED"]
       /\ child' = [child EXCEPT ![k].own = IF again THEN "queued" ELSE "none"]
  /\ UNCHANGED <<outside, dispatchQueue, past>>

(* The result goes through the pipe; the daemon threads die as they are.   *)
(* Nobody reads the result of an orphan.                                   *)
End(k) ==
  /\ child[k].at = "ending"
  /\ child' = [child EXCEPT ![k] =
                 IF Orphan(k) THEN NoProcess ELSE [@ EXCEPT !.at = "done", !.own = "none"]]
  /\ UNCHANGED <<outside, row, dispatchQueue, faults, past>>

ChildDies(k) ==
  /\ Alive(k) /\ Fault
  /\ child' = [child EXCEPT ![k] = IF Orphan(k) THEN NoProcess ELSE [@ EXCEPT !.at = "vanished"]]
  /\ UNCHANGED <<outside, row, dispatchQueue, past>>

(* The process table forgets an orphan that was ended. *)
Reap(k) ==
  /\ child[k].at \in {"done", "vanished"} /\ Orphan(k)
  /\ child' = [child EXCEPT ![k] = NoProcess]
  /\ UNCHANGED <<outside, row, dispatchQueue, faults, past>>

OwnThread(k) == OwnClaim(k) \/ OwnDeliver(k) \/ OwnComplete(k)
Child(k) ==
  \/ Start(k) \/ ConversionFails(k) \/ Convert(k) \/ EnqueueDispatchJob(k) \/ SaveAgain(k)
  \/ End(k) \/ Reap(k)

----------------------------------------------------------------------------
(* The dispatch actor: process_dispatch_job, dispatch_item *)

around == <<api, parserQueue, parent, child>>

TakeItem(d) ==
  /\ sender[d].at = "free"
  /\ \E j \in Jobs :
       /\ dispatchQueue[j] > 0
       /\ dispatchQueue' = [dispatchQueue EXCEPT ![j] = @ - 1]
       /\ IF row[j] = NoRow THEN UNCHANGED <<row, sender>>
          ELSE /\ row' = [row EXCEPT ![j].status = "DISPATCHING"]
               /\ sender' = [sender EXCEPT ![d] = [at |-> "claimed", job |-> j]]
  /\ UNCHANGED <<around, faults, past>>

Deliver(d) ==
  /\ sender[d].at = "claimed"
  /\ past' = [past EXCEPT !.delivered = @ \union {sender[d].job}]
  /\ sender' = [sender EXCEPT ![d].at = "delivered"]
  /\ UNCHANGED <<around, row, dispatchQueue, faults>>

Complete(d) ==
  /\ sender[d].at = "delivered"
  /\ LET j == sender[d].job
     IN row' = IF row[j] = NoRow THEN row ELSE [row EXCEPT ![j].status = "COMPLETED"]
  /\ sender' = [sender EXCEPT ![d].at = "completed"]
  /\ UNCHANGED <<around, dispatchQueue, faults, past>>

AcknowledgeItem(d) ==
  /\ sender[d].at = "completed"
  /\ sender' = [sender EXCEPT ![d] = FreeSender]
  /\ UNCHANGED <<around, row, dispatchQueue, faults, past>>

(* A sink refuses: the item of a message has had no attempt, so it is      *)
(* always tried again, by raising.                                         *)
DeliveryFails(d) ==
  /\ sender[d].at = "claimed" /\ Fault
  /\ LET j == sender[d].job
     IN  /\ row' = IF row[j] = NoRow THEN row ELSE [row EXCEPT ![j].status = "DISPATCH_QUEUED"]
         /\ dispatchQueue' = [dispatchQueue EXCEPT ![j] = @ + 1]
  /\ sender' = [sender EXCEPT ![d] = FreeSender]
  /\ UNCHANGED <<around, past>>

(* The worker process is killed, or the time limit strikes: nothing of     *)
(* dispatch_item handles that.                                             *)
SenderDies(d) ==
  /\ sender[d].at # "free" /\ Fault
  /\ dispatchQueue' = [dispatchQueue EXCEPT ![sender[d].job] = @ + 1]
  /\ sender' = [sender EXCEPT ![d] = FreeSender]
  /\ UNCHANGED <<around, row, past>>

Sender(d) == TakeItem(d) \/ Deliver(d) \/ Complete(d) \/ AcknowledgeItem(d)

----------------------------------------------------------------------------
Faults ==
  \/ \E j \in Jobs : ParserJobUnsent(j) \/ RemoveJob(j)
  \/ \E p \in Parents : TimeLimit(p) \/ ParentDies(p)
  \/ \E k \in Children : DispatchJobUnsent(k) \/ OwnDeliveryFails(k) \/ ChildDies(k)
  \/ \E d \in Senders : DeliveryFails(d) \/ SenderDies(d)

Next ==
  \/ \E j \in Jobs : Api(j)
  \/ \E p \in Parents : Parent(p)
  \/ \E k \in Children : Child(k) \/ OwnThread(k)
  \/ \E d \in Senders : Sender(d)
  \/ Faults

(* Requests are answered, actors take and finish their messages, processes *)
(* run.  Nothing waits for the dispatcher threads of a child.              *)
Spec ==
  /\ Init /\ [][Next]_vars
  /\ \A j \in Jobs : WF_vars(Api(j))
  /\ \A p \in Parents : WF_vars(Parent(p))
  /\ \A k \in Children : WF_vars(Child(k))
  /\ \A d \in Senders : WF_vars(Sender(d))

----------------------------------------------------------------------------
(* Properties *)

Statuses == {"PARSER_QUEUED", "PARSING", "RETRYING", "DISPATCH_QUEUED", "DISPATCHING",
             "COMPLETED", "FAILED", "RETRYABLE_FAILURE"}
Row == [status : Statuses, failures : 0..MaxFailures, pid : Children \union {NoChild}]

ASSUME AbsenceIsNothing == NoRow \notin Row /\ NoJob \notin Jobs /\ NoChild \notin Children

Holders(j) == {p \in Parents : parent[p].job = j}

(* Types; and a job never has more parser messages than one, and one for   *)
(* each actor that raised or died after it had sent a retry and before it  *)
(* acknowledged: any other retry or error replaces the message it comes    *)
(* from.                                                                   *)
DTypeOK ==
  /\ row \in [Jobs -> Row \union {NoRow}]
  /\ api \in [Jobs -> {"new", "saved", "answered"}]
  /\ dispatchQueue \in [Jobs -> Nat]
  /\ parent \in [Parents -> [at : {"free", "watching", "republish", "republished", "acknowledge"},
                             job : Jobs \union {NoJob}, child : Children \union {NoChild}]]
  /\ child \in [Children -> [at : {"none", "started", "converting", "publishing", "saving",
                                   "ending", "done", "vanished"},
                             job : Jobs \union {NoJob}, copy : Row \union {NoRow},
                             retry : BOOLEAN, own : {"none", "queued", "claimed", "delivered"}]]
  /\ sender \in [Senders -> [at : {"free", "claimed", "delivered", "completed"}, job : Jobs \union {NoJob}]]
  /\ faults \in 0..MaxFaults
  /\ \A j \in Jobs :
       parserQueue[j] + Cardinality({p \in Holders(j) : parent[p].at # "republished"})
         <= 1 + past.resent

InParsing(j) ==
  \/ parserQueue[j] > 0
  \/ Holders(j) # {}
  \/ \E k \in Children : JobOf(k) = j /\ Alive(k)

InDispatch(j) == dispatchQueue[j] > 0 \/ \E d \in Senders : sender[d].job = j

(* A row that says its job waits for the parser, is parsed, or will be     *)
(* parsed again has a message or a process that sees to it, whichever      *)
(* child died or ran out of time, unless its first message was never sent: *)
(* there is no recovery of active jobs with this backend.  The orphan of a *)
(* worker that died may write over a settled row and end there.            *)
ParsingIsWorkedOn ==
  past.orphaned = 0 =>
    \A j \in Jobs :
      (row[j] # NoRow /\ row[j].status \in {"PARSER_QUEUED", "PARSING", "RETRYING"}) =>
        InParsing(j) \/ api[j] = "saved" \/ j \in past.unpublished

Settled(j) == j \in UNION {past.delivered, past.failed, past.removed, past.unpublished}

(* An accepted document was delivered, or its job has failed, or a message *)
(* or a process still carries it, unless a message could not be sent or    *)
(* the job was removed: at least once from end to end.  (The row may say   *)
(* otherwise: a later redelivery starts a settled job again.)              *)
NothingIsLost ==
  \A j \in Jobs :
    api[j] = "answered" => Settled(j) \/ InParsing(j) \/ InDispatch(j)

(* What an uploader sees of the pipeline. *)
Answered == {j \in Jobs : api[j] = "answered"}
InHand == {j \in Jobs : InParsing(j) \/ InDispatch(j)}
Verdicts ==
  [j \in Jobs |->
     {v \in {"delivered", "failed", "removed", "unpublished"} : j \in past[v]}]

Promise == INSTANCE AtLeastOnce WITH
  accepted <- Answered, held <- InHand, verdicts <- Verdicts

(* The backend implements AtLeastOnce: an accepted job leaves its messages *)
(* and processes only with a verdict, and what has left them all does not  *)
(* come back, whatever crashes, is redelivered or removed.                 *)
PromiseKept == Promise!ASpec

(* One process parses a document at a time: a time limit while the actor   *)
(* watches, a failed child or a retry never leaves one behind.  Only the   *)
(* death of a parser worker does, whose child lives on while its message   *)
(* is delivered again, and an actor that ends between sending a retry and  *)
(* its acknowledgement, which leaves two messages of the job.              *)
OneParseAtATime ==
  past.orphaned = 0 /\ past.resent = 0 =>
    \A k, l \in Children : (Alive(k) /\ Alive(l) /\ JobOf(k) = JobOf(l)) => k = l

(* Every accepted document is delivered in the end, or its job fails, with *)
(* the exceptions above: no round of retries goes on for ever and nobody   *)
(* waits for a message that does not come.                                 *)
SettledEventually == \A j \in Jobs : api[j] = "answered" ~> Settled(j)
=============================================================================
